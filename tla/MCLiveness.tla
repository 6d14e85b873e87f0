----------------------------- MODULE MCLiveness -----------------------------
(***************************************************************************)
(* One TLC run of what must eventually happen: a prompt is answered or     *)
(* times out, a queued follow-up is worked off, the wait for a child ends, *)
(* the record of a parent turn is closed.  The initial state picks which.  *)
(***************************************************************************)
EXTENDS ToolApproval, GoalContinuation, SubagentTasks, ScheduledTurns

CONSTANTS Services, uA, uB,
          Response, MaxToolIterations, MaxMessages, MaxCrashes, MaxFaults,
          LostReplies, UserCancels, MaxStops, None

VARIABLES service,
          task, rec, asst, results, child, ran, pc, live, mem, iter, cur, value, left,
          err, info, ctxDone, stopping, crashes, faults, stops

Recovery == INSTANCE TurnRecovery

turnVars == <<task, rec, asst, results, child, ran, pc, live, mem, iter, cur, value, left,
              err, info, ctxDone, stopping, crashes, faults, stops>>

apprRest == <<goalVars, subVars, schedVars, turnVars>>
goalRest == <<apprVars, subVars, schedVars, turnVars>>
subRest == <<apprVars, goalVars, schedVars, turnVars>>
schedRest == <<apprVars, goalVars, subVars, turnVars>>
recoveryRest == <<apprVars, goalVars, subVars, schedVars>>
livenessVars == <<service, apprVars, apprRest>>

\* Two calls in the first turn and one in the second, whose call id the
\* provider of the first turn used as well.
MCTurnOfCall == [c \in ApprCall |-> IF c = 3 THEN 2 ELSE 1]
MCToolOfCall == [c \in ApprCall |-> IF c = 2 THEN uB ELSE uA]
MCTaskOfTurn == [t \in ApprTurn |-> t]
MCIdOfCall == [c \in ApprCall |-> IF c = 2 THEN 2 ELSE 1]

Tool(local, trust, policy, safety) ==
    [local |-> local, trust |-> trust, policy |-> policy, safety |-> safety, hook |-> TRUE]

MCToolKinds ==
    LET Pair(a, b) == [t \in ApprTool |-> IF t = uA THEN a ELSE b]
    IN  {Pair(Tool(TRUE, "default", "ask", "allow"), Tool(FALSE, "pre", "deny", "ask")),
         Pair(Tool(TRUE, "fresh", "ask", "allow"), Tool(TRUE, "default", "allow", "deny")),
         Pair(Tool(FALSE, "default", "ask", "allow"), Tool(FALSE, "fresh", "allow", "allow"))}

\* One worker, which hosts both turns of the user.
MCGoalHome == [t \in 1..UserTurns |-> "w1"]

MCThreadOf == [e \in SubExec |-> 1]

MCSchedBefore == [s \in Sched |-> "v1"]

\* Messages whose calls form one checkpointed batch.
OneBatch == {<<>>, <<"tool">>, <<"spawn">>, <<"safe", "safe">>}

Approval(A) == service = "approval" /\ A /\ UNCHANGED <<service, apprRest>>
Goal(A) == service = "goal" /\ A /\ UNCHANGED <<service, goalRest>>

\* A run of the subagents has a crash or a failed operation, not both.
Subagents(A) ==
    service = "subagents" /\ A /\ 0 \in {subFaults', subCrashes'} /\ UNCHANGED <<service, subRest>>

Scheduled(A) == service = "scheduled" /\ A /\ UNCHANGED <<service, schedRest>>
Turn(A) == service = "recovery" /\ A /\ UNCHANGED <<service, recoveryRest>>

Init ==
    /\ service \in Services
    /\ ApprInit /\ GoalInit /\ SubInit /\ SchedInit /\ Recovery!Init
    /\ service # "approval" => toolKind = CHOOSE k \in ToolKinds : TRUE
    /\ service # "approval" => parallel = [t \in ApprTurn |-> FALSE]
    /\ service # "subagents" => subMode = CHOOSE m \in SubModes : TRUE

Next ==
    \/ Approval(ApprNext)
    \/ Goal(GoalNext)
    \/ Subagents(SubNext)
    \/ Scheduled(SchedNext)
    \/ Turn(Recovery!Next)

\* Goroutines, timers, the host and the supervisor of the processes go on
\* while they can; users and faults need not.
Spec ==
    /\ Init /\ [][Next]_livenessVars
    /\ \A c \in ApprCall : WF_apprVars(service = "approval" /\ ApprStep(c))
    /\ \A t \in ApprTurn : WF_apprVars(service = "approval" /\ ApprAbort(t))
    /\ \A t \in GoalTurns : WF_goalVars(service = "goal" /\ GoalStep(t))
    /\ \A w \in GoalWorker : WF_goalVars(service = "goal" /\ GoalServe(w))
    /\ WF_subVars(service = "subagents" /\ SubRecover)
    /\ \A e \in SubExec : WF_subVars(service = "subagents" /\ ParentProgress(e))
    /\ \A e \in SubExec : WF_subVars(service = "subagents" /\ Redeliver(e))
    /\ \A h \in SubHandler : WF_subVars(service = "subagents" /\ HandlerProgress(h))
    /\ WF_schedVars(service = "scheduled" /\ SchedWork)
    /\ \A h \in SchedHandler : WF_schedVars(service = "scheduled" /\ SchedHandle(h))
    /\ \A t \in SchedTask : WF_schedVars(service = "scheduled" /\ SchedDelivery(t))
    /\ WF_turnVars(service = "recovery" /\ Recovery!LiveStep)
    /\ WF_turnVars(service = "recovery" /\ Recovery!RecoveryStep)
    /\ WF_turnVars(service = "recovery" /\ Recovery!ChildEnds)
    /\ WF_turnVars(service = "recovery" /\ Recovery!Exit)
    /\ WF_turnVars(service = "recovery" /\ Recovery!Restart)

\* The record of a parent turn becomes terminal, see TurnRecovery.
RecordSettles == Recovery!RecordSettles

\* A queued task is worked off: a goal's follow-up, see GoalContinuation, and
\* a scheduled turn, see ScheduledTurns.
QueuedTasksMove == GoalTaskSettles /\ SchedQueueMoves
=============================================================================
