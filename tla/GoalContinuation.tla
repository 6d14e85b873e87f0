-------------------------- MODULE GoalContinuation --------------------------
(***************************************************************************)
(* pkg/goal and channels/aether/goal_continuations.go: after a turn of a   *)
(* session with an active goal, Runtime.AfterTurn charges the turn, asks   *)
(* the verifier, lets the policy decide, records the decision in the       *)
(* continuation ledger and admits one follow-up turn as a task of the host *)
(* targeted to this worker.  The worker's executor turns the assignment of *)
(* a queued task into an inbound turn, and recovers queued tasks at start. *)
(*                                                                         *)
(* One session with one goal, served by several workers that share the     *)
(* goal store and the ledger; on one worker the turns of the session run   *)
(* one after the other.  The stores' operations are atomic (a CAS loop).   *)
(* Turns 1 .. UserTurns come from the user; the ids after them are minted  *)
(* for the follow-ups.  The host is external.                              *)
(***************************************************************************)
EXTENDS Integers, Sequences, FiniteSets

CONSTANTS
    GoalWorker,        \* worker processes
    UserTurns,         \* bound: turns the user starts
    GoalHome,          \* [1 .. UserTurns -> the worker the turn arrives at]
    MaxGoalTurns,      \* bound: turns altogether
    MaxContinuations,  \* BoundedPolicy.MaxContinuations
    VerifierStreak,    \* verifierFailureStreak
    GoalBudget,        \* the goal's token budget; each turn costs 1
    GoalVerdicts,      \* what the verifier may answer
    GoalToolStatuses,  \* what the model may set the goal to
    GoalTroubles,      \* what may go wrong: "fault" of an operation, "crash"
    MaxGoalTroubles    \* bound: how often

ASSUME GoalAssumption ==
    /\ GoalWorker # {} /\ IsFiniteSet(GoalWorker) /\ "none" \notin GoalWorker
    /\ UserTurns \in Nat /\ MaxGoalTurns \in Nat /\ MaxContinuations \in Nat
    /\ GoalBudget \in Int
    /\ GoalHome \in [1 .. UserTurns -> GoalWorker]
    /\ GoalToolStatuses \subseteq {"active", "blocked", "completed", "cancelled"}

VARIABLES
    goal,         \* the stored goal: status and accounted messages
    decisions,    \* the continuation ledger
    goalTurn,     \* [turn -> where its AfterTurn is, and what it has read]
    followUp,     \* [turn -> its task at the host, and the task's worker]
    goalProc,     \* [GoalWorker -> executor state and inbound queue]
    goalRuns,     \* ghost: [turn -> how often it began]
    goalTroubles  \* faults and crashes so far

goalVars == <<goal, decisions, goalTurn, followUp, goalProc, goalRuns, goalTroubles>>

GoalTurns == 1 .. MaxGoalTurns
NoWorker == "none"

Planned == "continuation_planned"
Admitted == "continuation_admitted"
Stopped == "stopped"
CompletedGoal == "completed"

FreshTurn == [pc |-> "new", worker |-> NoWorker, tracked |-> FALSE, read |-> 0,
              over |-> FALSE, outcome |-> <<"none", "none">>,
              child |-> 0, admitted |-> FALSE]

IdleProc == [up |-> TRUE, inbox |-> <<>>, seen |-> {}, offers |-> {}, handling |-> {}]

GoalInit ==
    /\ goal = [status |-> "active", charged |-> {}]
    /\ decisions = <<>>
    /\ goalTurn = [t \in GoalTurns |-> FreshTurn]
    /\ followUp = [t \in GoalTurns |-> [state |-> "none", worker |-> NoWorker]]
    /\ goalProc = [w \in GoalWorker |-> IdleProc]
    /\ goalRuns = [t \in GoalTurns |-> 0]
    /\ goalTroubles = 0

GoalTrouble(kind) ==
    /\ kind \in GoalTroubles /\ goalTroubles < MaxGoalTroubles
    /\ goalTroubles' = goalTroubles + 1

GoalFault == GoalTrouble("fault")

At(t, pc) == goalTurn[t].pc = pc

InProgress(t) == goalTurn[t].pc \notin {"new", "done", "lost"}

FreeWorker(w) ==
    goalProc[w].up /\ \A t \in GoalTurns : InProgress(t) => goalTurn[t].worker # w

\* validTransition.
ValidTransition(from, to) ==
    \/ from = to
    \/ from = "active" /\ to \in {"completed", "blocked", "cancelled"}
    \/ from = "blocked" /\ to \in {"active", "cancelled"}

-----------------------------------------------------------------------------
(* The turn up to its final message. *)

\* A turn starts and BeginTurn notes whether a goal is active.  A follow-up
\* comes out of the inbound queue and claims its task; a claim of a running
\* task is confirmed by its state.  (No third run is followed: the second is
\* what GoalRunsOnce excludes.)
GoalBegin(t, w) ==
    /\ FreeWorker(w) /\ goalRuns[t] < 2
    /\ \/ /\ t <= UserTurns /\ At(t, "new") /\ w = GoalHome[t]
          /\ UNCHANGED <<followUp, goalProc>>
       \/ /\ goalProc[w].inbox # <<>> /\ Head(goalProc[w].inbox) = t
          /\ followUp[t].state \in {"queued", "running"}
          /\ followUp' = [followUp EXCEPT ![t].state = "running"]
          /\ goalProc' = [goalProc EXCEPT ![w].inbox = Tail(@)]
    /\ goalTurn' = [goalTurn EXCEPT ![t] =
                      [FreshTurn EXCEPT !.pc = "running", !.worker = w,
                                        !.tracked = (goal.status = "active")]]
    /\ goalRuns' = [goalRuns EXCEPT ![t] = @ + 1]
    /\ UNCHANGED <<goal, decisions, goalTroubles>>

\* The update tool: a lifecycle transition asked for by the model.
GoalTool(t, status) ==
    /\ At(t, "running") /\ ValidTransition(goal.status, status)
    /\ goal' = [goal EXCEPT !.status = status]
    /\ goalTurn' = [goalTurn EXCEPT ![t].tracked = @ \/ status = "active"]
    /\ UNCHANGED <<decisions, followUp, goalProc, goalRuns, goalTroubles>>

\* AfterTurn is over and the turn goes to its end.
EndTurn(t) == goalTurn' = [goalTurn EXCEPT ![t].pc = "ending"]

\* The task of a follow-up completes with its turn.  When that fails the host
\* keeps it running, for turn recovery to end.
GoalFinish(t) ==
    /\ At(t, "ending")
    /\ goalTurn' = [goalTurn EXCEPT ![t] = [FreshTurn EXCEPT !.pc = "done"]]
    /\ \/ /\ followUp' = [followUp EXCEPT ![t].state = IF @ = "running" THEN "over" ELSE @]
          /\ UNCHANGED goalTroubles
       \/ followUp[t].state = "running" /\ GoalFault /\ UNCHANGED followUp
    /\ UNCHANGED <<goal, decisions, goalProc, goalRuns>>

-----------------------------------------------------------------------------
(* AfterTurn. *)

DecidedTurn(records, t) == \E i \in DOMAIN records : records[i].turn = t

\* The ledger is read.  It only grows: what was read is a prefix of it.
GoalList(t) ==
    /\ At(t, "running")
    /\ IF ~goalTurn[t].tracked \/ DecidedTurn(decisions, t)
       THEN EndTurn(t)
       ELSE goalTurn' = [goalTurn EXCEPT ![t].pc = "listed", ![t].read = Len(decisions)]
    /\ UNCHANGED <<goal, decisions, followUp, goalProc, goalRuns, goalTroubles>>

PlansIn(records) == {i \in DOMAIN records : records[i].action = Planned}

WrapUpUsed(records) == \E i \in DOMAIN records : records[i].reason = "wrap_up"

\* consecutiveVerifierFailures: the last records that say the verifier
\* failed, neighbours of one turn counted once.
FailureStreak(records) ==
    LET tail == {i \in DOMAIN records :
                    \A j \in i .. Len(records) : records[j].reason = "verifier_failed"}
    IN  Cardinality({i \in tail : i = Len(records) \/ records[i + 1].turn # records[i].turn})

\* Mutant: the count is compared after the new turn was added.
PolicyLate(records, over) ==
    IF over
    THEN IF MaxContinuations > 0 /\ ~WrapUpUsed(records) THEN <<"plan", "wrap_up">>
         ELSE <<"block", "budget">>
    ELSE IF MaxContinuations = 0 THEN <<"stop", "max">>
    ELSE IF Cardinality(PlansIn(records)) > MaxContinuations THEN <<"block", "max">>
    ELSE <<"plan", "active">>

\* BoundedPolicy.Decide for an active goal.
Policy(records, over) ==
    IF over
    THEN IF MaxContinuations > 0 /\ ~WrapUpUsed(records) THEN <<"plan", "wrap_up">>
         ELSE <<"block", "budget">>
    ELSE IF MaxContinuations = 0 THEN <<"stop", "max">>
    ELSE IF Cardinality(PlansIn(records)) >= MaxContinuations THEN <<"block", "max">>
    ELSE <<"plan", "active">>

\* The verdict, the policy and what comes of both: what to do, and why.  A
\* tolerated verifier failure replaces the reason of a planned follow-up.
OutcomeOf(records, status, over, verdict) ==
    LET policy == Policy(records, over)
    IN  IF status # "active" THEN <<"stop", "terminal">>
        ELSE IF verdict = "satisfied" THEN <<"complete", "verifier_satisfied">>
        ELSE IF verdict = "error" /\ FailureStreak(records) + 1 >= VerifierStreak
             THEN <<"block", "verifier_failed">>
        ELSE IF verdict = "error" /\ policy[1] = "plan" THEN <<"plan", "verifier_failed">>
        ELSE policy

\* AccountUsage charges the message once and returns the goal; from that, the
\* verifier's answer and the ledger as it was read, AfterTurn decides.
GoalDecide(t, verdict) ==
    LET charged == goal.charged \cup {t}
        over == Cardinality(charged) >= GoalBudget
        records == SubSeq(decisions, 1, goalTurn[t].read)
        outcome == OutcomeOf(records, goal.status, over, verdict)
    IN  /\ At(t, "listed")
        /\ goal' = [goal EXCEPT !.charged = charged]
        /\ goalTurn' = [goalTurn EXCEPT ![t].outcome = outcome, ![t].over = over,
              ![t].pc = IF outcome[1] \in {"block", "complete"} THEN "updating" ELSE "deciding"]
        /\ UNCHANGED <<decisions, followUp, goalProc, goalRuns, goalTroubles>>

\* UpdateGoal to blocked or completed.  The goal may have moved since it was
\* read; then the transition is refused and no decision is recorded.
GoalUpdate(t) ==
    LET status == IF goalTurn[t].outcome[1] = "block" THEN "blocked" ELSE "completed"
    IN  /\ At(t, "updating")
        /\ IF ValidTransition(goal.status, status)
           THEN /\ goal' = [goal EXCEPT !.status = status]
                /\ goalTurn' = [goalTurn EXCEPT ![t].pc = "deciding"]
           ELSE EndTurn(t) /\ UNCHANGED goal
        /\ UNCHANGED <<decisions, followUp, goalProc, goalRuns, goalTroubles>>

Decision(t, action, reason, child) ==
    [turn |-> t, worker |-> goalTurn[t].worker, action |-> action, reason |-> reason,
     over |-> goalTurn[t].over, child |-> child]

UnusedTurns ==
    {c \in UserTurns + 1 .. MaxGoalTurns : \A t \in GoalTurns : goalTurn[t].child # c} \
        {decisions[i].child : i \in DOMAIN decisions}

\* Mutant: a failed append is ignored.
AppendOrNot(t) ==
    /\ At(t, "deciding") /\ goalTurn[t].outcome[1] = "plan" /\ UnusedTurns # {}
    /\ GoalFault
    /\ goalTurn' = [goalTurn EXCEPT ![t].pc = "planned",
                      ![t].child = CHOOSE c \in UnusedTurns : \A d \in UnusedTurns : c <= d]
    /\ UNCHANGED <<goal, decisions, followUp, goalProc, goalRuns>>

\* AppendFirstDecision: the first decision of a turn wins.  A plan carries the
\* ids of the follow-up, minted before.
GoalAppendFirst(t) ==
    LET plan == goalTurn[t].outcome[1] = "plan"
        done == goal.status = "completed" /\ goalTurn[t].outcome[1] = "complete"
        action == IF plan THEN Planned ELSE IF done THEN CompletedGoal ELSE Stopped
        child == IF plan THEN CHOOSE c \in UnusedTurns : \A d \in UnusedTurns : c <= d ELSE 0
        appended == Append(decisions, Decision(t, action, goalTurn[t].outcome[2], child))
    IN  /\ At(t, "deciding") /\ (plan => UnusedTurns # {})
        /\ \/ DecidedTurn(decisions, t) /\ EndTurn(t) /\ UNCHANGED <<decisions, goalTroubles>>
           \/ /\ ~DecidedTurn(decisions, t)
              /\ decisions' = appended
              /\ IF plan
                 THEN goalTurn' = [goalTurn EXCEPT ![t].pc = "planned", ![t].child = child]
                 ELSE EndTurn(t)
              /\ UNCHANGED goalTroubles
           \/ /\ ~DecidedTurn(decisions, t) /\ GoalFault
              /\ decisions' \in {decisions, appended}
              /\ EndTurn(t)
        /\ UNCHANGED <<goal, followUp, goalProc, goalRuns>>

\* Admit creates the task under an idempotency key.  When the call fails the
\* task may exist all the same.
GoalAdmit(t) ==
    LET c == goalTurn[t].child
        w == goalTurn[t].worker
        created == [followUp EXCEPT ![c] = [state |-> "queued", worker |-> w]]
        offered == [goalProc EXCEPT ![w].offers = @ \cup {c}]
    IN  /\ At(t, "planned")
        /\ \/ /\ followUp' = created /\ goalProc' = offered
              /\ goalTurn' = [goalTurn EXCEPT ![t].pc = "confirming", ![t].admitted = TRUE]
              /\ UNCHANGED goalTroubles
           \/ /\ GoalFault
              /\ \/ followUp' = created /\ goalProc' = offered
                 \/ UNCHANGED <<followUp, goalProc>>
              /\ goalTurn' = [goalTurn EXCEPT ![t].pc = "confirming"]
        /\ UNCHANGED <<goal, decisions, goalRuns>>

\* The second record of a planned turn: admitted, or stopped.
GoalConfirm(t) ==
    LET record == IF goalTurn[t].admitted
                  THEN Decision(t, Admitted, goalTurn[t].outcome[2], 0)
                  ELSE Decision(t, Stopped, "admission_failed", 0)
        appended == Append(decisions, record)
    IN  /\ At(t, "confirming")
        /\ \/ decisions' = appended /\ UNCHANGED goalTroubles
           \/ GoalFault /\ decisions' \in {decisions, appended}
        /\ EndTurn(t)
        /\ UNCHANGED <<goal, followUp, goalProc, goalRuns>>

-----------------------------------------------------------------------------
(* AssignedContinuationExecutor and the host. *)

\* markSeen: a task is handled once in the life of the process.
MarkSeen(proc, c) ==
    IF c \in proc.seen THEN proc
    ELSE [proc EXCEPT !.seen = @ \cup {c}, !.handling = @ \cup {c}]

\* The assignment of a queued task is delivered: the one that is due, and by
\* an at-least-once host perhaps another.
GoalAssigned(w, c) ==
    /\ c \in goalProc[w].offers
    /\ LET taken == [goalProc[w] EXCEPT !.offers = @ \ {c}]
       IN  goalProc' = [goalProc EXCEPT ![w] = MarkSeen(taken, c)]
    /\ UNCHANGED <<goal, decisions, goalTurn, followUp, goalRuns, goalTroubles>>

GoalReassigned(w, c) ==
    /\ followUp[c] = [state |-> "queued", worker |-> w]
    /\ goalProc[w].up /\ c \notin goalProc[w].offers
    /\ goalProc' = [goalProc EXCEPT ![w] = MarkSeen(@, c)]
    /\ UNCHANGED <<goal, decisions, goalTurn, followUp, goalRuns, goalTroubles>>

\* The task's state is read: a queued task becomes an inbound turn, a running
\* one is left to turn recovery.  A failed read forgets the task.
GoalHandle(w, c) ==
    /\ c \in goalProc[w].handling
    /\ \/ /\ goalProc' = [goalProc EXCEPT ![w].handling = @ \ {c},
                 ![w].inbox = IF followUp[c].state = "queued" THEN Append(@, c) ELSE @]
          /\ UNCHANGED goalTroubles
       \/ /\ GoalFault
          /\ goalProc' = [goalProc EXCEPT ![w].handling = @ \ {c}, ![w].seen = @ \ {c}]
    /\ UNCHANGED <<goal, decisions, goalTurn, followUp, goalRuns>>

\* A worker stops.  What it was about to enqueue may be rejected on the way
\* out, which fails the task.
GoalCrash(w) ==
    /\ goalProc[w].up /\ GoalTrouble("crash")
    /\ \E rejected \in SUBSET goalProc[w].handling :
          followUp' = [c \in GoalTurns |->
              IF c \in rejected /\ followUp[c].state = "queued"
              THEN [followUp[c] EXCEPT !.state = "over"] ELSE followUp[c]]
    /\ goalProc' = [goalProc EXCEPT ![w] = [IdleProc EXCEPT !.up = FALSE]]
    /\ goalTurn' = [t \in GoalTurns |->
          IF InProgress(t) /\ goalTurn[t].worker = w
          THEN [FreshTurn EXCEPT !.pc = "lost"] ELSE goalTurn[t]]
    /\ UNCHANGED <<goal, decisions, goalRuns>>

\* ledgeredEnvelope.
HasPlan(c) ==
    \E i \in DOMAIN decisions : decisions[i].action = Planned /\ decisions[i].child = c

QueuedOf(w) == {c \in GoalTurns : followUp[c] = [state |-> "queued", worker |-> w]}

\* RecoverQueued rebuilds the queued tasks of the worker from the ledger, or
\* fails the start; turn recovery ends the tasks that were running.
GoalRestart(w) ==
    /\ ~goalProc[w].up /\ \A c \in QueuedOf(w) : HasPlan(c)
    /\ goalProc' = [goalProc EXCEPT ![w] = [IdleProc EXCEPT !.offers = QueuedOf(w)]]
    /\ followUp' = [c \in GoalTurns |->
          IF followUp[c] = [state |-> "running", worker |-> w]
          THEN [followUp[c] EXCEPT !.state = "over"] ELSE followUp[c]]
    /\ UNCHANGED <<goal, decisions, goalTurn, goalRuns, goalTroubles>>

-----------------------------------------------------------------------------
GoalStep(t) ==
    \/ \E w \in GoalWorker : GoalBegin(t, w)
    \/ GoalList(t) \/ GoalUpdate(t) \/ GoalAppendFirst(t)
    \/ GoalAdmit(t) \/ GoalConfirm(t) \/ GoalFinish(t)
    \/ \E verdict \in GoalVerdicts : GoalDecide(t, verdict)

GoalServe(w) ==
    \/ \E c \in GoalTurns : GoalAssigned(w, c) \/ GoalHandle(w, c)
    \/ GoalRestart(w)

GoalStatuses == {"active", "blocked", "completed", "cancelled"}

GoalNext ==
    \/ \E t \in GoalTurns : GoalStep(t)
    \/ \E t \in GoalTurns, status \in GoalToolStatuses : GoalTool(t, status)
    \/ \E w \in GoalWorker : GoalServe(w) \/ GoalCrash(w)
    \/ \E w \in GoalWorker, c \in GoalTurns : GoalReassigned(w, c)

\* The goroutine of a turn and the callbacks of the host go on while they
\* can, and a stopped worker is started again.
GoalSpec ==
    /\ GoalInit /\ [][GoalNext]_goalVars
    /\ \A t \in GoalTurns : WF_goalVars(GoalStep(t))
    /\ \A w \in GoalWorker : WF_goalVars(GoalServe(w))

-----------------------------------------------------------------------------
GoalTypeOK ==
    /\ goal.status \in GoalStatuses /\ goal.charged \subseteq GoalTurns
    /\ \A i \in DOMAIN decisions :
          decisions[i].action \in {Planned, Admitted, Stopped, CompletedGoal}
    /\ \A t \in GoalTurns : followUp[t].state \in {"none", "queued", "running", "over"}
    /\ \A w \in GoalWorker : goalProc[w].handling \subseteq goalProc[w].seen

\* "at most MaxContinuations automatic follow-ups" (runtime.go:66), the rounds
\* past the budget apart: no worker plans more of them, and all together at
\* most one more for each further worker, that was deciding at the time.
GoalFollowUpsBounded ==
    LET plans == {i \in PlansIn(decisions) : ~decisions[i].over}
    IN  /\ Cardinality(plans) <= MaxContinuations + Cardinality(GoalWorker) - 1
        /\ \A w \in GoalWorker :
              Cardinality({i \in plans : decisions[i].worker = w}) <= MaxContinuations

\* A follow-up runs at most once, however often its assignment is delivered,
\* recovered or interrupted by a stop of the worker.
GoalRunsOnce == \A t \in GoalTurns : goalRuns[t] <= 1

\* The plan is durable before the task exists ("durably plans then enqueues",
\* runtime.go:274): a restarted worker finds the envelope of each of its
\* queued tasks in the ledger, without which it would not start.
GoalTasksArePlanned == \A c \in GoalTurns : followUp[c].state # "none" => HasPlan(c)

\* "Exactly one such round is ever planned per goal, after which the budget
\* blocks" (ledger.go:47): at most one follow-up is planned by turns that
\* found the budget exhausted.
GoalOneWrapUp == Cardinality({i \in PlansIn(decisions) : decisions[i].over}) <= 1

\* A task the host has queued is worked off: it runs, or is rejected.
GoalTaskSettles == \A c \in GoalTurns : followUp[c].state = "queued" ~> followUp[c].state # "queued"

\* What a goal makes run was planned before within its limits, and runs once.
GoalSound == GoalFollowUpsBounded /\ GoalTasksArePlanned /\ GoalRunsOnce
=============================================================================
