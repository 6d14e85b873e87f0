------------------------------- MODULE TaskBoard -------------------------------
(***************************************************************************)
(* pkg/taskstate and pkg/team: the board of planned tasks that agents      *)
(* claim, and the graph of the agents, each one file.  Every operation     *)
(* takes a lock that the stores of one process share, reads the whole      *)
(* file, checks it, changes it and replaces it; processes do not exclude   *)
(* each other.  The users are the coordinator of a team and the /tasks and *)
(* /team commands of the terminal.                                         *)
(*                                                                         *)
(* Titles, evidence, hints and what is only read are left out.             *)
(***************************************************************************)
EXTENDS Integers, FiniteSets

CONSTANTS
    TbPlans,      \* what one run does: stores and their processes, agents, bounds
    TbTask,       \* task ids, numbers: claimed in the order of creation, then of id
    TbAgent,      \* agents, and the nodes of the graph
    TbStale,      \* ClaimRequest.StaleAfter
    TbKids,       \* CoordinatorOptions.MaxActiveChildren
    MaxTbTime,    \* bound: time
    NoTask, NoAgent, NoOp

VARIABLES
    tbPlan,       \* the plan of this run
    tbBoard,      \* tasks/state.json: fileState, its events counted
    tbTeam,       \* the graph file: graphState
    tbOp,         \* [store -> [file -> the operation that has read it]]
    tbNow,        \* the clock
    tbCount,      \* operations so far
    tbPast        \* what was reported, and what the code itself lets happen

tbVars == <<tbPlan, tbBoard, tbTeam, tbOp, tbNow, tbCount, tbPast>>

TbFile == {"board", "team"}
TbStatus == {"pending", "in_progress", "completed", "cancelled"}
AgentStatus == {"running", "completed", "cancelled"}
NewTask(deps) == [status |-> "pending", owner |-> NoAgent, at |-> 0, deps |-> deps, made |-> tbNow]
TbContent(f) == IF f = "board" THEN tbBoard ELSE tbTeam

TbInit ==
    /\ tbPlan \in TbPlans
    /\ tbBoard = [tasks |-> [t \in TbTask |-> NoTask], events |-> 0, approval |-> "pending"]
    /\ tbTeam = [agents |-> [a \in TbAgent |-> "none"], edges |-> {}]
    /\ tbOp = [r \in DOMAIN tbPlan.at |-> [f \in TbFile |-> NoOp]]
    /\ tbNow = 0
    /\ tbCount = 0
    /\ tbPast = [granted |-> {}, done |-> 0, raced |-> FALSE, relinked |-> {}, woken |-> FALSE]

-----------------------------------------------------------------------------
(* The rules of the board. *)
Known(board) == {t \in TbTask : board.tasks[t] # NoTask}

\* hasCycle, hasAgentCycle: some nodes each lead to one of them.
HasCycle(nodes, Succ(_)) ==
    \E s \in SUBSET nodes \ {{}} : \A x \in s : Succ(x) \cap s # {}

validateGraph(board) ==
    /\ \A t \in Known(board) : board.tasks[t].deps \subseteq Known(board)
    /\ ~HasCycle(Known(board), LAMBDA t : board.tasks[t].deps)

dependenciesComplete(board, t) ==
    \A d \in board.tasks[t].deps : board.tasks[d] # NoTask /\ board.tasks[d].status = "completed"

ownerStale(task) == tbNow - task.at > TbStale

claimable(board, t) ==
    LET task == board.tasks[t] IN
    /\ task.status \notin {"completed", "cancelled"}
    /\ task.status = "in_progress" /\ task.owner # NoAgent => ownerStale(task)
    /\ dependenciesComplete(board, t)

validTransition(from, to) ==
    \/ from = to
    \/ from = "pending" /\ to \in {"in_progress", "cancelled"}
    \/ from = "in_progress" /\ to \in {"pending", "completed", "cancelled"}

applyUpdate(task, status, deps) ==
    LET working == status = "in_progress" IN
    [task EXCEPT !.status = status, !.deps = deps,
                 !.owner = IF working THEN @ ELSE NoAgent, !.at = IF working THEN @ ELSE 0]

\* What an operation makes of the board it has read; NoTask when it is refused.
Put(board, t, task) == [board EXCEPT !.tasks[t] = task, !.events = @ + 1]

createTask(board, o) ==
    IF o.t \in Known(board) THEN NoTask
    ELSE LET next == Put(board, o.t, NewTask(o.deps)) IN IF validateGraph(next) THEN next ELSE NoTask

updateTask(board, t, status, deps) ==
    LET next == Put(board, t, applyUpdate(board.tasks[t], status, deps))
    IN  IF validTransition(board.tasks[t].status, status) /\ validateGraph(next) THEN next ELSE NoTask

claimTask(board, t, a) ==
    IF ~claimable(board, t) THEN NoTask
    ELSE Put(board, t, [board.tasks[t] EXCEPT !.status = "in_progress", !.owner = a, !.at = tbNow])

\* sortTasks: the oldest claimable task, of the same age the one of the lowest id.
claimNext(board, a) ==
    LET ready == {t \in Known(board) : claimable(board, t)}
        older(t, u) == \/ board.tasks[t].made < board.tasks[u].made
                       \/ board.tasks[t].made = board.tasks[u].made /\ t <= u
    IN  IF ready = {} THEN NoTask
        ELSE claimTask(board, CHOOSE t \in ready : \A u \in ready : older(t, u), a)

\* validateTaskOwnerGuard, for the coordinator's ReleaseTask and CancelTask.
updateTaskIfOwned(board, t, a, status) ==
    IF board.tasks[t].owner = a /\ board.tasks[t].status = "in_progress"
    THEN updateTask(board, t, status, board.tasks[t].deps) ELSE NoTask

\* ApprovePlanExit asks for the leader; nothing asks for the approval.
decidePlan(board, o) == [board EXCEPT !.approval = o.status]

TaskOp(board, o) ==
    CASE o.do = "claim" -> claimTask(board, o.t, o.a)
      [] o.do = "set" -> updateTask(board, o.t, o.status, board.tasks[o.t].deps)
      [] o.do = "link" -> updateTask(board, o.t, board.tasks[o.t].status, o.deps)
      [] o.do = "guarded" -> updateTaskIfOwned(board, o.t, o.a, o.status)
      [] OTHER -> NoTask

BoardOp(board, o) ==
    CASE o.do = "create" -> createTask(board, o)
      [] o.do = "next" -> claimNext(board, o.a)
      [] o.do = "plan" -> decidePlan(board, o)
      [] OTHER -> IF o.t \in Known(board) THEN TaskOp(board, o) ELSE NoTask

-----------------------------------------------------------------------------
(* The rules of the graph. *)
Members(team) == {a \in TbAgent : team.agents[a] # "none"}
Children(team, a) == {c \in TbAgent : <<a, c>> \in team.edges}
RunningChildren(team, a) == {c \in Children(team, a) : team.agents[c] = "running"}

validateGraphState(team) ==
    /\ \A e \in team.edges : {e[1], e[2]} \subseteq Members(team)
    /\ ~HasCycle(Members(team), LAMBDA a : Children(team, a))

addChild(team, o) ==
    LET next == [agents |-> [team.agents EXCEPT ![o.b] = IF @ = "none" THEN "running" ELSE @],
                 edges |-> team.edges \cup {<<o.a, o.b>>}]
    IN  IF o.a \notin Members(team) THEN NoTask
        ELSE IF <<o.a, o.b>> \in team.edges THEN team
        ELSE IF Cardinality(RunningChildren(team, o.a)) >= TbKids \/ ~validateGraphState(next)
             THEN NoTask
        ELSE next

TeamOp(team, o) ==
    CASE o.do = "register" ->
            IF o.a \in Members(team) THEN NoTask ELSE [team EXCEPT !.agents[o.a] = "running"]
      [] o.do = "child" -> addChild(team, o)
      [] o.do = "status" ->
            IF o.a \notin Members(team) THEN NoTask ELSE [team EXCEPT !.agents[o.a] = o.status]

-----------------------------------------------------------------------------
(* Operations: the lock and the read, then the change and the write. *)
FileOf(o) == IF o.do \in {"register", "child", "status"} THEN "team" ELSE "board"

\* stateLock: the stores of one process share the lock of a path.
stateLock(r, f) == \A q \in DOMAIN tbPlan.at : tbPlan.at[q] = tbPlan.at[r] => tbOp[q][f] = NoOp

\* readState: a file that does not pass its checks is never read.
TbRead(r, o) ==
    LET f == FileOf(o) IN
    /\ tbCount < tbPlan.ops /\ stateLock(r, f)
    /\ IF f = "board" THEN validateGraph(tbBoard) ELSE validateGraphState(tbTeam)
    /\ tbOp' = [tbOp EXCEPT ![r][f] = [o |-> o, read |-> TbContent(f)]]
    /\ tbCount' = tbCount + 1
    /\ UNCHANGED <<tbPlan, tbBoard, tbTeam, tbNow, tbPast>>

\* The claims this operation ends, and the one it grants.
Grants(o, before, after) ==
    LET changed == {t \in TbTask : after.tasks[t] # before.tasks[t]}
        let_go(g) == g.t \in changed /\ after.tasks[g.t].status # "in_progress"
        kept == {[g EXCEPT !.ended = @ \/ let_go(g)] : g \in tbPast.granted}
    IN  IF o.do \notin {"claim", "next"} THEN kept
        ELSE kept \cup {[t |-> t, a |-> o.a, at |-> tbNow, n |-> tbCount, ended |-> FALSE] : t \in changed}

TbWrite(r) ==
    \E f \in TbFile :
        /\ tbOp[r][f] # NoOp
        /\ LET o == tbOp[r][f].o
               before == tbOp[r][f].read
               after == IF f = "board" THEN BoardOp(before, o) ELSE TeamOp(before, o) IN
           IF after = NoTask THEN UNCHANGED <<tbBoard, tbTeam, tbPast>>
           ELSE /\ tbBoard' = IF f = "board" THEN after ELSE tbBoard
                /\ tbTeam' = IF f = "team" THEN after ELSE tbTeam
                /\ tbPast' = [tbPast EXCEPT
                      !.granted = IF f = "board" THEN Grants(o, before, after) ELSE @,
                      !.done = IF f = "board" THEN @ + (after.events - before.events) ELSE @,
                      !.raced = @ \/ TbContent(f) # before,
                      !.relinked = IF o.do = "link" THEN @ \cup {o.t} ELSE @,
                      !.woken = @ \/ (o.do = "status" /\ o.status = "running")]
        /\ tbOp' = [tbOp EXCEPT ![r][f] = NoOp]
        /\ UNCHANGED <<tbPlan, tbNow, tbCount>>

\* The context ends, or the file cannot be replaced: the old one stays.
TbFails(r) ==
    \E f \in TbFile :
        /\ tbPlan.fails /\ tbOp[r][f] # NoOp
        /\ tbOp' = [tbOp EXCEPT ![r][f] = NoOp]
        /\ UNCHANGED <<tbPlan, tbBoard, tbTeam, tbNow, tbCount, tbPast>>

TbTick ==
    /\ tbNow < MaxTbTime /\ "claim" \in tbPlan.does
    /\ tbNow' = tbNow + 1
    /\ UNCHANGED <<tbPlan, tbBoard, tbTeam, tbOp, tbCount, tbPast>>

TbOps ==
    [do : {"create"}, t : TbTask, deps : SUBSET TbTask] \cup [do : {"claim"}, t : TbTask, a : tbPlan.agents] \cup
    [do : {"next"}, a : tbPlan.agents] \cup
    [do : {"set"}, t : TbTask, status : {"pending", "completed", "cancelled"}] \cup
    [do : {"link"}, t : TbTask, deps : SUBSET TbTask] \cup
    [do : {"guarded"}, t : TbTask, a : tbPlan.agents, status : {"pending", "cancelled"}] \cup
    [do : {"plan"}, status : {"approved", "rejected"}] \cup
    [do : {"register"}, a : tbPlan.agents] \cup [do : {"child"}, a : tbPlan.agents, b : tbPlan.agents] \cup
    [do : {"status"}, a : tbPlan.agents, status : AgentStatus]

TbNext ==
    \/ \E r \in DOMAIN tbPlan.at, o \in TbOps : o.do \in tbPlan.does /\ TbRead(r, o)
    \/ \E r \in DOMAIN tbPlan.at : TbWrite(r) \/ TbFails(r)
    \/ TbTick

TbSpec == TbInit /\ [][TbNext]_tbVars

-----------------------------------------------------------------------------
TbTypeOK ==
    /\ \A t \in Known(tbBoard) :
          tbBoard.tasks[t] \in [status : TbStatus, owner : TbAgent \cup {NoAgent}, at : 0..MaxTbTime,
                                deps : SUBSET TbTask, made : 0..MaxTbTime]
    /\ tbTeam.agents \in [TbAgent -> AgentStatus \cup {"none"}]
    /\ tbNow \in 0..MaxTbTime

\* Whatever operations meet, what they leave can be read again: every dependency
\* exists and no task waits for itself, every edge has its agents and no agent is
\* its own descendant.
TbReadable == validateGraph(tbBoard) /\ validateGraphState(tbTeam)

\* A task that is worked on has its dependencies behind it, unless they were
\* changed: a completed task stays completed.
TbDependenciesDone ==
    \A t \in Known(tbBoard) \ tbPast.relinked :
        tbBoard.tasks[t].owner # NoAgent =>
            tbBoard.tasks[t].status = "in_progress" /\ dependenciesComplete(tbBoard, t)

\* No agent is given a task another one has been given, unless
\* that one has let go of it, or has kept it for longer than a claim lasts; and
\* every change that was reported is in the file: unless a process wrote over another.
TbClaimsExclusive ==
    ~tbPast.raced =>
        /\ \A g, h \in tbPast.granted :
              g.t = h.t /\ g.n < h.n => g.ended \/ h.at - g.at > TbStale
        /\ tbBoard.events = tbPast.done

\* Of the children of an agent only so many run, unless one was set to run again.
TbChildrenBounded ==
    ~tbPast.woken => \A a \in TbAgent : Cardinality(RunningChildren(tbTeam, a)) <= TbKids

\* Stores of one process never overwrite each other.
TbOneProcess ==
    (\A q, r \in DOMAIN tbPlan.at : tbPlan.at[q] = tbPlan.at[r]) => ~tbPast.raced

TbSound == TbReadable /\ TbDependenciesDone /\ TbClaimsExclusive /\ TbChildrenBounded /\ TbOneProcess
=============================================================================
