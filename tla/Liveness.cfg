SPECIFICATION Spec
CONSTANTS
    Services = {"approval", "goal", "subagents", "scheduled", "recovery"}
    uA = uA  uB = uB  NoDecision = NoDecision
    ApprCall = {1, 3}
    ApprTurn = {1, 2}
    ApprTool = {uA, uB}
    TurnOfCall <- MCTurnOfCall
    ToolOfCall <- MCToolOfCall
    TaskOfTurn <- MCTaskOfTurn
    IdOfCall <- MCIdOfCall
    ToolKinds <- MCToolKinds
    ApprScopes = {"once", "always"}
    ApprTimeout = TRUE
    MaxAnswers = 1
    GoalWorker = {"w1"}
    UserTurns = 2
    GoalHome <- MCGoalHome
    MaxGoalTurns = 4
    MaxContinuations = 1
    VerifierStreak = 2
    GoalBudget = 3
    GoalVerdicts = {"revise", "error"}
    GoalToolStatuses = {"cancelled"}
    GoalTroubles = {"crash"}
    MaxGoalTroubles = 1
    SubExec = {1, 2}
    SubThread = {1}
    ThreadOf <- MCThreadOf
    SubModes = {"external"}
    SubInvalid = {2}
    SubHandler = {1, 2}
    SubSlots = 1
    SubFaults = 1
    SubCrashes = 1
    Sched = {1}
    SchedVersion = {"v1"}
    SchedTask = {1, 2}
    SchedCallback = {"callback"}
    InboxCapacity = 2
    SchedBefore <- MCSchedBefore
    SchedEdits = 0
    SchedTroubles = {"crash"}
    MaxSchedTroubles = 1
    SchedDeliveries = 1
    Response <- OneBatch
    MaxToolIterations = 1
    MaxMessages = 2
    MaxCrashes = 2
    MaxFaults = 0
    LostReplies = FALSE
    UserCancels = FALSE
    MaxStops = 1
    None = None
PROPERTIES RecordSettles ApprSettles QueuedTasksMove SubWaitEnds
CHECK_DEADLOCK FALSE
