SPECIFICATION Spec
CONSTANTS
    Services = {"ledger", "approval", "goal", "session", "subagents", "scheduled", "catalog", "lease"}
    bA = bA  bB = bB  m1 = m1  NoModel = NoModel  NoEvent = NoEvent
    LedgerReplica = {r1, r2}
    LedgerTurn = {bA, bB}
    LedgerModel = {m1}
    LedgerPins <- MCPins
    MaxLedgerEvents = 3
    MaxBranches = 1
    LedgerRetries = 2
    MaxDeliveries = 3
    PageLimit = 2
    uA = uA  uB = uB  NoDecision = NoDecision
    ApprCall = {1, 2, 3}
    ApprTurn = {1, 2}
    ApprTool = {uA, uB}
    TurnOfCall <- MCTurnOfCall
    ToolOfCall <- MCToolOfCall
    TaskOfTurn <- MCTaskOfTurn
    IdOfCall <- MCIdOfCall
    ToolKinds <- MCToolKinds
    ApprScopes = {"once", "always"}
    ApprTimeout = TRUE
    MaxAnswers = 2
    GoalWorker = {"w1", "w2"}
    UserTurns = 2
    GoalHome <- MCGoalHome
    MaxGoalTurns = 3
    MaxContinuations = 1
    VerifierStreak = 2
    GoalBudget = 2
    GoalVerdicts = {"revise", "error"}
    GoalToolStatuses = {"cancelled"}
    GoalTroubles = {"fault", "crash"}
    MaxGoalTroubles = 2
    SessPublisher = {"a", "b"}
    SessPlacements <- MCPlacements
    SessClientAt = "r1"
    MaxRetained = 2
    AttachBuffer = 2
    MaxSessEvents = 1
    SubExec = {1, 2}
    SubThread = {1}
    ThreadOf <- MCThreadOf
    SubModes = {"local", "external"}
    SubInvalid = {2}
    SubHandler = {1, 2}
    SubSlots = 2
    SubFaults = 1
    SubCrashes = 2
    Sched = {1, 2}
    SchedVersion = {"v1", "v2"}
    SchedTask = {1}
    SchedCallback = {"callback"}
    InboxCapacity = 1
    SchedBefore <- MCSchedBefore
    SchedEdits = 1
    SchedTroubles = {"fault", "crash"}
    MaxSchedTroubles = 2
    SchedDeliveries = 2
    ra = ra  rb = rb  NoRoute = NoRoute  NoHolder = NoHolder
    CatReg = {1, 2}
    CatRequest <- MCCatRequests
    CatReplica = {k1, k2}
    CatHidden = {{}, {2}}
    CatMaxLease = 3
    CatRetention = 1
    CatSnapshotRetention = 2
    CatAttempts = 2
    CatLimit = 1
    MaxCatTime = 2
    CatBudgets <- MCCatBudgets
    PlHost = {1, 2}
    PlRoute = "p"
    PlLease = 1
    NoRequest = NoRequest
    MaxPlTime = 2
    MaxPlRequests = 3
    PlFaults = 1
INVARIANTS ServicesTypeOK LedgerSound ApprSound  SessSound SubSound SchedSound CatalogSound
CHECK_DEADLOCK FALSE
