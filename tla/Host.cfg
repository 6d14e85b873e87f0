SPECIFICATION Spec
CONSTANTS
    Parts = {"model", "tools", "transport", "provider", "refinement", "child", "prompt", "stores", "terminal", "editor", "board", "mcp", "views", "files", "web"}
    NoName = NoName
    MdlModel <- MCMdlModels
    MdlVision = {"m2"}
    MdlEffect <- MCMdlEffects
    MdlDefault = "m1"
    MdlTurn <- MCMdlTurns
    MdlReply <- MCMdlReplies
    MdlFailure = {"server", "context_overflow", "unknown"}
    MaxTransient = 1
    MaxModelAttempts = 3
    MdlCallBudget = 3
    MdlPublishFaults = 1
    RtCall = {1, 2}
    RtSites <- MCRtSites
    RtId <- MCRtId
    NoRtAnswer = NoRtAnswer
    RtRuns = 2
    RtFaults = 1
    ChSend = {1, 2, 3}
    ChWindow = {"w1", "w2"}
    ChWindowOf <- MCChWindowOf
    ChThreadOf <- MCChThreadOf
    ChSorts <- MCChSorts
    NoWindow = NoWindow  NoSend = NoSend
    ChInbox = 1
    ChBuffer = 1
    ChParts = 1
    NoText = NoText  NoId = NoId
    PsHistories <- MCPsHistories
    PsChunks <- MCPsChunks
    PsLines = 3
    PsStatus = {400, 413, 429, 500}
    RfKey = {"a", "b"}
    RfAtFirst <- MCRfAtFirst
    RfPlans <- MCRfPlans
    RfCall = {1, 2}
    RfProposals = 2
    RfBudgets <- MCRfBudgets
    RfUserEdits = 1
    RfFaults = 1
    maxLocalRefinementOperations = 2
    retainedLocalRefinementOperations = 1
    NoRevision = NoRevision
    RfFilters <- MCRfFilters
    RfLimit = 1
    maxFileQueryScanRecords = 2
    CsExec = {1, 2}
    CsPlans <- MCCsPlans
    CsCalls = 1
    CsEdits = 1
    CsFaults = 1
    Unbound = Unbound
    PcPlans <- MCPcPlans
    PcSkills <- MCPcSkills
    PcPrereqs <- MCPcPrereqs
    PcBody <- MCPcBody
    PcTodo = "todo"  PcChild = "child"
    PcTTL = 1
    PcStale = 0
    PcRealizeCap = 2
    PcKeepRecent = 2
    PcEvictAbove = 2
    PcPreview = 1
    PcOverflowRetries = 2
    PcTurns = 3
    PcMessages = 7
    PcFaults = 1
    NoFile = NoFile
    StPlans <- MCStPlans
    StProc = {"p1", "p2"}
    StTask = {1, 2}
    StLogical = "w"  StBackend = "b"
    StWindow = 9
    NoThread = NoThread  NotSeen = NotSeen
    TuPlans <- MCTuPlans
    TuThread = {"a1", "a2", "b1"}
    TuHome <- MCTuHome
    TuTasks = 3
    NoTurn = NoTurn  NoPlace = NoPlace
    EcPlans <- MCEcPlans
    EcSession = {"s1", "s2"}
    EcNotice = 9
    NoEcPrompt = NoEcPrompt  NoEcReply = NoEcReply
    TbPlans <- MCTbPlans
    TbTask = {1, 2}
    TbAgent = {"x", "y", "z"}
    TbStale = 1
    TbKids = 1
    MaxTbTime = 2
    NoTask = NoTask  NoAgent = NoAgent  NoOp = NoOp
    MsPlans <- MCMsPlans
    MsTurn = {"t1", "t2"}
    NoOne = NoOne  NoMsReply = NoMsReply
    WvPlans <- MCWvPlans
    WvRoot = {"a", "a2", "p", "p/n"}
    WvInside <- MCWvInside
    WvRootOf <- MCWvRootOf
    WvRepo <- MCWvRepo
    WvBase <- MCWvBase
    WvInitial = "a"
    WvHost = {"h1", "h2"}
    WvCaller = {1, 2}
    NoRepo = NoRepo  NoView = NoView  NoWs = NoWs  NoCaller = NoCaller  NoBinding = NoBinding
    WfPath <- MCWfPath
    WfAtFirst <- MCWfAtFirst
    WfCall = {1, 2}
    WfPlans <- MCWfPlans
    WfLimit = 3
    WfArchiveLimit = 5
    WfBytes = 9
    NoFileYet = NoFileYet  NotRead = NotRead  NobodyYet = NobodyYet
    MaxRetained = 2
    WsPlans <- MCWsPlans
    WsTurn = {1, 2}
    WsBuffer = 1
    WsInbox = 1
    NoLog = NoLog
INVARIANTS HostTypeOK    RefinementSound    
CHECK_DEADLOCK FALSE
