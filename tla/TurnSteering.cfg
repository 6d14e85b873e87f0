SPECIFICATION ConcurrentSpec
CONSTANTS
    p1 = p1  q1 = q1  s1 = s1  h1 = h1  p2 = p2  p3 = p3
    tA = tA  tB = tB  tC = tC  k1 = k1  k2 = k2  u = u  v = v
    None = None  NoTask = NoTask  NoThread = NoThread
    Msg = {p1, s1, h1, p2}
    Task = {}
    Thread = {tA}
    User = {u}
    AddrOf <- LiveAddr
    KindOf <- MCKind
    Concurrency = 2
    MaxTurns = 0
    MaxFetchErrors = 0
INVARIANTS QueuedHasWorker SteeringIsKept DrainReachesParked
PROPERTIES ImplementsLaneQueue FetchedAndLoopEnd
