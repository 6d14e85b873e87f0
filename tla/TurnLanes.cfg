SPECIFICATION ModesSpec
CONSTANTS
    p1 = p1  q1 = q1  s1 = s1  h1 = h1  p2 = p2  p3 = p3
    tA = tA  tB = tB  tC = tC  k1 = k1  k2 = k2  u = u  v = v
    None = None  NoTask = NoTask  NoThread = NoThread
    Msg = {p1, q1, s1, h1, p2, p3}
    Task = {k1, k2}
    Thread = {tA, tB, tC}
    User = {u, v}
    AddrOf <- LanesAddr
    KindOf <- MCKind
    Concurrency = 2
    MaxTurns = 3
    MaxFetchErrors = 0
INVARIANTS TypeOK PermitsAreRunners LoopsLeaveNothing LaneSerial 
