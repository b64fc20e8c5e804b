\* Bounded clocks, and stores whose writers have all ended, come to a stop.
CONSTANTS
    None = None
    Never = Never
    Cut = Cut
    Tasks <- MCTasks
    Scans <- MCScans
    ScanOf <- MCScanOf
    Ids <- MCIds
    FindingsOf <- MCFindingsOf
    BreachesOf <- MCBreachesOf
    Procs = {"p1", "p2"}
    Keys = {"k"}
    TTL = 1
    MinAge = 2
    CacheTime = 4
    Entries = {"e1", "e2", "e3"}
    Purgers = {"p1", "p2"}
    Retention <- MCRetention
    MaxDay = 3
    Runs = {"r1", "r2", "r3"}
    Files = 2
    CaseTime = 2
    Sessions = {"a", "b"}
    Targets = {"jo", "al"}
    Interval = 1
    WatchTime = 2
    Snapshots <- MCSnapshots
    Channels = {"file"}
    Window = 1
    AlertTime = 2
    ScanFiles = {"s1", "s2"}
    Ttl = 3
    src1 = src1
    src2 = src2
    co1 = co1
    co2 = co2
    th1 = th1
    Sources <- MCSources
    QueryCost = 1
    Allowance = 1
    FlushInterval = 2
    GuardTime = 3
    MaxRestarts = 1
    MaxSetBacks = 1
    Awaiting <- MCAwaiting
    Waiting <- MCWaiting
    Cost = 2
    Burst = 5
    Handlers <- MCHandlers
    TokenCost = 2
    BucketSize = 3
    NoTime = NoTime
    LimitTime = 5
    MaxOverlaps = 2
SPECIFICATION AllSpec
INVARIANTS
    ScansAreKept
    CacheHolds
    TrailHolds
    LatestIsWhole
    ListSurvivesSessions
    ChangesAreSeen
    ExcessBounded
    DebtBounded
    WaitBounded
PROPERTIES
    AlertsHold
    ThrottlesWithReason
    InboundHolds
SYMMETRY Symmetry
CHECK_DEADLOCK FALSE
