SPECIFICATION DualSpec
CONSTANTS
    InitialRoles <- BothActive
    InitialSeatbox = {TRUE}
    Monitored = {0, 1}
    Conservative = FALSE
    Frames = {}
    Uids = {"A", "B"}
    Serials = {"A", "B"}
    Sources = {"boot"}
    Packs = {"A", "B"}
    Worlds <- ParallelWorlds
    Cadence = 1
    SettledReads = TRUE
    Vehicles = {"parked"}
    Deltas = {0, 4, 5}
    Reports = {}
    ClockOffsets = {0}
    TimeCmd = 1
    MaxAge = 2
    MaxSkew = 1
    StableTime = 0
    OnSettle = 3
    MaxCurrent = 1
    VoltageSpan = 1
    SamplingSkew = 0
    FrameLimit = 1
    SamplingDeadline = 1
    MotionMaxAge = 0
    StartTime = 4
    MaxNow = 7
    MaxRounds = 1
    MinReadTime = 0
    Events = {}
INVARIANTS
    PowerIsReserved
    NoMismatchedParallel
    SupplyKept
PROPERTIES
    CorrectiveOffConcludes
CHECK_DEADLOCK FALSE
