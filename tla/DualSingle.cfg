SPECIFICATION DualSpec
CONSTANTS
    InitialRoles <- NoSecond
    InitialSeatbox = {TRUE}
    Monitored = {0}
    Conservative = FALSE
    Frames = {}
    Uids = {"A", "B"}
    Serials = {"A", "B"}
    Sources = {"boot"}
    Packs = {"A", "B"}
    Worlds <- SingleWorlds
    Cadence = 1
    SettledReads = FALSE
    Vehicles = {"parked"}
    Deltas = {0, 4, 5}
    Reports = {}
    ClockOffsets = {0}
    TimeCmd = 1
    MaxAge = 2
    MaxSkew = 1
    StableTime = 0
    OnSettle = 2
    MaxCurrent = 1
    VoltageSpan = 1
    SamplingSkew = 0
    FrameLimit = 1
    SamplingDeadline = 1
    MotionMaxAge = 0
    StartTime = 4
    MaxNow = 6
    MaxRounds = 1
    MinReadTime = 0
    Events = {}
INVARIANTS
    ReservedUnlessMisled
CHECK_DEADLOCK FALSE
