SPECIFICATION DualSpec
CONSTANTS
    InitialRoles <- BothActive
    InitialSeatbox = {TRUE}
    Monitored = {0, 1}
    Conservative = TRUE
    Frames = {}
    Uids = {"A", "B"}
    Serials = {"A", "B"}
    Sources = {"boot"}
    Packs = {"A", "B"}
    Worlds <- SelectedWorlds
    Cadence = 1
    SettledReads = TRUE
    Vehicles = {"parked"}
    Deltas = {0, 4, 5}
    Reports = {}
    ClockOffsets = {0}
    TimeCmd = 1
    MaxAge = 2
    MaxSkew = 1
    StableTime = 0
    OnSettle = 2
    MaxCurrent = 1
    VoltageSpan = 1
    SamplingSkew = 0
    FrameLimit = 1
    SamplingDeadline = 1
    MotionMaxAge = 0
    StartTime = 3
    MaxNow = 6
    MaxRounds = 3
    MinReadTime = 0
    Events = {}
INVARIANTS
    HandoverBreaksBeforeMake
    SomePackAdmitted
CHECK_DEADLOCK FALSE
