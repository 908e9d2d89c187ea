SPECIFICATION Spec
CONSTANTS
    InitialRoles <- AnyRole
    InitialSeatbox = {TRUE}
    Monitored = {0, 1}
    Conservative = FALSE
    Frames = {}
    Uids = {}
    Serials = {"A", "B"}
    Sources = {"boot"}
    Vehicles = {"parked", "ready-to-drive"}
    Deltas = {0, 5}
    Reports <- MotionReports
    ClockOffsets = {0, 1}
    TimeCmd = 1
    MaxAge = 1
    MaxSkew = 1
    StableTime = 0
    OnSettle = 1
    MaxCurrent = 1
    VoltageSpan = 1
    SamplingSkew = 0
    FrameLimit = 1
    SamplingDeadline = 1
    MotionMaxAge = 1
    StartTime = 2
    MaxNow = 4
    MaxRounds = 1
    MinReadTime = 0
    Events = {"reset", "role", "fail"}
INVARIANTS
    TypeOK
    StandstillSound
CHECK_DEADLOCK FALSE
