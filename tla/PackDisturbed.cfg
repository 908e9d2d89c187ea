SPECIFICATION Spec
CONSTANTS
    InitialRoles <- NoSecond
    InitialSeatbox = {TRUE}
    Monitored = {0}
    Conservative = FALSE
    Frames <- TwoPacks
    Uids = {"A", "B"}
    Serials = {"A", "B"}
    Sources = {"boot"}
    Vehicles = {"parked"}
    Deltas = {5}
    Reports = {}
    ClockOffsets = {0}
    TimeCmd = 1
    MaxAge = 1
    MaxSkew = 1
    StableTime = 0
    OnSettle = 1
    MaxCurrent = 1
    VoltageSpan = 1
    SamplingSkew = 0
    FrameLimit = 1
    SamplingDeadline = 1
    MotionMaxAge = 0
    StartTime = 2
    MaxNow = 3
    MaxRounds = 1
    MinReadTime = 0
    Events = {"absent", "fail", "off", "stop", "seatbox"}
INVARIANTS
    AbsenceNeverHidesPower
    CommandsReserved
PROPERTIES
    ReleaseNeedsEvidence
    ImplementsBus
CHECK_DEADLOCK FALSE
