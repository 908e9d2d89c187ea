SPECIFICATION DriveSpec
CONSTANTS
    Scenes <- AllScenes
    MaxFailures = 2
    MaxQueue = 2
INVARIANTS
    DriveTypeOK
    InhibitorReleased
    SomethingPending
    OpenLoopOff
PROPERTIES
    DepartureNeedsQuietSearch
    PowerConverges
    PresenceConverges
    PromptAnswered
    DemandServed
CHECK_DEADLOCK FALSE
