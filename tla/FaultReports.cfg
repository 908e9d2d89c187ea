SPECIFICATION Spec
CONSTANTS
    Hardware = {5, 6}
    Serials = {"s"}
    CommsSet = 1
    CommsReset = 2
    ReaderSet = 2
    MaxFailures = 2
    MaxTimers = 3
    Scenes <- AllScenes
INVARIANTS
    TypeOK
    PendingHasTimer
    FaultSetTracks
    TransientsIgnored
    CommsFaultHeals
    PowerOffHonest
PROPERTIES
    ReaderErrorSurfaces
    CommsFaultEnds
CHECK_DEADLOCK FALSE
