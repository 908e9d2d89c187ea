SPECIFICATION Spec
CONSTANTS
    Hardware = {5, 6}
    Serials = {"s"}
    CommsSet = 1
    CommsReset = 2
    ReaderSet = 2
    MaxFailures = 3
    MaxTimers = 2
    Scenes <- LatchedScene
INVARIANTS
    LatchNotPresent
CHECK_DEADLOCK FALSE
