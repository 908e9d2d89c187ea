SPECIFICATION Spec
CONSTANTS
    Vehicles = {"stand-by", "ready-to-drive"}
    Roles = {TRUE, FALSE}
    Events = {"vehicle", "seatbox", "keep", "aux", "dual", "tag", "redis", "startup"}
    MaxChanges = 3
INVARIANTS
    TypeOK
    LatchTracksSensor
    EnabledFollowsPolicy
    InactiveStaysDisabled
    PolicyReachesFSM
CHECK_DEADLOCK FALSE
