SPECIFICATION Spec
CONSTANTS
    Vehicles = {"stand-by", "ready-to-drive"}
    Roles = {TRUE}
    Events = {"vehicle", "seatbox"}
    MaxChanges = 2
INVARIANTS
    DriveLatchHolds
CHECK_DEADLOCK FALSE
