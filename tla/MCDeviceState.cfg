CONSTANTS
    Requests = {q1, q2}
    LevelMin = 0
    LevelMax = 1
    Steps <- MCSteps
    Inverted = TRUE
    Readings = {5}
    Statuses = {"ok", "fault", "full"}
    Rules <- MCRules
    MaxActions = 2
    MaxChanges = 2
    MaxDevices = 2
SPECIFICATION Spec
SYMMETRY Symmetry
INVARIANTS
    TypeOK
    StateFollowsDevice
    ErrorFollowsDevice
    AnnouncedIsCurrent
CHECK_DEADLOCK FALSE
