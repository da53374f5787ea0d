\* Two devices at a time, two changes.
SPECIFICATION Spec
CONSTANTS
    Houses <- MCHouses
    TagFilters <- MCTagFilters
    MaxDevices = 2
    MaxChanges = 2
INVARIANTS
    TypeOK
    NoThingTwice
    SlotsGoToSpecific
    
    ControlsReadBack
CHECK_DEADLOCK FALSE
