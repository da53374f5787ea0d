CONSTANTS
    Users = {anna, boris}
    Editors = {e1, e2}
    Connectors = {mqtt, openhab}
    MaxEdits = 3
    MaxFaults = 1
SPECIFICATION Spec
INVARIANTS
    TypeOK
    SoloReloadRepairs
    PublishedHasOwnEdit
PROPERTY
    YandexCatchesUp
CHECK_DEADLOCK FALSE
