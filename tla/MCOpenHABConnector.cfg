CONSTANTS
    MaxState = 1
    MaxRun = 3
    MaxSet = 2
    Admins = {admin1}
SPECIFICATION Spec
INVARIANTS
    TypeOK
    OneLiveStream
    StatesArrive
PROPERTIES
    CancelledRunsEnd
CHECK_DEADLOCK FALSE
