CONSTANTS
    MaxState = 1
    MaxRun = 1
    MaxSet = 1
    Admins = {admin1}
SPECIFICATION Spec
INVARIANT
    CorrectAfterReconnect
CHECK_DEADLOCK FALSE
