CONSTANTS
    Ids = {a, b, c}
    Workers = {w1, w2, w3}
    MaxSessions = 2
    PingEvery = 2
    PingTimeout = 3
    PingLatency = 1
    ServerTimeout = 3
    Settings = {0, 2}
    NoId = NoId
SPECIFICATION Spec
SYMMETRY Symmetry
INVARIANTS
    TypeOK
    OneWorkerPerSession
    WorkersCapped
    
    DroppedAfterSilence
