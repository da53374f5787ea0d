CONSTANTS
    Segments = {s1, s2}
    Handlers = {h1, h2}
    Timers = {t1, t2}
    MaxGen = 2
    NoTimer = NoTimer
SPECIFICATION Spec
PROPERTY
    RoomOffStopsRobot
