CONSTANTS
    hall = hall
    kitchen = kitchen
    attic = attic
    item = item
    NoName = NoName
    UserIds = {1, 2, 3, 4, 5, 6}
    Admin = 1
    Names <- MCNames
    LongNames <- MCLong
    Segments = {1}
    Seed <- MCSeed
    Procs = {p1, p2}
    RobotRoom = hall
    Locations <- MCLocations
    Modes = {"unset", "flat"}
    Items = {item}
    Workloads <- SeedWorkloads
SPECIFICATION Spec
PROPERTY
    SeedFindsRooms
