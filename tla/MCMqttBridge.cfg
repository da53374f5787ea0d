CONSTANTS
    Topics = {a}
    Resyncers = {r1, r2}
    Admins = {p, q}
    Hooks = {k1, k2}
    MaxLost = 2
    MaxClients = 3
SPECIFICATION Spec
INVARIANTS
    TypeOK
    ConnectedMeansSubscribed
    OneClientOnline
PROPERTIES
    KeptTopicsStaySubscribed
    SettlesSubscribed
