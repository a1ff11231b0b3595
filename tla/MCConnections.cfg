SPECIFICATION LifecycleSpec
CONSTANTS
    u1 = u1
    u2 = u2
    d1 = d1
    d2 = d2
    t1 = t1
    t2 = t2
    None = None
    Users = {u1, u2}
    Devices = {d1, d2}
    Threads = {t1, t2}
    MaxDevicesPerUser = 1
    MaxGlobal = 2
    MaxConnections = 3
INVARIANTS IndexExact PresenceIndexed SessionIsCurrent
SYMMETRY Interchangeable
