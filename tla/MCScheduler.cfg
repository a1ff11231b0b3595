SPECIFICATION FairSpec
CONSTANTS
    d1 = d1
    d2 = d2
    d3 = d3
    a1 = a1
    a2 = a2
    a3 = a3
    b1 = b1
    b2 = b2
    c1 = c1
    e1 = e1
    e2 = e2
    Devices = {d1, d2, d3}
    Tasks = {a1, a2, a3, b1, b2, c1, e1, e2}
    Emergency = {e1, e2}
    DeviceOf <- TaskDevices
    Workers = {1, 2}
    MaxGlobalQueued = 4
    MaxPerDevice = 2
    ReservedSlots = 1
    Quanta = 2
INVARIANTS CountExact RingConsistent BypassBounded NoLostWakeup
PROPERTIES ImplementsLanes TaskLeavesQueue
