SPECIFICATION ScopedSpec
CONSTANTS
    d1 = d1
    w1 = w1
    Devices = {d1}
    Candidates = {d1}
    Messages = {1, 2}
    Earlier = {{}, {1}}
    Recipient <- OneDevice
    Workers = {w1}
    Acknowledged = {2}
    Overdue = {2}
    MaxRetryAttempts = 2
    SweepMaxAttempts = 2
    FetchLimit = 2
    LaneCap = 1
    SharedCap = 1
    AttemptBound = 2
    MaxMonth = 1
    MaxDrops = 1
    MaxCrashes = 1
    Scopes <- McScopes
INVARIANTS DeliveredWasReceived DeliveredInBoth AnnouncedIsDurable
PROPERTY Reaches
