SPECIFICATION Spec
CONSTANTS
  Threads = {1, 2}
  Workloads <- McWorkloads
  RequestIds = {r1}
  Timeout <- McTimeout
  MinDeadline = 1
  MaxDeadline = 3
  MaxAttempts = 2
  Backoff = 1
  Threshold = 1
  Recovery = 1
  Probes = 1
  Slots <- McSlots
  MaxConnections = 2
  CacheTtl = 1
  RpcTimeout = 1
  Burst = 1
  Refill = 1
  ClientTtl = 1
  MaxTracked = 2
  DrainTimeout = 1
  Chunks = 1
  LastArrival = 1
INVARIANTS Accounted RetriesHonest ActiveCallIsLive
PROPERTY NoStaleHit
