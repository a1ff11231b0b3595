SPECIFICATION Spec
CONSTANTS
  alice = alice
  bob = bob
  carol = carol
  a1 = a1
  b1 = b1
  b2 = b2
  x1 = x1
  x2 = x2
  x3 = x3
  None = None
  Users = {alice, bob, carol}
  Devices = {a1, b1, b2}
  Owner <- McOwner
  Calls = {x1, x2, x3}
  Workloads <- McWorkloads
  Forever = 9
  MaxClock = 2
  MaxFaults = 1
  MaxConversations = 3
  Enrolled = {a1, b1}
  Ttl = 1
  RpcTimeout = 0
  CacheCapacity = 1
  Admins = {alice}
  Others = {bob}
  MaxMonth = 3
  DefaultBatch = 2
  Sent = 2
  Pools = {"submission", "delivery", "sync"}
  PoolWorkers = 2
  QueueCapacity = 1
  PresenceWindow = 1
  PresenceLimit = 1
  Connected = {alice, bob}
SYMMETRY Symm
INVARIANTS ConversationsInOrder TargetsCurrent NothingLost CompletePage
PROPERTY PresenceGuarded
