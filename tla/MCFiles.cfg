SPECIFICATION Spec
SYMMETRY Symm
CONSTANTS
    Threads = {t1, t2}
    Uploads = {u1, u2}
    Chunks = {c1}
    Contents = {a, b}
    MaxVersions = 2
    MaxUploads = 2
    MaxDownloads = 1
    MaxMetadata = 1
    MemoryBudget = 2
    BatchSize = 2
    Workloads <- McWorkloads
INVARIANTS VersionsConsistent EventsExact AnsweredIsStored
CHECK_DEADLOCK FALSE
