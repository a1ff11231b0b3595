SPECIFICATION Spec
CONSTANTS
  None = None
  t1 = t1
  t2 = t2
  d1 = d1
  d2 = d2
  r1 = r1
  Threads = {t1, t2}
  Devices = {d1, d2}
  Enrolled = {d1}
  Batch = 1
  MaxKeys = 7
  MaxCalls = 4
  MaxFailedPairingAttempts = 1
  MfaAtStart <- WithAndWithoutMfa
  MaxChallengeAttempts = 1
  TimeSteps = {1, 2}
  RecoveryCodes = {r1}
  MaxSessions = 2
  MaxTokens = 3
  MaxMfaRows = 2
INVARIANTS TablesConsistent OneLiveToken NoLateSuccess SecondFactorIsEarned
PROPERTIES EndedIsFinal
SYMMETRY Symmetric
CHECK_DEADLOCK FALSE
