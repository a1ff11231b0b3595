SPECIFICATION FairSubmission
CONSTANTS
  None = None
  t1 = t1
  t2 = t2
  i1 = i1
  k1 = k1
  k2 = k2
  cA = cA
  f1 = f1
  f2 = f2
  f3 = f3
  d1 = d1
  Threads = {t1, t2}
  Instances = {i1}
  Host <- OneHost
  Keys = {k1, k2}
  Stripes = {1, 2}
  StripeOf <- TwoStripes
  Convs = {cA}
  Devices = {d1}
  Fingerprints = {f1, f2, f3}
  Commands <- AllCommands
  RetryWaitLimit = 1
  MaxMessages = 2
  MaxBucket = 2
  MaxCrashes = 1
INVARIANTS AcceptedIsDurable AnswerIsFinal SequenceUnique
PROPERTIES BindingNeverChanges StripeReleased
