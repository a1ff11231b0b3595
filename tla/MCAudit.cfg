SPECIFICATION Spec
CONSTANTS
  w1 = w1
  w2 = w2
  c1 = c1
  c2 = c2
  p1 = p1
  p2 = p2
  q1 = q1
  q2 = q2
  Events <- McEvents
  Malformed <- McMalformed
  Audit = 1
  MaxClock = 1
  MaxFaults = 1
  Calls = {c1, c2}
  Batches <- McBatches
  BatchLimit = 2
  Capacity = 1
  Ttl = 1
  Deployments <- McDeployments
  Envelopes = {p1, p2}
  Validators = {v1}
  Inserters = {w1, w2}
  Aggregator = agg
  QueueCapacity = 1
  BatchCapacity = 1
  BatchSize = 2
  Readers = {q1, q2}
  Requests <- McRequests
  Workers = 1
  DefaultSpan = 2
  MaxSpan = 3
  DefaultPage = 1
  MaxPage = 2
  Skew = 0
  MaxRequests = 2
SYMMETRY Symm
INVARIANTS Deduplicated AckedIsStored PipelineDrains QueriesExact
