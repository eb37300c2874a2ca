CONSTANTS
  s1 = s1
  s2 = s2
  s3 = s3
  j1 = j1
  j2 = j2
  Requests <- MCRequests
  Streams <- MCStreams
  MAX_CONCURRENT_REQUESTS = 2
  MAX_BACKPRESSURE_QUEUE = 2
SPECIFICATION FairSpec
CHECK_DEADLOCK FALSE
INVARIANTS
  AdmissionConserved
  NoIdlePermit
PROPERTIES
  EveryRequestEnds
