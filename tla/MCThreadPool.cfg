\* MaxJobs = 2 is the least number at which a call has another job to wait for
\* while one panics; the jobs of two calls then fill the queue of two workers.
CONSTANTS
  c1 = c1
  c2 = c2
  Workers = {w1, w2}
  Callers <- MCCallers
  MaxJobs = 2
  MaxCalls <- MCMaxCalls
  None = None
SPECIFICATION FairSpec
INVARIANTS
  TypeOK
  EveryJobReportsOnce
  ChannelStaysOpen
PROPERTIES
  ImplementsParallelMap
  CallsEnd
  AbandonedJobsRun
