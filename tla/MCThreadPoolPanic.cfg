\* Two jobs are enough: one panics while the other has not been executed.
CONSTANTS
  c1 = c1
  c2 = c2
  Workers = {w1, w2}
  Callers <- MCCallers
  MaxJobs = 2
  MaxCalls <- MCMaxCalls
  None = None
SPECIFICATION Spec
INVARIANTS
  PanicAfterOthersFinish
