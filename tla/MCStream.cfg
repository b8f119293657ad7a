\* A usize reaches to 4, so that offset + limit overflows.  A filter of three rows
\* in a batch, or two, is shared between two jobs.
CONSTANTS
  SortKeys <- MCSortKeys
  Null = Null
  MaxUsize = 4
  MaxBatches = 3
  MaxRows = 3
  Limits <- MCLimits
  Threads = 2
  MinRows = 2
SPECIFICATION Spec
INVARIANTS
  TypeOK
  ReadsNoMore
PROPERTIES
  ImplementsRowQuery
