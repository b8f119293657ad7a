\* Comparisons that are given to the filter directly, with a literal of any type.
CONSTANTS
  MaxI64 = 1
  NaN = 9
  NoDate = 99
  DateOf <- MCDateOf
  Schema <- MCSchema
  Batch <- MCBatch
  LikePairs <- MCLikePairs
  Exprs <- MCNoExprs
  Sources <- MCFilterSource
  Literals <- MCLiterals
  Threads = 2
  MinRows = 4
SPECIFICATION Spec
INVARIANTS
  TestIsMatches
