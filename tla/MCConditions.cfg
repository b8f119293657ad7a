\* Texts and days are numbers; 99 is no date and 9 is NaN.  Twenty-one rows are
\* shared between two jobs.
CONSTANTS
  MaxI64 = 1
  NaN = 9
  NoDate = 99
  DateOf <- MCDateOf
  Schema <- MCSchema
  Batch <- MCBatch
  LikePairs <- MCLikePairs
  Exprs <- MCExprs
  Sources <- MCSources
  Literals <- MCNoLiterals
  Threads = 2
  MinRows = 4
SPECIFICATION Spec
INVARIANTS
  TypeOK
  BindingKeepsTruth
  TestIsMatches
PROPERTIES
  ImplementsWhere
