\* Inner joins only: they are what is rewritten.
CONSTANTS
  Keys <- MCKeys
  Vals <- MCVals
  Labels <- MCLabels
  Null = Null
  MaxInt = 1
  Literal = 1
  Kinds = {"inner"}
  MaxLeft = 3
  MaxRight = 2
SPECIFICATION Spec
INVARIANTS
  SameAsJoiningFirst
