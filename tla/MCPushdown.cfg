\* A full join has rows without a left or a right side.
CONSTANTS
  Keys <- MCKeys
  Vals <- MCVals
  Labels <- MCLabels
  Null = Null
  MaxInt = 1
  Literal = 1
  Kinds = {"inner", "full"}
  MaxLeft = 3
  MaxRight = 2
SPECIFICATION Spec
INVARIANTS
  TypeOK
PROPERTIES
  ImplementsGroupedJoin
