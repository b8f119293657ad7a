\* With two right rows a span of 3 has slots and a span of 4 does not.
CONSTANTS
  Keys <- MCKeys
  Null = Null
  MaxInt = 1
  MaxLeft = 3
  MaxRight = 2
  Threads = 2
  SegmentRows = 1
  SlotCap = 3
  SlotsPerRow = 1
  SlotAllowance = 1
SPECIFICATION Spec
INVARIANTS
  TypeOK
  LookupIsExact
  FlagsAreExact

  
