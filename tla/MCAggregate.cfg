\* A span of 4 is affordable with three rows (keys 1 and 4), one of 5 is not (keys
\* 0 and 4).  Two segments make two jobs of one row, three make jobs of two rows
\* and one.  With SortShare = 2 a lone group is sorted and two are not.
CONSTANTS
  Keys <- MCKeys
  Vals <- MCVals
  Null = Null
  MaxInt = 1
  MaxRows = 3
  Literal = 1
  Threads = 2
  SegmentRows = 1
  MinRows = 2
  SlotCap = 4
  SlotsPerRow = 1
  SlotAllowance = 1
  SortShare = 2
SPECIFICATION Spec
INVARIANTS
  TypeOK
  KeysHaveSlots
  PartialsAreOnePass
PROPERTIES
  ImplementsGroupBy
