CONSTANTS
  Docs <- MCDocs
  Literals <- MCLiterals
  Largest = 1
  Big = 30
  Micros = 10
  RowBits = 8
  MaxRows = 4
  JoinRows = 2
SPECIFICATION Spec
INVARIANTS
  TypeOK
  NullableCoversNulls
  FieldsReadBack
PROPERTIES
  ImplementsRowTable
