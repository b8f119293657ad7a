CONSTANTS
  Catalog <- MCCatalog
  Asked <- MCAsked
SPECIFICATION Spec
INVARIANTS
  TypeOK
  NamesApart
PROPERTIES
  ImplementsNamedQuery
