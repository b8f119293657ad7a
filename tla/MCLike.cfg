\* Two continuation bytes, so that two characters differ only in their second byte.
CONSTANTS
  Single <- MCSingle
  Lead <- MCLead
  Continuation <- MCContinuation
  AnyRun = "%"
  AnyChar = "_"
  Texts <- MCTexts
  Patterns <- MCPatterns
SPECIFICATION Spec
INVARIANTS
  TypeOK
  OnCharacters
  LastRunSuffices
  AnswersAgree
PROPERTIES
  Ends
