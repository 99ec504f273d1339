SPECIFICATION Spec
CONSTANTS
  Fields <- MCFields
  Nullable <- MCNullable
  Indexed <- MCIndexed
  Statements <- MCStatements
  Stores <- MCStores
  Capacity = 3
  Sockets <- MCSockets
INVARIANTS
  AnswerExact
PROPERTIES
  ChangeExact
CHECK_DEADLOCK FALSE
