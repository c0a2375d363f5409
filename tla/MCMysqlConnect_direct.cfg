\* A mysql_connect object that a program uses directly, in any order.
CONSTANTS
  Handles = {h1, h2}
  Null = Null
  MaxRetries <- Retries
  Settings <- TlsSettings
SPECIFICATION Spec
SYMMETRY Symmetry
INVARIANTS
  TypeOK
  AnswerExact
  NoHandleLost
  RetriesNotCutShort
  PausesBackOff
  TimeoutForgottenByFailure
