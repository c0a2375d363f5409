\* Three calls on the same object, with any options.
CONSTANTS
  Handles = {h1, h2, h3}
  Null = Null
  MaxRetries <- Retries
  MaxCalls = 3
SPECIFICATION Spec
INVARIANTS
  TypeOK
  OneHandle
  TlsOfThisCall
  TriedAsOftenAsAsked
PROPERTIES
  ImplementsConnector
