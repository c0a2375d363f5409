\* One call.
CONSTANTS
  Handles = {h1}
  Null = Null
  MaxRetries <- Retries
  MaxCalls = 1
SPECIFICATION SafetySpec
INVARIANTS
  TimeoutAlwaysSet
