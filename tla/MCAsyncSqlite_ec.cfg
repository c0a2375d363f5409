\* What the callback of a failed call sees, with nothing concurrent.
CONSTANTS
  Calls = {k1, k2}
  Conns = {d1}
  NoCall = NoCall
  NoConn = NoConn
  MaxRows = 1
  Args = 1
  Columns = 1
  PrepareErrors = {"ERROR"}
  StepErrors = {"CONSTRAINT"}
  FirstConn = d1
  Main = main
  MainCalls = 1
  PoolSize = 3
  NoOutcome = NoOutcome
SPECIFICATION SafetySpec
INVARIANTS
  NoErrorMeansSuccess
