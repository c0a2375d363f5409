\* An open database and two calls: both by the main thread, or the second one
\* by the callback of the first. Two of their four tasks can run at once.
CONSTANTS
  Calls = {k1, k2}
  Conns = {d1, d2}
  NoCall = NoCall
  NoConn = NoConn
  MaxRows = 1
  Args = 1
  Columns = 1
  PrepareErrors = {"ERROR"}
  StepErrors = {"CONSTRAINT"}
  FirstConn = d1
  Main = main
  MainCalls = 2
  PoolSize = 2
  NoOutcome = NoOutcome
SPECIFICATION Spec
INVARIANTS
  TypeOK
  ObjectOutlivesUse
  NothingLeaked
  ChainIsSerial
  
PROPERTIES
  ImplementsAsyncCalls
