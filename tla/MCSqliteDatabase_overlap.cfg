\* Two calls on the same object at once, as two workers of the pool make them.
\* The program can crash: sqlite3_changes on a pointer that became null.
CONSTANTS
  Calls = {k1, k2, k3}
  Conns = {d1, d2}
  NoCall = NoCall
  NoConn = NoConn
  MaxActive = 2
  MaxRows = 2
  Args = 2
  Columns = 2
  PrepareErrors = {"ERROR", "SCHEMA"}
  StepErrors = {"CONSTRAINT"}
SPECIFICATION Spec
CHECK_DEADLOCK FALSE
INVARIANTS
  ExecuteTrueMeansSuccess
