\* One call after the other on the same object.
CONSTANTS
  Calls = {k1, k2, k3, k4}
  Conns = {d1, d2}
  NoCall = NoCall
  NoConn = NoConn
  MaxActive = 1
  MaxRows = 2
  Args = 2
  Columns = 2
  PrepareErrors = {"ERROR", "SCHEMA"}
  StepErrors = {"CONSTRAINT", "BUSY", "READONLY"}
SPECIFICATION Spec
SYMMETRY Symmetry
INVARIANTS
  TypeOK
  ExecuteStatusExact
  RowsOwn
  AffectedRowsOwn
  OnlyExecuteLeavesReader
  CodeOnlyOnFailure
