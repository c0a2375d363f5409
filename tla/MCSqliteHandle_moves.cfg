\* Three objects, moved and assigned in any way.
CONSTANTS
  Objects = {o1, o2, o3}
  Conns = {d1, d2, d3}
  Stmts = {s1, s2, s3}
  Null = Null
SPECIFICATION Spec
SYMMETRY Symmetry
INVARIANTS
  UndefinedOnlyByMoveConstructor
  NothingShared
  OnlyDroppedLeak
