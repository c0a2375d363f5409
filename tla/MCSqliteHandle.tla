---------------------------- MODULE MCSqliteHandle ----------------------------
(* Instances of SqliteHandle for TLC.                                      *)
EXTENDS SqliteHandle, TLC

Symmetry ==
  Permutations(Objects) \cup Permutations(Conns) \cup Permutations(Stmts)
=============================================================================
