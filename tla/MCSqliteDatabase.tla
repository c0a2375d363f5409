-------------------------- MODULE MCSqliteDatabase --------------------------
(* Instances of SqliteDatabase for TLC.                                    *)
EXTENDS SqliteDatabase, TLC

Symmetry == Permutations(Calls) \cup Permutations(Conns)
=============================================================================
