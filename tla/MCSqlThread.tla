----------------------------- MODULE MCSqlThread -----------------------------
(* Instances of SqlThread for TLC. None is symmetric: they check liveness. *)
EXTENDS SqlThread, TLC
=============================================================================
