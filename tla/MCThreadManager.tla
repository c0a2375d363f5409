--------------------------- MODULE MCThreadManager ---------------------------
(* Instances of ThreadManager for TLC.                                     *)
EXTENDS ThreadManager, TLC
=============================================================================
