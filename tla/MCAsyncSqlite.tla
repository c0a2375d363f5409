---------------------------- MODULE MCAsyncSqlite ----------------------------
(* Instances of AsyncSqlite for TLC. The one that checks liveness cannot   *)
(* be symmetric, and the other one is small.                               *)
EXTENDS AsyncSqlite
=============================================================================
