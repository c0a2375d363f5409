---------------------------- MODULE MCMysqlDatabase ----------------------------
(* Instances of MysqlDatabase for TLC.                                     *)
EXTENDS MysqlDatabase

Retries == {-1, 0, 2}
=============================================================================
