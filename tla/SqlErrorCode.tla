---------------------------- MODULE SqlErrorCode ----------------------------
(***************************************************************************)
(* The error codes of include/aleph/sql/sql_error_code.hpp, and what       *)
(* M_get_sql_error_code makes of a result code of SQLite.                  *)
(***************************************************************************)

(* The primary result codes of SQLite, without the prefix SQLITE_.         *)
SqliteCodes ==
  {"OK", "ERROR", "INTERNAL", "PERM", "ABORT", "BUSY", "LOCKED", "NOMEM",
   "READONLY", "INTERRUPT", "IOERR", "CORRUPT", "NOTFOUND", "FULL",
   "CANTOPEN", "PROTOCOL", "SCHEMA", "TOOBIG", "CONSTRAINT", "MISMATCH",
   "MISUSE", "AUTH", "RANGE", "NOTADB", "ROW", "DONE"}

SqlCodes ==
  {"SQL_SUCCESS", "SQL_UNIQUE_CONSTRAINT_FAILED", "SQL_SYNTAX_ERROR",
   "SQL_SCHEMA", "SQL_CORRUPT", "SQL_AUTH_ERROR", "SQL_MEMORY_FULL",
   "SQL_BUSY", "SQL_TABLE_LOCKED", "SQL_IO_ERROR", "SQL_MOMEM", "SQL_TOOBIG",
   "SQL_RANGE", "SQL_CANTOPEN", "SQL_NOTADB", "SQL_READ_ONLY",
   "SQL_DATABASE_LOCKED", "SQL_NOTFOUNT", "SQL_MISMATCH"}

Translated ==
  [OK         |-> "SQL_SUCCESS",
   ERROR      |-> "SQL_SYNTAX_ERROR",
   BUSY       |-> "SQL_DATABASE_LOCKED",
   LOCKED     |-> "SQL_TABLE_LOCKED",
   IOERR      |-> "SQL_IO_ERROR",
   CORRUPT    |-> "SQL_CORRUPT",
   NOTFOUND   |-> "SQL_NOTFOUNT",
   MISMATCH   |-> "SQL_MISMATCH",
   CANTOPEN   |-> "SQL_CANTOPEN",
   NOTADB     |-> "SQL_NOTADB",
   RANGE      |-> "SQL_RANGE",
   FULL       |-> "SQL_MEMORY_FULL",
   CONSTRAINT |-> "SQL_UNIQUE_CONSTRAINT_FAILED"]

(* Mutant of M_get_sql_error_code: the code of SQLite is passed through.   *)
RawCode(sqlite3_ret) == sqlite3_ret

(* The default case of the switch answers SQL_SUCCESS.                     *)
M_get_sql_error_code(sqlite3_ret) ==
  IF sqlite3_ret \in DOMAIN Translated THEN Translated[sqlite3_ret]
                                       ELSE "SQL_SUCCESS"
=============================================================================
