--------------------------- MODULE SqliteDatabase ---------------------------
(***************************************************************************)
(* A sql_database_sqlite3 object: open_sqlite_database, the synchronous    *)
(* execute_sqlite_select and execute_sqlite, and the destructor.           *)
(*                                                                         *)
(* The object owns one connection pointer and one statement pointer, which *)
(* every call overwrites and reads again before each use: each call of the *)
(* SQLite library, for each argument and for each column too, is a step of *)
(* its own. The library is external: it does what its documentation says.  *)
(* A statement handle is named after the call that compiled it.            *)
(*                                                                         *)
(* MaxActive = 1 is the use that the library allows: the connection is     *)
(* opened with SQLITE_OPEN_NOMUTEX, so two calls of the library at the     *)
(* same time are undefined. With a larger MaxActive methods overlap while  *)
(* their library calls happen to come one after the other. That is one of  *)
(* the possible outcomes and not the worst: good enough to show what goes  *)
(* wrong, and no ground to say that anything goes right.                   *)
(***************************************************************************)
EXTENDS Naturals, Sequences, FiniteSets, SequencesExt, SqlErrorCode

CONSTANTS
  Calls,          \* the calls of the methods, each made at most once (a bound)
  Conns,          \* the handles sqlite3_open_v2 can return (a bound)
  NoCall,         \* the null statement
  NoConn,         \* the null connection
  MaxActive,      \* how many calls may be in progress at the same time
  MaxRows,        \* a bound on the rows that one call reads
  Args,           \* how many arguments a call has
  Columns,        \* how many columns a query has
  PrepareErrors,  \* the errors that sqlite3_prepare_v2 may return
  StepErrors      \* the errors that sqlite3_step may return

ASSUME ConstantsAssumption ==
  /\ IsFiniteSet(Calls)
  /\ NoCall \notin Calls
  /\ NoConn \notin Conns
  /\ MaxActive \in Nat \ {0}
  /\ MaxRows \in Nat /\ Args \in Nat /\ Columns \in Nat
  /\ PrepareErrors \subseteq SqliteCodes \ {"OK", "ROW", "DONE"}
  /\ StepErrors \subseteq SqliteCodes \ {"OK", "ROW", "DONE"}

VARIABLES
  M_sqlite_ptr,   \* the connection of the object
  M_sqlite_stmt,  \* the statement of the object
  alive,          \* the destructor has not run
  conn,           \* the state of each connection inside the library
  stmt,           \* the state of each statement inside the library
  owner,          \* the connection on which each statement was compiled
  bound,          \* whose arguments each statement has as its parameters
  completed,      \* how often each statement has run to its end
  changed,        \* the last row-changing statement of each connection
  pc,             \* where each call is
  op,             \* which method each call invokes
  sql,            \* what sort of SQL text each call was given
  local,          \* the local variables of each call
  result          \* what each call returns

library == <<conn, stmt, owner, bound, completed, changed>>
vars == <<M_sqlite_ptr, M_sqlite_stmt, alive, library, pc, op, sql, local, result>>

(* What the text given to a call is: a query, a change of rows, any other  *)
(* statement, nothing at all, or something that does not compile.          *)
Texts == {"select", "change", "other", "empty", "wrong"}

(* A value is known by the statement, or the call, that it came from; the  *)
(* text "NULL" comes from none.                                            *)
Origins == Calls \cup {NoCall}
Params == [1..Args -> Origins]

(* A default sqlite3_execute_result: sqlite3_execute_status, _error_code,  *)
(* whether sqlite3_execute_error is non-empty, the rows, the statement     *)
(* sqlite3_affected_row is about, and what was stepped with whose          *)
(* parameters (history).                                                   *)
Results ==
  [status : BOOLEAN, code : SqlCodes, error : BOOLEAN, rows : Seq(Seq(Origins)),
   affected : Origins, stepped : Origins, params : Params]

Unbound == [i \in 1..Args |-> NoCall]

Empty == [status |-> FALSE, code |-> "SQL_SUCCESS", error |-> FALSE,
          rows |-> <<>>, affected |-> NoCall, stepped |-> NoCall,
          params |-> Unbound]

(* How many arguments were bound, column_count, and the row being read.    *)
Locals == [args : 0..Args, columns : {0, Columns}, row : Seq(Origins)]

NoLocals == [args |-> 0, columns |-> 0, row |-> <<>>]

TypeOK ==
  /\ M_sqlite_ptr \in Conns \cup {NoConn}
  /\ M_sqlite_stmt \in Origins
  /\ alive \in BOOLEAN
  /\ conn \in [Conns -> {"unused", "open", "sick", "closed"}]
  /\ stmt \in [Calls -> {"none", "ready", "row", "done", "error", "finalized"}]
  /\ owner \in [Calls -> Conns \cup {NoConn}]
  /\ bound \in [Calls -> Params]
  /\ completed \in [Calls -> Nat]
  /\ changed \in [Conns -> Origins]
  /\ pc \in [Calls -> {"idle", "bind", "loop", "row", "changes", "returned"}]
  /\ op \in [Calls -> {"none", "open", "select", "execute"}]
  /\ sql \in [Calls -> Texts]
  /\ local \in [Calls -> Locals]
  /\ result \in [Calls -> Results]

(* An object without any calls yet, which has the connection d or none.    *)
InitWith(d) ==
  /\ M_sqlite_ptr = d
  /\ M_sqlite_stmt = NoCall
  /\ alive = TRUE
  /\ conn = [e \in Conns |-> IF e = d THEN "open" ELSE "unused"]
  /\ stmt = [c \in Calls |-> "none"]
  /\ owner = [c \in Calls |-> NoConn]
  /\ bound = [c \in Calls |-> Unbound]
  /\ completed = [c \in Calls |-> 0]
  /\ changed = [e \in Conns |-> NoCall]
  /\ pc = [c \in Calls |-> "idle"]
  /\ op = [c \in Calls |-> "none"]
  /\ sql = [c \in Calls |-> "empty"]
  /\ local = [c \in Calls |-> NoLocals]
  /\ result = [c \in Calls |-> Empty]

Init == InitWith(NoConn)

-----------------------------------------------------------------------------
Active == {c \in Calls : pc[c] \notin {"idle", "returned"}}

Begins(c, o) ==
  /\ pc[c] = "idle"
  /\ alive
  /\ Cardinality(Active) < MaxActive
  /\ op' = [op EXCEPT ![c] = o]

Returns(c, r) ==
  /\ pc' = [pc EXCEPT ![c] = "returned"]
  /\ result' = [result EXCEPT ![c] = r]

(* open_sqlite_database. An empty name is refused before the library is    *)
(* called. A failed sqlite3_open_v2 leaves a handle too, unless memory is  *)
(* exhausted. The previous connection is neither closed nor kept.          *)
OpenRefused(c) ==
  /\ Begins(c, "open")
  /\ Returns(c, Empty)
  /\ UNCHANGED <<M_sqlite_ptr, M_sqlite_stmt, alive, library, sql, local>>

Open(c) ==
  /\ Begins(c, "open")
  /\ \E d \in Conns, opened \in BOOLEAN :
       /\ conn[d] = "unused"
       /\ conn' = [conn EXCEPT ![d] = IF opened THEN "open" ELSE "sick"]
       /\ M_sqlite_ptr' = d
       /\ Returns(c, [Empty EXCEPT !.status = opened])
  /\ UNCHANGED <<M_sqlite_stmt, alive, stmt, owner, bound, completed, changed,
                 sql, local>>

OpenOutOfMemory(c) ==
  /\ Begins(c, "open")
  /\ M_sqlite_ptr' = NoConn
  /\ Returns(c, Empty)
  /\ UNCHANGED <<M_sqlite_stmt, alive, library, sql, local>>

-----------------------------------------------------------------------------
(* The first part of execute_sqlite_select and of execute_sqlite is the    *)
(* same but for the error code of a statement that does not compile.       *)

Executes == {"select", "execute"}

NotOpen(c, o) ==
  /\ Begins(c, o)
  /\ M_sqlite_ptr = NoConn
  /\ Returns(c, [Empty EXCEPT !.error = TRUE])
  /\ UNCHANGED <<M_sqlite_ptr, M_sqlite_stmt, alive, library, sql, local>>

(* A handle whose opening failed answers MISUSE. The library stores a null *)
(* statement whenever it returns an error.                                 *)
PrepareFails(c, o) ==
  /\ Begins(c, o)
  /\ M_sqlite_ptr # NoConn
  /\ sql' = [sql EXCEPT ![c] = "wrong"]
  /\ M_sqlite_stmt' = NoCall
  /\ \E ret \in IF conn[M_sqlite_ptr] = "sick" THEN {"MISUSE"} ELSE PrepareErrors :
       Returns(c, [Empty EXCEPT
                     !.error = TRUE,
                     !.code = IF o = "select" THEN M_get_sql_error_code(ret) ELSE @])
  /\ UNCHANGED <<M_sqlite_ptr, alive, library, local>>

(* Mutant of Prepare: a statement that is already there is used again.     *)
PrepareOnce(c, o, text) ==
  /\ Begins(c, o)
  /\ M_sqlite_ptr # NoConn
  /\ conn[M_sqlite_ptr] = "open"
  /\ text # "wrong"
  /\ sql' = [sql EXCEPT ![c] = text]
  /\ IF text # "empty" /\ M_sqlite_stmt = NoCall
     THEN /\ M_sqlite_stmt' = c
          /\ stmt' = [stmt EXCEPT ![c] = "ready"]
          /\ owner' = [owner EXCEPT ![c] = M_sqlite_ptr]
     ELSE UNCHANGED <<M_sqlite_stmt, stmt, owner>>
  /\ pc' = [pc EXCEPT ![c] = "bind"]
  /\ UNCHANGED <<M_sqlite_ptr, alive, conn, bound, completed, changed, local,
                 result>>

(* The statement pointer is overwritten: the one it held stays compiled.   *)
Prepare(c, o, text) ==
  /\ Begins(c, o)
  /\ M_sqlite_ptr # NoConn
  /\ conn[M_sqlite_ptr] = "open"
  /\ text # "wrong"
  /\ sql' = [sql EXCEPT ![c] = text]
  /\ IF text = "empty"
     THEN M_sqlite_stmt' = NoCall /\ UNCHANGED <<stmt, owner>>
     ELSE /\ M_sqlite_stmt' = c
          /\ stmt' = [stmt EXCEPT ![c] = "ready"]
          /\ owner' = [owner EXCEPT ![c] = M_sqlite_ptr]
  /\ pc' = [pc EXCEPT ![c] = "bind"]
  /\ UNCHANGED <<M_sqlite_ptr, alive, conn, bound, completed, changed, local,
                 result>>

(* M_bind_args_paramter for the next argument. The library refuses to bind *)
(* the null statement and one that has been stepped; nobody looks at that. *)
Bind(c) ==
  /\ pc[c] = "bind" /\ local[c].args < Args
  /\ local' = [local EXCEPT ![c].args = @ + 1]
  /\ bound' = [s \in Calls |->
                 IF s = M_sqlite_stmt /\ stmt[s] = "ready"
                 THEN [bound[s] EXCEPT ![local[c].args + 1] = c] ELSE bound[s]]
  /\ UNCHANGED <<M_sqlite_ptr, M_sqlite_stmt, alive, conn, stmt, owner,
                 completed, changed, pc, op, sql, result>>

AllBound(c) == pc[c] = "bind" /\ local[c].args = Args

-----------------------------------------------------------------------------
(* sqlite3_step(s) returning ret. A statement that had ended runs again.   *)

StepReturns(s) ==
  IF s = NoCall THEN {"MISUSE"}
  ELSE {"DONE"} \cup StepErrors \cup (IF sql[s] = "select" THEN {"ROW"} ELSE {})

sqlite3_step(s, ret) ==
  /\ stmt' = [t \in Calls |->
                IF t # s THEN stmt[t]
                ELSE IF ret = "ROW" THEN "row"
                ELSE IF ret = "DONE" THEN "done" ELSE "error"]
  /\ completed' = [t \in Calls |-> IF t = s /\ ret = "DONE" THEN completed[t] + 1
                                                            ELSE completed[t]]
  /\ changed' = [d \in Conns |->
                   IF s # NoCall /\ owner[s] = d /\ ret = "DONE" /\ sql[s] = "change"
                   THEN s ELSE changed[d]]
  /\ UNCHANGED <<conn, owner, bound>>

(* execute_sqlite_select asks how many columns there will be ...           *)
CountColumns(c) ==
  /\ AllBound(c) /\ op[c] = "select"
  /\ pc' = [pc EXCEPT ![c] = "loop"]
  /\ local' = [local EXCEPT ![c].columns =
                 IF M_sqlite_stmt # NoCall /\ sql[M_sqlite_stmt] = "select"
                 THEN Columns ELSE 0]
  /\ UNCHANGED <<M_sqlite_ptr, M_sqlite_stmt, alive, library, op, sql, result>>

(* ... and its loop steps to the next row ...                              *)
SelectRow(c) ==
  /\ pc[c] = "loop"
  /\ "ROW" \in StepReturns(M_sqlite_stmt)
  /\ Len(result[c].rows) < MaxRows
  /\ sqlite3_step(M_sqlite_stmt, "ROW")
  /\ pc' = [pc EXCEPT ![c] = "row"]
  /\ local' = [local EXCEPT ![c].row = <<>>]
  /\ UNCHANGED <<M_sqlite_ptr, M_sqlite_stmt, alive, op, sql, result>>

(* ... of which it reads one column after the other; a statement that is   *)
(* at no row has NULL in all of them ...                                   *)
ReadColumn(c) ==
  /\ pc[c] = "row" /\ Len(local[c].row) < local[c].columns
  /\ local' = [local EXCEPT ![c].row =
                 Append(@, IF M_sqlite_stmt # NoCall /\ stmt[M_sqlite_stmt] = "row"
                           THEN M_sqlite_stmt ELSE NoCall)]
  /\ UNCHANGED <<M_sqlite_ptr, M_sqlite_stmt, alive, library, pc, op, sql, result>>

(* Mutant of PushRow: one row is read and the loop is left.                *)
PushFirstRow(c) ==
  /\ pc[c] = "row" /\ Len(local[c].row) = local[c].columns
  /\ Returns(c, [result[c] EXCEPT !.rows = Append(@, local[c].row),
                                  !.status = TRUE])
  /\ UNCHANGED <<M_sqlite_ptr, M_sqlite_stmt, alive, library, op, sql, local>>

(* ... to add the row to the result ...                                    *)
PushRow(c) ==
  /\ pc[c] = "row" /\ Len(local[c].row) = local[c].columns
  /\ pc' = [pc EXCEPT ![c] = "loop"]
  /\ result' = [result EXCEPT ![c].rows = Append(@, local[c].row)]
  /\ UNCHANGED <<M_sqlite_ptr, M_sqlite_stmt, alive, library, op, sql, local>>

(* Mutant of SelectEnd: an error is noted in the code, not in the status.  *)
SelectEndNotesCode(c) ==
  /\ pc[c] = "loop"
  /\ \E ret \in StepReturns(M_sqlite_stmt) \ {"ROW"} :
       /\ sqlite3_step(M_sqlite_stmt, ret)
       /\ Returns(c, [result[c] EXCEPT !.status = TRUE,
                                       !.code = M_get_sql_error_code(ret)])
  /\ UNCHANGED <<M_sqlite_ptr, M_sqlite_stmt, alive, op, sql, local>>

(* ... and when it ends: the last result code is dropped.                  *)
SelectEnd(c) ==
  /\ pc[c] = "loop"
  /\ \E ret \in StepReturns(M_sqlite_stmt) \ {"ROW"} :
       /\ sqlite3_step(M_sqlite_stmt, ret)
       /\ Returns(c, [result[c] EXCEPT !.status = TRUE])
  /\ UNCHANGED <<M_sqlite_ptr, M_sqlite_stmt, alive, op, sql, local>>

(* Mutant of Succeeds: a row is taken for success as well.                 *)
SucceedsWithRow(ret) == ret \in {"DONE", "ROW"}

(* The comparison that decides about the status of execute_sqlite.         *)
Succeeds(ret) == ret = "DONE"

(* The single step of execute_sqlite.                                      *)
ExecuteStep(c) ==
  /\ AllBound(c) /\ op[c] = "execute"
  /\ \E ret \in StepReturns(M_sqlite_stmt) :
       LET ran == [result[c] EXCEPT !.stepped = M_sqlite_stmt,
                     !.params = IF M_sqlite_stmt = NoCall THEN Unbound
                                ELSE bound[M_sqlite_stmt]]
       IN /\ sqlite3_step(M_sqlite_stmt, ret)
          /\ \/ /\ Succeeds(ret)
                /\ pc' = [pc EXCEPT ![c] = "changes"]
                /\ result' = [result EXCEPT ![c] = [ran EXCEPT !.status = TRUE]]
             \/ /\ ~Succeeds(ret)
                /\ Returns(c, [ran EXCEPT !.code = M_get_sql_error_code(ret),
                                          !.error = TRUE])
  /\ UNCHANGED <<M_sqlite_ptr, M_sqlite_stmt, alive, op, sql, local>>

(* sqlite3_changes, after the step. The null pointer, which only another   *)
(* call can have put there meanwhile, crashes it.                          *)
ReadChanges(c) ==
  /\ pc[c] = "changes"
  /\ M_sqlite_ptr # NoConn
  /\ Returns(c, [result[c] EXCEPT !.affected = changed[M_sqlite_ptr]])
  /\ UNCHANGED <<M_sqlite_ptr, M_sqlite_stmt, alive, library, op, sql, local>>

-----------------------------------------------------------------------------
(* The destructor, when the last shared pointer goes: no call is running.  *)
(* sqlite3_close refuses a connection that still has compiled statements,  *)
(* and leaves it open; its answer is not looked at.                        *)
Compiled(d) ==
  {s \in Calls : owner[s] = d /\ stmt[s] \notin {"none", "finalized"}}

Destroy ==
  /\ alive
  /\ Active = {}
  /\ alive' = FALSE
  /\ stmt' = [s \in Calls |-> IF s = M_sqlite_stmt THEN "finalized" ELSE stmt[s]]
  /\ conn' = [d \in Conns |->
                IF d = M_sqlite_ptr /\ Compiled(d) \subseteq {M_sqlite_stmt}
                THEN "closed" ELSE conn[d]]
  /\ UNCHANGED <<M_sqlite_ptr, M_sqlite_stmt, owner, bound, completed, changed,
                 pc, op, sql, local, result>>

(* The object is gone, and so are the calls that were not made.            *)
Destroyed == ~alive /\ UNCHANGED vars

-----------------------------------------------------------------------------
(* One step of a call of one of the three methods.                         *)
Step(c) ==
  \/ OpenRefused(c) \/ Open(c) \/ OpenOutOfMemory(c)
  \/ \E o \in Executes : NotOpen(c, o) \/ PrepareFails(c, o)
  \/ \E o \in Executes, text \in Texts : Prepare(c, o, text)
  \/ Bind(c) \/ CountColumns(c)
  \/ SelectRow(c) \/ ReadColumn(c) \/ PushRow(c) \/ SelectEnd(c)
  \/ ExecuteStep(c) \/ ReadChanges(c)

Next ==
  \/ \E c \in Calls : Step(c)
  \/ Destroy
  \/ Destroyed

Spec == Init /\ [][Next]_vars

-----------------------------------------------------------------------------
(* Properties.                                                             *)

Returned(o) == {c \in Calls : pc[c] = "returned" /\ op[c] = o}

(* execute_sqlite answers true exactly when its own statement, with its    *)
(* own arguments, has run to its end once, although the statement pointer  *)
(* is shared with all other calls of the object.                           *)
ExecuteStatusExact ==
  \A c \in Returned("execute") :
    result[c].status <=> /\ result[c].stepped = c
                         /\ result[c].params = [i \in 1..Args |-> c]
                         /\ completed[c] = 1

(* The rows that execute_sqlite_select returns are complete and come from  *)
(* its own statement, never from an older one that the object still had.   *)
RowsOwn ==
  \A c \in Returned("select") :
    ToSet(result[c].rows) \subseteq {[i \in 1..Columns |-> c]}

(* sqlite3_affected_row of a successful change counts the rows of that     *)
(* change, and not those of an earlier one on the same connection.         *)
AffectedRowsOwn ==
  \A c \in Returned("execute") :
    result[c].status /\ sql[c] = "change" => result[c].affected = c

(* Between two calls a statement is in the middle of its rows, and so      *)
(* holds a read lock on the database, only if execute_sqlite was given a   *)
(* query; execute_sqlite_select never leaves one behind.                   *)
OnlyExecuteLeavesReader ==
  Active = {} => \A s \in Calls : stmt[s] = "row" => op[s] = "execute"

(* No false alarm: an error code other than SQL_SUCCESS is returned only   *)
(* by a call that failed and says why.                                     *)
CodeOnlyOnFailure ==
  \A c \in Calls : pc[c] = "returned" /\ result[c].code # "SQL_SUCCESS" =>
    ~result[c].status /\ result[c].error

(* What the README says of the result: `true' means success.               *)
ExecuteTrueMeansSuccess ==
  \A c \in Returned("execute") : result[c].status => completed[c] >= 1
=============================================================================
