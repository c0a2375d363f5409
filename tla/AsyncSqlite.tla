------------------------------ MODULE AsyncSqlite ------------------------------
(***************************************************************************)
(* The asynchronous operations of a sql_database_sqlite3 object:           *)
(* async_open_sqlite_database, async_execute_sqlite_select and             *)
(* async_execute_sqlite. Each posts a task to the pool that runs the       *)
(* synchronous method of the same object and then posts the callback, with *)
(* what it is to be given, as a second task.                               *)
(*                                                                         *)
(* The module composes SqliteDatabase, whose steps are those of the tasks, *)
(* with TaskExecutor, the specification that the pool implements. What it  *)
(* adds is the life of the object, held by shared pointers inside the      *)
(* posted closures, and the content of the callbacks.                      *)
(*                                                                         *)
(* Nothing keeps two tasks from running methods of the same object at the  *)
(* same time, on a connection opened with SQLITE_OPEN_NOMUTEX. What this   *)
(* does is undefined: the model says so and stops (Overlap).               *)
(***************************************************************************)
EXTENDS Naturals, Sequences, FiniteSets, SequencesExt

CONSTANTS
  Calls, Conns, NoCall, NoConn,             \* as in SqliteDatabase
  MaxRows, Args, Columns,                   \* as in SqliteDatabase
  PrepareErrors, StepErrors,                \* as in SqliteDatabase
  FirstConn,  \* what the main thread opened synchronously before, or NoConn
  Main,       \* the main thread of the program
  MainCalls,  \* a bound on the calls that the main thread makes
  PoolSize,   \* the number of threads of the pool
  NoOutcome   \* no error_code packed yet

ASSUME ConstantsAssumption ==
  /\ FirstConn \in Conns \cup {NoConn}
  /\ Main \notin Calls \cup {NoCall}
  /\ NoCall \notin Calls
  /\ IsFiniteSet(Calls)
  /\ MainCalls \in Nat
  /\ PoolSize \in Nat \ {0}

VARIABLES
  M_sqlite_ptr, M_sqlite_stmt, alive,                     \* the object
  conn, stmt, owner, bound, completed, changed,           \* the library
  pc, op, sql, local, result,                             \* its calls
  backlog, running, finished, phase,                      \* the pool
  held,      \* the main thread holds a shared pointer to the object
  by,        \* who made each call: the main thread or the callback of a call
  captured,  \* the calls whose callback captures a shared pointer
  given,     \* the error_code packed with the callback of each call
  undefined  \* two methods of the object have run at the same time

database == <<M_sqlite_ptr, M_sqlite_stmt, alive, conn, stmt, owner, bound,
              completed, changed, pc, op, sql, local, result>>
pool == <<backlog, running, finished, phase>>
vars == <<database, pool, held, by, captured, given, undefined>>

(* The first task of a call, and the second one.                           *)
Work(c) == <<"work", c>>
Callback(c) == <<"callback", c>>
Tasks == {"work", "callback"} \X Calls

Db == INSTANCE SqliteDatabase WITH MaxActive <- 1
Pool == INSTANCE TaskExecutor WITH Size <- PoolSize

ASSUME DatabaseAssumption ==
  /\ NoConn \notin Conns
  /\ MaxRows \in Nat /\ Args \in Nat /\ Columns \in Nat
  /\ PrepareErrors \subseteq Db!SqliteCodes \ {"OK", "ROW", "DONE"}
  /\ StepErrors \subseteq Db!SqliteCodes \ {"OK", "ROW", "DONE"}
  /\ NoOutcome \notin Db!SqlCodes

TypeOK ==
  /\ Db!TypeOK
  /\ Pool!TypeOK
  /\ held \in BOOLEAN
  /\ by \in [Calls -> Calls \cup {Main, NoCall}]
  /\ captured \in SUBSET Calls
  /\ given \in [Calls -> Db!SqlCodes \cup {NoOutcome}]
  /\ undefined \in BOOLEAN

Init ==
  /\ Db!InitWith(FirstConn)
  /\ Pool!Init
  /\ held = TRUE
  /\ by = [c \in Calls |-> NoCall]
  /\ captured = {}
  /\ given = [c \in Calls |-> NoOutcome]
  /\ undefined = FALSE

(* Every step is one of a program whose behaviour is still defined.        *)
Defined == ~undefined /\ UNCHANGED undefined

-----------------------------------------------------------------------------
(* The life of the object.                                                 *)

Pending == ToSet(backlog) \cup running

(* Mutant of Captures: the work task captures `this' and no pointer.       *)
CapturesToken(t) == t[2] \in captured

(* The closures that hold a shared pointer: every work task (self), and    *)
(* the callbacks that were written to capture one.                         *)
Captures(t) == t[1] = "work" \/ t[2] \in captured

(* The step leaves these shared pointers: the last one to go takes the     *)
(* object with it.                                                         *)
Leaves(main_holds, tasks) ==
  IF alive /\ ~main_holds /\ ~\E t \in tasks : Captures(t)
  THEN Db!Destroy
  ELSE UNCHANGED database

(* The main thread's own pointer goes out of scope.                        *)
Release ==
  /\ Defined
  /\ held
  /\ held' = FALSE
  /\ Leaves(FALSE, Pending)
  /\ UNCHANGED <<pool, by, captured, given>>

-----------------------------------------------------------------------------
(* The three operations. A callback starts the next call, if it has the    *)
(* object, once at most (a bound).                                         *)

MayCall(p) ==
  \/ /\ p = Main
     /\ phase = "open"
     /\ held
     /\ Cardinality({d \in Calls : by[d] = Main}) < MainCalls
  \/ /\ Callback(p) \in running
     /\ p \in captured
     /\ \A d \in Calls : by[d] # p

PostWork(p, c) ==
  /\ Defined
  /\ MayCall(p)
  /\ by[c] = NoCall
  /\ by' = [by EXCEPT ![c] = p]
  /\ Pool!Accept(Work(c))
  /\ captured' \in {captured, captured \cup {c}}
  /\ UNCHANGED <<database, held, given>>

(* A worker takes the next task.                                           *)
Start ==
  /\ Defined
  /\ Pool!Start
  /\ UNCHANGED <<database, held, by, captured, given>>

(* The synchronous method, inside the first task ...                       *)
RunWork(c) ==
  /\ Defined
  /\ Work(c) \in running
  /\ Db!Step(c)
  /\ UNCHANGED <<pool, held, by, captured, given>>

(* ... and two of them at the same time, on two workers.                   *)
Overlap(c, d) ==
  /\ ~undefined
  /\ c # d
  /\ {Work(c), Work(d)} \subseteq running
  /\ pc[c] # "returned" /\ pc[d] # "returned"
  /\ undefined' = TRUE
  /\ UNCHANGED <<database, pool, held, by, captured, given>>

(* The error_code made of the outcome; it tests false when it is           *)
(* SQL_SUCCESS.                                                            *)
Ec(c) ==
  IF result[c].status THEN "SQL_SUCCESS"
  ELSE IF op[c] = "open" THEN "SQL_CANTOPEN" ELSE result[c].code

(* Mutant of PostCallback: it is posted before the method has returned.    *)
PostCallbackEarly(c) ==
  /\ Defined
  /\ Work(c) \in running
  /\ pc[c] # "idle"
  /\ given[c] = NoOutcome
  /\ given' = [given EXCEPT ![c] = Ec(c)]
  /\ Pool!Accept(Callback(c))
  /\ UNCHANGED <<database, held, by, captured>>

PostCallback(c) ==
  /\ Defined
  /\ Work(c) \in running
  /\ pc[c] = "returned"
  /\ given[c] = NoOutcome
  /\ given' = [given EXCEPT ![c] = Ec(c)]
  /\ Pool!Accept(Callback(c))
  /\ UNCHANGED <<database, held, by, captured>>

(* Mutant of FinishWork: a failed call returns without its callback.       *)
FinishWorkSilently(c) ==
  /\ Defined
  /\ pc[c] = "returned"
  /\ given[c] # NoOutcome \/ ~result[c].status
  /\ Pool!Finish(Work(c))
  /\ Leaves(held, Pending \ {Work(c)})
  /\ UNCHANGED <<held, by, captured, given>>

(* The closures end, each with the pointers it captured.                   *)
FinishWork(c) ==
  /\ Defined
  /\ pc[c] = "returned"
  /\ given[c] # NoOutcome
  /\ Pool!Finish(Work(c))
  /\ Leaves(held, Pending \ {Work(c)})
  /\ UNCHANGED <<held, by, captured, given>>

(* Mutant of FinishCallback: the closure is kept, with what it captured.   *)
FinishCallbackKept(c) ==
  /\ Defined
  /\ Pool!Finish(Callback(c))
  /\ UNCHANGED <<database, held, by, captured, given>>

FinishCallback(c) ==
  /\ Defined
  /\ Pool!Finish(Callback(c))
  /\ Leaves(held, Pending \ {Callback(c)})
  /\ UNCHANGED <<held, by, captured, given>>

(* The end of the program: what main holds goes first, then the pool.      *)
Close ==
  /\ Defined
  /\ ~held
  /\ Pool!Close
  /\ UNCHANGED <<database, held, by, captured, given>>

Closed ==
  /\ Defined
  /\ Pool!Closed
  /\ UNCHANGED <<database, held, by, captured, given>>

Ended == (phase = "closed" \/ undefined) /\ UNCHANGED vars

-----------------------------------------------------------------------------
Next ==
  \/ Release
  \/ \E p \in Calls \cup {Main}, c \in Calls : PostWork(p, c)
  \/ Start
  \/ \E c \in Calls : \/ RunWork(c) \/ PostCallback(c)
                      \/ FinishWork(c) \/ FinishCallback(c)
  \/ \E c, d \in Calls : Overlap(c, d)
  \/ Close \/ Closed \/ Ended

SafetySpec == Init /\ [][Next]_vars

(* The workers go on with what they run, and with what is queued once the  *)
(* pool is closing: that is what TaskExecutor promises, no more. A method  *)
(* that runs goes on as well, whether or not another one can overlap it.   *)
Fairness ==
  /\ WF_vars(phase = "closing" /\ Start)
  /\ \A c \in Calls :
       /\ WF_vars(RunWork(c) \/ PostCallback(c) \/ FinishWork(c))
       /\ WF_vars(FinishCallback(c))
  /\ WF_vars(Closed)

Spec == SafetySpec /\ Fairness

-----------------------------------------------------------------------------
(* Properties.                                                             *)

(* The object outlives the tasks that work on it and the callbacks that    *)
(* captured it, from their posting to their end, whoever lets go of it     *)
(* first.                                                                  *)
ObjectOutlivesUse ==
  \A c \in Calls :
    /\ Work(c) \in Pending => alive
    /\ Callback(c) \in Pending /\ c \in captured => alive

(* No pointer is left in a cycle or in a forgotten closure: when the pool  *)
(* is gone, so is the object, whichever thread let go of it last.          *)
NothingLeaked == phase = "closed" => ~alive

Chained == Cardinality({c \in Calls : by[c] = Main}) <= 1

(* As long as the main thread has made one call only, and every other one  *)
(* was made by the callback of the one before, two methods of the object   *)
(* never overlap, although the tasks do: the first task of a call may      *)
(* still be ending while its callback and the next call already run.       *)
ChainIsSerial == Chained => ~undefined

(* ... and the results of such calls, on whichever workers they run, are   *)
(* as good as those of synchronous calls, one after the other.             *)
ChainIsExact ==
  Chained => Db!ExecuteStatusExact /\ Db!RowsOwn /\ Db!AffectedRowsOwn

(* The callbacks of the test program take an ec that tests false for       *)
(* success, `if (ec) ... else "Register success"': the call has then been  *)
(* answered with true, and a query has been read to its end.               *)
NoErrorMeansSuccess ==
  \A c \in Calls :
    given[c] = "SQL_SUCCESS" =>
      /\ result[c].status
      /\ op[c] = "select" /\ sql[c] # "empty" => completed[c] >= 1

Accepted == {c \in Calls : by[c] # NoCall}
Answered == {c \in Calls : given[c] # NoOutcome}
Delivered == {c \in Calls : Callback(c) \in finished}

Async == INSTANCE AsyncCalls WITH
           accepted <- Accepted, answered <- Answered, delivered <- Delivered,
           broken <- undefined

(* Exactly one callback for each call, after its outcome is known, and all *)
(* before the end, unless two unanswered calls have run at the same time.  *)
ImplementsAsyncCalls == Async!Spec
=============================================================================
