# A model of aleph-sql

aleph-sql is a small C++20 library that puts one interface over SQLite (and,
unfinished, MySQL) and offers every SQLite operation twice: as a blocking method
and as an asynchronous one that runs on a pool of threads and reports to a
callback. This directory holds TLA+ modules translated from its source, TLC
configurations that check them on small instances, and proofs, checked by TLAPS,
that hold for any number of threads, tasks, calls, objects and connections.

Paths below are relative to the repository. `sql_thread.hpp` stands for
`include/aleph/thread/sql_thread.hpp`, `sqlite.hpp` for
`include/aleph/sql/impl/sql_database_sqlite.hpp`, and so on.

## 1. Inventory

| Component | State it keeps | Operations | Interacts with |
|---|---|---|---|
| **Thread pool** `sql_thread.hpp` | deque `M_tasks`, atomic counter `M_thread_running_count`, atomic `M_stop`, two mutexes, one condition variable, the worker threads | constructor (starts the workers), `post_new_task`, the worker loop, destructor (stop, notify, join) | called by every asynchronous operation; runs their tasks, which post further tasks |
| **Pool singleton** `thread_manager.hpp` | atomic flag `M_is_thread_create`, shared pointer `M_sql_thread_ptr` | `get_instance`, `init_thread`, `get_thread`, move operations | creates the pool, hands out a reference to the pointer |
| **SQLite connection** `sqlite.hpp`, `sql_database_sqlite_lib.cc` | `M_sqlite_ptr`, `M_sqlite_stmt` | `open_sqlite_database`, `execute_sqlite_select`, `execute_sqlite`, `M_bind_args_paramter`, destructor, move operations | the SQLite library |
| **Asynchronous SQLite** `sqlite.hpp:204-410` | the closures posted to the pool: a shared pointer to the object, the callback, the arguments | `async_open_sqlite_database`, `async_execute_sqlite_select`, `async_execute_sqlite` | pool singleton, thread pool, SQLite connection; the callback is a second task |
| **Error codes** `sql_error_code.hpp`, `async_error_code.hpp` | none | `M_get_sql_error_code`, `make_error_code`, `message` | every result, and the `ec` of every callback |
| **MySQL connection** `mysql_connect.hpp` | `M_mysql_handler`, `M_connectd`, `M_is_configured`, options, credentials | `options_configure`, plain connect, connect with retries, destructor | the MySQL client library |
| **MySQL database** `sql_database_mysql.hpp` | shared pointer to a connection | `mysql_connect_database` | MySQL connection; its pool (never filled) |
| **MySQL statements** `mysql_execute.hpp` | none | `command_execute` (unfinished, no caller) | the MySQL client library |
| Factories and traits | none | `create_sql`, chosen at compile time | |
| Logger | terminal | coloured lines | |

How they interact. A program calls `init_thread` once; an asynchronous SQLite
operation asks `get_thread` for the pool and posts a task that calls the
synchronous method of the same object, and that task posts the callback as a
second task, so callbacks are posted *from inside a worker*, and from inside
callbacks further operations are started (`test_sqlite3_async_db.cc`). The pool
is destroyed when the static manager is, after `main`: in the test program the
whole chain of operations and callbacks runs while the destructor is joining.

What is hard here:

* the pool: two mutexes for one counter, a wait predicate that says the opposite
  of its comment, a stop flag stored without the mutex of the wait, an unguarded
  read of the deque, tasks posted during the join, pools of one or of no thread;
* the singleton: a check-then-act on an atomic, and a reference that is read
  again after it was checked;
* the connection: one statement pointer that every call overwrites, shared by
  calls that may run on different workers; statements that are never finalized;
  failures that are reported as successes or with the code of a success;
* the asynchronous operations: the order in which results are moved, the life
  of the object, callbacks that outlive what they refer to;
* the move operations: pointers that stay in the source, or are dropped by the
  target;
* MySQL: a connection flag that is never set, an overwritten handle, options that
  are left behind on their way to the library or forgotten by it after a failure, a
  timeout that only one of the two connects sets, one retry more than the maximum, a
  delay that overflows.

What makes each part correct:

* pool: every posted task runs exactly once, in order of posting; the counter is
  exact; the destructor returns, and only when everything has run;
* singleton: one pool, always there for those who initialised it, never
  destroyed under a caller;
* connection: an answer is about the call's own statement, arguments and change;
  `true` means success and `false` comes with the reason; the destructor closes;
* asynchronous operations: exactly one callback per call, after the operation,
  with its outcome; the object lives until then;
* MySQL: growing delays between the retries and no giving up before they are made,
  no lost handle, nothing of the options or the outcome of an earlier call in this
  one, and an answer that is the truth. What the code does not do (see section 3):
  stop at the maximum of retries, and hand on all of the options.

The complete list of hazards, each with its line and the properties that watch
it, is in `PROJECT.json` under `hazards`.

## 2. Modules

| Module | Stands for |
|---|---|
| `TaskExecutor` | abstract specification: what the pool promises to the code that posts to it |
| `SqlThread` | the thread pool; implements `TaskExecutor` |
| `MCSqlThread` | its instances for TLC |
| `SqlThreadProofs` | its theorems |
| `ThreadManager`, `MCThreadManager`, `ThreadManagerProofs` | the pool singleton |
| `SqlErrorCode` | the error codes and the translation of SQLite's result codes |
| `SqliteDatabase`, `MCSqliteDatabase`, `SqliteDatabaseProofs` | the SQLite connection and its synchronous operations, on one object |
| `SqliteHandle`, `MCSqliteHandle`, `SqliteHandleProofs` | what several such objects own: construction, the two moves, destruction |
| `AsyncCalls` | abstract specification: what the asynchronous operations promise to a program |
| `AsyncSqlite`, `MCAsyncSqlite`, `AsyncSqliteProofs` | the asynchronous operations: composes `SqliteDatabase` with `TaskExecutor`, implements `AsyncCalls` |
| `Backoff`, `BackoffProofs` | the pause before a retry, in the `int` arithmetic of the code |
| `MysqlConnect`, `MCMysqlConnect`, `MysqlConnectProofs` | one `mysql_connect` object, used directly in any order, and the pool of connections |
| `Connector` | abstract specification: what `mysql_connect_database` promises to a program |
| `MysqlDatabase`, `MCMysqlDatabase`, `MysqlDatabaseProofs` | the MySQL database: composes the steps of `MysqlConnect`, implements `Connector` |

No module uses a RECURSIVE operator. In each module an operator that is called a
*mutant* in its comment is a plausible bug, placed before the definition it
would replace; no specification uses it. `PROJECT.json` names, for each checked
property, the mutant that breaks it, so no property holds by the shape of the
model.

### SqlThread

The variables carry the names of the members. `pc` says where each thread is:
a worker is at `loop` (about to take `M_task_mutex_` and evaluate the
predicate), `enter` (the predicate was false and it is about to block), `wait`
(blocked), `run` (its task executes), `zero` and `empty` (between the two
operands of the test of line 154) or `exit`; a thread that posts is at `push`
(the counter is up, the task not yet in the deque) or `notify`. A worker that
posts does so from `run`: that is a task which posts another one. `dtor` is the
progress of the destructor and `stage` a history variable.

A region under `M_task_mutex_` is one step, except where others look inside: the
counter goes up before the task is pushed and is read under the other mutex, and
`M_stop` is an atomic that the destructor stores without the mutex, so the
evaluation of the predicate (`EnterWait`) and the blocking (`Block`) are two
steps. `M_tasks.empty()` at line 154 is read without `M_task_mutex_`: while
another thread is inside `push_back` the read may answer either way
(`SeenEmpty`). `notify_one` wakes any one sleeper; sleepers may also wake up
spuriously.

Assumed about the environment: clients post only while somebody keeps the pool
alive, so not after the destructor has begun (workers may, and do); tasks return
and do not throw; the constructor manages to start its threads.

### ThreadManager

`CheckFlag`, `StoreFlag` and `CreatePool` are the three unsynchronised steps of
`init_thread`; `GetThread` is the null check of `get_thread`, and `EnterPost` the
second read of the pointer through the reference it returned. `Early` is the set
of threads that call `init_thread` of their own accord; every other thread waits
for some call to have returned. A singleton `Early` is what the test programs
do; a larger one is a program that initialises from several threads. That
`thread_count` reaches the pool is not modelled: the size of the pool is the
constant `Workers` of `SqlThread`.

### SqliteDatabase

Every call of the SQLite library is a step of its own, because the methods share two
members and read them again before each use: `Bind` is one argument, `ReadColumn` one
column of the row that `SelectRow` has stepped to and `PushRow` adds to the result,
and `ReadChanges` reads the connection after `ExecuteStep` (the null pointer, which
only another call can have put there, crashes it). The library is external; its
handles are named: a connection after one of `Conns`, a statement after the call that
compiled it. That gives results an identity: `result[c].rows` says from which
statement each column of each row came, `affected` which statement the number of
changes is about, `stepped` and `params` what was stepped with whose arguments. `sql`
says what sort of text a call was given, `local` is the method's local variables.
Values of columns and arguments, and messages, are left out; a call has `Args`
arguments and a query `Columns` columns.

Library behaviour that is relied on (and modelled): `sqlite3_prepare_v2` stores
a null statement on error and for an empty text; a failed `sqlite3_open_v2`
leaves a handle that answers `SQLITE_MISUSE`, unless memory is exhausted; a
statement that has been stepped refuses new arguments; `sqlite3_close` refuses
while compiled statements are left.

`MaxActive` is how many calls may be in progress. 1 is the use that the library
allows (callbacks which start the next operation keep to it), and the only one for
which anything is claimed. The connection is opened with `SQLITE_OPEN_NOMUTEX`, so
library calls made at the same time are undefined; with a larger `MaxActive` methods
overlap while their library calls happen to come one after the other. This is one
possible outcome and not the worst, which is enough for a counterexample
(`sqlite_overlap`) and for nothing else.

### AsyncSqlite

A call is two tasks, `Work(c)` and `Callback(c)`. The pool is the abstract
`TaskExecutor` rather than `SqlThread`: it allows every behaviour of the pool
(`ExecutorImplemented`) and more, for instance tasks that run before the pool is
closing, with a fraction of the states. That no more than `PoolSize` tasks run at
once is a promise of `TaskExecutor`, which `SqlThread` keeps because each worker has
one `_task_func`. A worker's steps inside `Work(c)` are the steps of `SqliteDatabase`
for the call `c` (`RunWork`), with `MaxActive` = 1, then `PostCallback`. Nothing in
the code keeps two workers from running methods of the object at once. Whenever they
can, so can `Overlap`, which sets `undefined`; the model ends there and claims nothing
of what such a program does. That two methods are never at work at once is therefore a
property (`ChainIsSerial`, for chains), and what the others say, they say of programs
up to the first overlap.

`held` is the main thread's shared pointer, `Captures` says which closures hold
one: each first task (`self`), and the callbacks that were written to capture it
(`captured`), like those of the test program. The step that takes the last one
away destroys the object (`Leaves`). A closure goes with the step that ends its
task; in the code the worker destroys it a few lines later, at the end of its
iteration and before it can leave the loop.

`given` is the code inside the `error_code` that `PostCallback` packs; the result
that goes with it is `result[c]`, and the texts are left out.

A program is any sequence of calls by the main thread while it holds the object,
at most `MainCalls`, and at most one further call by each callback that captured
it. The pool exists before the first call (see `ThreadManager`), and the main
thread's pointer, a local variable as in the tests and the README, is gone before
the destructor of the pool begins. Callbacks return and do not throw.

### SqliteHandle

The same class as `SqliteDatabase`, with everything left out but who owns what:
several objects, each with its two pointers, and the life of each connection and
statement inside the library. `MoveConstruct` copies both pointers and leaves them
in the source, `MoveAssign` takes them away from the source and forgets what the
target had (`MovesTo`); `Open` and `Compile` are what the other methods do to the
two pointers. The library must not be given what it has taken back: `undefined`
says that it was, and the model stops there. `copied` and `dropped` are history,
for the properties: a move constructor has copied a pointer, and the connections
that a method has let go of, or whose statement it has. A connection of a failed
`sqlite3_open_v2` (which has to be closed all the same) is not told apart from an
open one; an allocation failure stores null.

### Backoff and MysqlConnect

The object owns at most one `MYSQL` structure of the library, out of `Handles`;
`handle` is the library's view of it and `given` the options it was given. A
connect is as many steps as there are calls of `mysql_real_connect`: `First`, then
`RandomDevice` (its constructor may throw, which the code catches) and `Retry`,
each up to the next call, its pause included. `attempt` is the variable of the
loop and `recent` the last three pauses. A null structure crashes the program
(`FirstCrashes`, and `mysql_options` in the connect with retries).

What is assumed of the library: a structure that is connected refuses to be
connected again, and may or may not lose its connection over it; a failure forgets
the options unless the client flags include `CLIENT_REMEMBER_OPTIONS`.

`Pauses(a)` are the two ends of the range from which the pause is drawn, computed
as the code does it, with wrap-around (the overflow is undefined in C++; the
models take what two's complement machines do). The shift count, 31 at most, is
why `MaxRetries` ends there: above it the shift itself is undefined.

`M_is_configured` is read uninitialised and decides about a line of log: it is left
out. An option of the library is a pair of its name and what it was given: the path of
`set_tls_custom_creat` or an empty text, the password of the account where the key of
`set_tls_custom_key` is meant. `held` and `pooled` are the shared pointers of the program and of
`mysql_connect_pool`, which lets go of its own when the program exits (`Exit`).

### MysqlDatabase

`mysql_connect_database` call by call, `at` says how far: `Renew` makes the new
connection object, which ends the old one (`Conn!Closes`), and sets its options
(`Passed`): none of the three flags, or two or all of them, a key bringing a certificate with it. `request` has
what the caller can set, the path and the key included, which `Passed` leaves behind
because the code does; the read and the write timeout are in every request, have no
reader and no field. `Configure`, `Connect` and `ConnectStep` are steps of `MysqlConnect`;
`Return` is the answer. There is no concurrency: the method has no lock and the
object no asynchronous operations, so a program calls it from one thread.

## 3. Runs

Bounds are constants of the configurations; each model can do every one of its
actions in its passing run.

| Run | Instance | Shows |
|---|---|---|
| `pool` | 3 workers, 2 clients, 4 tasks; no symmetry (65,665 states) | `CountExact`, `NoTaskLostOrDoubled`, `NoLostWakeup`, `AllDoneAtJoin`; `ShutdownTerminates`: the destructor returns; `ImplementsExecutor`: the pool implements `TaskExecutor`, its fairness included |
| `pool_one_worker` | 1 worker | *violated*: the destructor of a pool of one may hang |
| `manager_sequenced` | 3 threads, one early, 2 pools (435 states) | `NeverTerminates`, `OnePool`, `PoolOutlivesPost` |
| `manager_race` | 2 threads, both early | *violated*: one is told that the manager is already initialized before there is a pool |
| `sqlite_serial` | 4 calls in sequence, 2 connections, 2 arguments, 2 columns, 2 rows, 3 step errors, 2 compile errors (63,059 states) | `ExecuteStatusExact`, `RowsOwn`, `AffectedRowsOwn`, `OnlyExecuteLeavesReader`, `CodeOnlyOnFailure` |
| `sqlite_overlap` | 3 calls, 2 at a time | *violated*: `true` for a statement that never ran |
| `sqlite_handle` | 3 objects, 3 connections, 3 statements (23,284 states) | `UndefinedOnlyByMoveConstructor`, `NothingShared`: the move assignment is sound, the move constructor is what is not; `OnlyDroppedLeak`: which connections stay open |
| `async` | an open database, 2 calls, in a chain or independent, 2 connections, 2 threads (662,960 states) | `ChainIsSerial`: the methods of a chain never overlap; `ChainIsExact`: its results are as exact as those of `sqlite_serial`; `ObjectOutlivesUse`, `NothingLeaked`; `ImplementsAsyncCalls`: one callback for each call, before the end, fairness included, unless two methods have overlapped |
| `async_ec` | 2 calls | *violated*: an `ec` that tests false after a failure, or after half of the rows |
| `mysql_connect` | 2 structures, -1, 2 and 25 retries, TLS with and without a key (1,585,444 states) | `AnswerExact`, `NoHandleLost`, `RetriesNotCutShort`, `PausesBackOff`, `TimeoutForgottenByFailure` |
| `mysql_database` | 3 calls, 3 structures, -1, 0 and 2 retries, all options (234,114 states) | `OneHandle`; `TlsOfThisCall`: a certificate and a key because of this call and no other; `TriedAsOftenAsAsked`: not fewer attempts than this call asks for; `ImplementsConnector`: every call is answered with the truth, fairness included |
| `mysql_timeout` | 1 call | *violated*: an attempt without the timeout of the options |

Why the bounds are enough. Pool: three workers are one that blocks, one that
works and one that leaves, at the same time; two clients race for the mutex and
a worker posts as a third; with four tasks the deque holds several while others
run and post. The theorems below remove these bounds for safety. Singleton: two
threads make every race of `init_thread`, a third uses the pool meanwhile; two
pools let a second one be created if the code would. Connection: four calls are
an open, two operations whose leftovers can meet, and one that looks at them;
two rows tell a query that was stepped once from one read to its end, two arguments
and two columns one that is half bound or half read from one that is not; two
connections let an object be opened twice. The step errors include one that the
translation knows (`CONSTRAINT`, `BUSY`) and one it does not (`READONLY`).
Asynchronous calls: two calls are four tasks. With two threads the end of the first
task of a call runs beside its callback, or beside the first task of the next call,
which is where a chain could overlap; and two independent calls do. The callbacks
capture the object or not, so it is let go of in every order. The database is open at
the start (`FirstConn`), so that both calls can be statements and each can find what
the other left; two connections let one be opened over another. One row, one argument
and one column suffice here, because the steps of a method were looked at in
`sqlite_serial` and are interleaved with nothing but the ends of tasks.

SQLite handles: with three objects an assignment can drop what another one took,
and what the third has is still there; three connections and statements are one for
each. MySQL: two structures are one that is lost by configuring twice and its
successor; -1 retries leave the loop at once, 2 end it among the pauses that are
exact, and 25 go through all of these and on to those whose computation overflows. Three
calls of `mysql_connect_database` make one that leaves something behind, one that could inherit it and one that looks at what
is left of the second.

`sqlite_serial`, `sqlite_handle` and `mysql_connect` are symmetric in
their calls, objects, connections, statements and structures: no operation orders them
or prefers one, and these runs check invariants only. In all passing runs the deadlock
check is on: a destroyed pool or object, a dead program and one whose behaviour has
become undefined stutter (`Destroyed`, `Ended`), so TLC would report any other place
where nothing can move. It is off in `sqlite_overlap` (sqlite3_changes of a null
pointer) and in `manager_race` (`throw;` in `get_thread`): there the program is dead.

The violated properties are statements of the README, of comments or of tests;
`PROJECT.json` quotes them under `findings`, together with the first four of these
disagreements, which have no violated run; `async_ec` is the run of the fifth. They are
in the models, and the passing properties beside them are
worded so as not to take them for correct:

* the comment beside the wait (sql_thread.hpp:124) says that a worker waits while
  there is no task; line 125 makes it wait while there is one (`Pred`). For this
  reason `TaskExecutor` promises no progress before the pool is closing;
* the loop of the retries (mysql_connect.hpp:145) makes one retry more than
  `mysql_max_retry_count`, `Default max retry` (sql_database_mysql.hpp:40).
  `RetriesNotCutShort` and `TriedAsOftenAsAsked` bound the attempts from below only;
* of the options of `mysql_option` the path, the key and the read and write timeouts
  never reach the library; the key it is given is the password of the account
  (mysql_connect.hpp:104), the path is empty, and a key without a certificate brings
  an (empty) one with it (sql_database_mysql.hpp:80). `TlsOfThisCall` says which of the
  two options are set, not with what;
* `is_connectd` never answers true (mysql_connect.hpp:83), so a second connect on a
  live connection may answer false while connected: the case that `AnswerExact` leaves
  out (`call.was`);
* `execute_sqlite_select` answers true for a query that failed half-way
  (sqlite.hpp:144, README.md:84): the second conjunct of `NoErrorMeansSuccess`, and
  part of the finding of `async_ec`.

Some hazards are permitted by the properties that name them: those say under which
history (`copied`, `dropped`, `reconfigured`, `call.was`, `call.norandom`) a thing may
go wrong, and that nothing else can make it. The destructor that does not close
(`//Close sqlite3 database`, sqlite.hpp:49) is one: drop the disjunct `d \in dropped`
of `OnlyDroppedLeak` to see it. The notes in `PROJECT.json` say which they are.

### Fairness

`Spec` of `SqlThread` has weak fairness for each worker's loop, for each thread
inside `post_new_task`, and for the destructor once it has begun: these are
threads that the operating system schedules, and a `std::mutex` that stays free
is eventually acquired. There is none for starting to post, for starting the
destructor or for a spurious wakeup. Weak fairness of a worker includes that its
task returns. Before the destructor begins a worker may spin through `Spin` for
ever: that is a step that changes nothing, and nothing is claimed of that time.
`TaskExecutor` promises progress only while it is closing, because the code does
not give more. Weak fairness suffices in `pool`; `pool_one_worker` violates
the same property under the same fairness.

`Spec` of `AsyncSqlite` assumes of the pool what `TaskExecutor` promises: queued
tasks are started once it is closing, a running one goes on and ends, and the
closing completes. A query has finitely many rows (`MaxRows`). No call has to be
made, and the main thread need not end. A method that runs goes on whether or not
another one can overlap it; after an overlap nothing is promised.

`Spec` of `MysqlDatabase` has weak fairness for the steps of a call, once begun: it
runs on the thread of its caller, and `mysql_real_connect` comes back some time (it
gives up when the network does, even where the code forgets to set a timeout). No
call has to be made.

The other modules state safety only and assume no fairness.

## 4. Theorems

All are checked by `tlapm` for every value of the constants that satisfies
`ConstantsAssumption` of the module (disjoint kinds of things, null values outside
of the sets, finitely many workers, tasks and calls, error codes that are errors, from -1 to 31
retries) and the hypothesis given.

| Theorem | Hypothesis | States |
|---|---|---|
| *SqlThreadProofs* | | |
| `TypeCorrect` | | `[]TypeOK` |
| `CounterCorrect` | | `[]CountExact` |
| `TasksKept` | | `[]NoTaskLostOrDoubled` |
| `WakeupsKept` | at least two workers | `[]NoLostWakeup` |
| `AllDoneWhenDestroyed` | at least one worker | `[]AllDoneAtJoin` |
| `ExecutorImplemented` | at least one worker | `SafetySpec => Executor!SafetySpec` |
| *ThreadManagerProofs* | | |
| `SequencedIsSafe` | `Early` is one thread | `[]NeverTerminates` |
| `SequencedKeepsPool` | `Early` is one thread | `[]PoolOutlivesPost` |
| `SequencedHasOnePool` | `Early` is one thread | `[]OnePool` |
| `RaceIsBounded` | `Early` is finite | `[]RaceBounded`: no more pools than first callers, and only the current one is alive |
| *SqliteDatabaseProofs* | | |
| `TypeCorrect` | | `[]TypeOK` |
| `SerialStatusIsExact` | one call at a time | `[]ExecuteStatusExact` |
| `SerialRowsAreOwn` | one call at a time | `[]RowsOwn` |
| `SerialAffectedIsOwn` | one call at a time | `[]AffectedRowsOwn` |
| `SerialSelectEndsReading` | one call at a time | `[]OnlyExecuteLeavesReader` |
| `SerialCodeIsNoFalseAlarm` | one call at a time | `[]CodeOnlyOnFailure` |
| *SqliteHandleProofs* | | |
| `TypeCorrect` | | `[]TypeOK` |
| `MoveAssignmentIsSafe` | | `[]UndefinedOnlyByMoveConstructor` |
| `MoveAssignmentSharesNothing` | | `[]NothingShared` |
| `LeaksAreDropped` | | `[]OnlyDroppedLeak` |
| *AsyncSqliteProofs* | | |
| `TypeCorrect` | | `[]TypeOK` |
| `ObjectIsKept` | | `[]ObjectOutlivesUse` |
| `NothingIsLeaked` | | `[]NothingLeaked` |
| `KeepsItsPromise` | | `SafetySpec => Async!SafetySpec` |
| `ChainsDoNotOverlap` | | `[]ChainIsSerial` |
| `ChainsAreExact` | | `[]ChainIsExact` |
| *BackoffProofs* | | |
| `PausesExact` | | up to retry 23: the delay is exact, four times that of two retries before, the pause between half and three halves of it |
| `NoPauseIsExactBeyond` | | the pause of retry 24 may be drawn from a range whose ends are swapped, one of them below zero |
| *MysqlConnectProofs* | | |
| `TypeCorrect` | | `[]TypeOK` |
| `AnswersAreExact` | | `[]AnswerExact` |
| `OnlyConfiguringLoses` | | `[]NoHandleLost` |
| `RetriesAreMade` | | `[]RetriesNotCutShort` |
| `TimeoutLastsToTheFirstFailure` | | `[]TimeoutForgottenByFailure` |
| `RetriesBackOff` | | `[]PausesBackOff` |
| *MysqlDatabaseProofs* | | |
| `TypeCorrect` | | `[]TypeOK` |
| `NoHandleIsLost` | | `[]OneHandle` |
| `TlsIsOfThisCall` | | `[]TlsOfThisCall` |
| `AttemptsAreMade` | | `[]TriedAsOftenAsAsked` |
| `KeepsItsPromise` | | `SafetySpec => Promise!SafetySpec` |

The argument for the pool. None of the properties is inductive alone: the counter
is right only because the tasks being posted are known, those because of who
holds which mutex, and so on. `Inv` joins `TypeOK`, `MutexInv` (a mutex is owned
by the thread at a place it protects), `PhaseInv` (nobody is past the wait
before the stop), `PostingInv`, `QueueInv` and `RunningInv` (where each posted
task is) and `CountExact`; one lemma per conjunct (`TypeStep` ... `CountStep`)
goes through the actions that can disturb it. The counter steps use the
cardinality theorems of the library on the set of outstanding tasks.

For the wakeups `EnterInv` is added: a worker about to block has seen a task,
keeps the mutex, and so that task is still there and no other worker is blocking
at the same time; once the destructor has notified, the others are awake. With a
second worker that is enough (`WakeupStep`), with one it is not, which is what
`pool_one_worker` exhibits. `ExitInv` (the last worker to leave found the deque
empty) gives `AllDoneAtJoin` as soon as there is a worker (a pool of no thread,
which the constructor accepts, is destroyed with its tasks still queued), and together
with `Inv` that each step of the pool is a step of the executor or a stutter
(`ExecutorStep`). The executor's bound on the running tasks comes from `RunningInv`:
each of them has a worker of its own, other than the idle one that is about to take
the next (`RoomForOne`).

For the singleton the invariant says that until a call of `init_thread` has
returned nobody but the early thread has moved, and that afterwards there is
exactly one pool, alive, and no thread can get past the flag again. With several
early threads that is false, and what is left is a bound: a thread gets past the flag
once at most, so the pools that exist and the threads that may still create one are
together no more than the early threads (`RaceInv`).

For the SQLite connection `Inv` of `SqliteDatabaseProofs` says of one call at a time:
at most one is under way (`OneByOne`); a call that has not begun has no trace in the
library (`Unmade`); the call under way is the one `M_sqlite_stmt` points to, with
those of its own arguments that are bound and those of its own columns that are read
(`Underway`); a call that has returned has the answer it should (`Answered`). What the
statements of earlier calls were left in does not enter into it, which is the point:
they are never finalized and need not be. Of calls at the same time nothing is proved,
because the library promises nothing.

For the asynchronous operations the invariant follows each call through its two
tasks: the first one is queued, or running with the method at some place, or
finished with the callback accepted exactly once; and the object is alive as long as
the main thread or a pending closure holds it. That gives `ObjectIsKept`,
`NothingIsLeaked` and that every step is one of `AsyncCalls`. For a chain it adds
that at most one accepted call has not been answered yet (`OneUnanswered`): a
callback can only make the next call after its own was answered. So `Overlap` never has
two calls to take (`ChainsDoNotOverlap`). The steps of the database are those of
`SqliteDatabase` with one call at a time (`DatabaseStep`), by construction, up to an
overlap. The invariant above therefore holds here as it is (`DatabaseInv`), and for
chains, which never get to an overlap, it holds of the whole program (`ChainsAreExact`):
the theorems about synchronous calls are theorems about chains of asynchronous ones.

For the SQLite handles the invariant has two parts that hold each other up. `Held`:
as long as no pointer was copied, what an object holds is its own and has not been
taken back. `Accounted`: a compiled statement keeps its connection open, and somebody
still has it, unless the connection is among the dropped ones; the same for an open
connection. A connection that is closed by its last owner needs both.

For MySQL, `Inv` of `MysqlConnectProofs` adds to the properties where a connect can
be (`Progress`), that the number of calls of `mysql_real_connect` goes with the place
and the variable of the loop (`Counted`), that the timeout is there until something
forgets it (`TimeoutKept`), and that the pauses that are remembered were drawn for the
last attempts (`PausesRecent`), so that `PausesExact` applies to them. `PausesExact`
itself unfolds the recursive function `delay_ms` once for each of its 32 values;
`NoPauseIsExactBeyond` is the same computation for the first one that overflows when it
is tripled (`TripledOverflows`), so the bound of `PausesExact` cannot be raised.
For the refinement `MysqlDatabaseProofs` needs only who owns the structure, what the
connect knows, and what the connection object was told (`Types`, `OneHandle`,
`Stage`, `OptionsPassed`); its types, those of the connection included, come from the invariant of
`MysqlConnectProofs`, which the calls of `mysql_connect_database` keep because each is
made of the operations of one object after another (`TypedStep`). What goes through
both modules, the options on their way into the library and the attempts on their way
into the answer, needs both invariants at once and what links them (`Joint`,
`Linked`): the connect in progress is that of the request (`SameCall`), and what the
library has been told (`Told`) is the flags of the request and, with retries, the
timeout: exactly that at the first attempt and never more (`OptionsTold`). `Told` is
what the code passes on, not what the caller asked for.

Only model-checked: `ShutdownTerminates`, and the fairness that `TaskExecutor`,
`AsyncCalls` and `Connector` add to their safety (liveness and `ENABLED` are out of
the prover's reach). What is violated is not provable: `pool_one_worker`,
`manager_race`, `sqlite_overlap`, `async_ec` and `mysql_timeout` have a counterexample
each. Nor is the upper end of the retries, which is one too many.

## 5. Not modelled

The reasons are in `PROJECT.json`, component by component. In short: the logger, the
traits and the factories have no behaviour to check; the texts of the error category
are constants nothing depends on; the move operations of `thread_manager` act on a
singleton that nothing moves; `command_execute` of MySQL is a stub that nothing
calls; `github/` is a stale copy; `build/` is generated. What library calls do that are made on one connection at the same
time is undefined, and not modelled beyond the fact that they are. Values of columns,
arguments and messages are abstracted away everywhere, the schedule of real time (how long a
pause lasts, when a timeout is over) in `MysqlConnect`.

## 6. Plan

1. (done) `SqlThread` with `TaskExecutor`, its proofs; `ThreadManager`, its
   proofs; `SqliteDatabase` with `SqlErrorCode`.
2. (done) `AsyncSqlite` with `AsyncCalls`, on top of `TaskExecutor` and
   `SqliteDatabase`.
3. (done) `SqliteHandle`: the move operations and the destructor, several objects.
4. (done) `MysqlConnect`, `MysqlDatabase` with `Connector`: configuration, the retry
   loop with its back-off in 32-bit arithmetic, the handle's life.
5. (done) Proofs: the safety part of the refinements, serial use of a
   connection and its transfer to chains of callbacks, moves, retries, pauses and options,
   the race of `init_thread`.
6. What is left to do when the code grows: MySQL statements (`mysql_execute.hpp`) and
   taking connections out of the pool, once they do something.
