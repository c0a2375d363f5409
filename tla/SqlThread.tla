------------------------------ MODULE SqlThread ------------------------------
(***************************************************************************)
(* The thread pool of include/aleph/thread/sql_thread.hpp: post_new_task,  *)
(* the loop of the worker threads and the destructor, at the granularity   *)
(* of the mutexes, the atomics and the condition variable.                 *)
(*                                                                         *)
(* A worker calls M_condition_variable.wait(lock, pred) with               *)
(*    pred = M_tasks.empty() || M_stop                                     *)
(* so it goes PAST the wait while the queue is empty (and loops) and       *)
(* blocks while there is work, until M_stop is set by the destructor.      *)
(*                                                                         *)
(* A region that runs under M_task_mutex_ is one step, except where it     *)
(* touches state that others read without that mutex: the counter that     *)
(* post_new_task increments before it pushes, and the gap between the      *)
(* evaluation of pred, which reads the atomic M_stop, and the blocking.    *)
(***************************************************************************)
EXTENDS Integers, Sequences, FiniteSets, SequencesExt

CONSTANTS
  Workers,      \* the threads of M_worke_threads (create_thread_conut of them)
  Clients,      \* threads of the program that call post_new_task
  Tasks,        \* the tasks that can be posted, each at most once (a bound)
  NoThread,     \* owner of a free mutex
  NoTask        \* an empty std::function

ASSUME ConstantsAssumption ==
  /\ Workers \cap Clients = {}
  /\ NoThread \notin Workers \cup Clients
  /\ NoTask \notin Tasks
  /\ IsFiniteSet(Workers)
  /\ IsFiniteSet(Tasks)

VARIABLES
  M_tasks,                 \* the deque of tasks, front first
  M_thread_running_count,  \* the atomic counter of unfinished tasks
  M_stop,                  \* the atomic stop flag
  M_task_mutex_,           \* owner of the mutex of the deque
  M_running_count_mutex_,  \* owner of the second mutex, of the counter's test
  pc,                      \* where each worker and each client is
  task_func,               \* _task_func: the task a worker has taken
  new_task,                \* new_task: the task a thread is about to push
  dtor,                    \* progress of ~sql_thread
  stage                    \* history: how far the life of each task has come

vars == <<M_tasks, M_thread_running_count, M_stop, M_task_mutex_,
          M_running_count_mutex_, pc, task_func, new_task, dtor, stage>>

Threads == Workers \cup Clients

WorkerPlaces == {"loop", "enter", "wait", "run", "push", "notify",
                 "zero", "empty", "exit"}

TypeOK ==
  /\ M_tasks \in Seq(Tasks)
  /\ M_thread_running_count \in Nat
  /\ M_stop \in BOOLEAN
  /\ M_task_mutex_ \in Threads \cup {NoThread}
  /\ M_running_count_mutex_ \in Workers \cup {NoThread}
  /\ pc \in [Threads -> WorkerPlaces \cup {"idle"}]
  /\ \A c \in Clients : pc[c] \in {"idle", "push", "notify"}
  /\ \A w \in Workers : pc[w] # "idle"
  /\ task_func \in [Workers -> Tasks \cup {NoTask}]
  /\ new_task \in [Threads -> Tasks \cup {NoTask}]
  /\ dtor \in {"alive", "notify", "join", "done"}
  /\ stage \in [Tasks -> {"new", "posting", "queued", "running", "done"}]

(* The constructor: M_stop(false), and every worker started.               *)
Init ==
  /\ M_tasks = <<>>
  /\ M_thread_running_count = 0
  /\ M_stop = FALSE
  /\ M_task_mutex_ = NoThread
  /\ M_running_count_mutex_ = NoThread
  /\ pc = [p \in Threads |-> IF p \in Workers THEN "loop" ELSE "idle"]
  /\ task_func = [w \in Workers |-> NoTask]
  /\ new_task = [p \in Threads |-> NoTask]
  /\ dtor = "alive"
  /\ stage = [t \in Tasks |-> "new"]

-----------------------------------------------------------------------------
(* post_new_task. A client calls it while its owner keeps the pool alive;  *)
(* a task calls it from the worker that runs it, at any time, also while   *)
(* the destructor waits: that is how completion callbacks are delivered.   *)

Home(p) == IF p \in Workers THEN "run" ELSE "idle"

BeginPost(p, t) ==
  /\ pc[p] = Home(p)
  /\ p \in Clients => dtor = "alive"
  /\ stage[t] = "new"
  /\ M_task_mutex_ = NoThread
  /\ M_task_mutex_' = p
  /\ M_thread_running_count' = M_thread_running_count + 1
  /\ new_task' = [new_task EXCEPT ![p] = t]
  /\ stage' = [stage EXCEPT ![t] = "posting"]
  /\ pc' = [pc EXCEPT ![p] = "push"]
  /\ UNCHANGED <<M_tasks, M_stop, M_running_count_mutex_, task_func, dtor>>

(* Mutant of PushTask: new_task is moved from before it is pushed.         *)
PushTaskMovedFrom(p) ==
  /\ pc[p] = "push"
  /\ new_task' = [new_task EXCEPT ![p] = NoTask]
  /\ M_tasks' = Append(M_tasks, new_task'[p])
  /\ stage' = [stage EXCEPT ![new_task[p]] = "queued"]
  /\ M_task_mutex_' = NoThread
  /\ pc' = [pc EXCEPT ![p] = "notify"]
  /\ UNCHANGED <<M_thread_running_count, M_stop, M_running_count_mutex_,
                 task_func, dtor>>

PushTask(p) ==
  /\ pc[p] = "push"
  /\ M_tasks' = Append(M_tasks, new_task[p])
  /\ stage' = [stage EXCEPT ![new_task[p]] = "queued"]
  /\ new_task' = [new_task EXCEPT ![p] = NoTask]
  /\ M_task_mutex_' = NoThread
  /\ pc' = [pc EXCEPT ![p] = "notify"]
  /\ UNCHANGED <<M_thread_running_count, M_stop, M_running_count_mutex_,
                 task_func, dtor>>

Waiting == {w \in Workers : pc[w] = "wait"}

(* notify_one: wakes one of the blocked workers, if there is one.          *)
NotifyOne(p) ==
  /\ pc[p] = "notify"
  /\ \/ /\ Waiting = {}
        /\ pc' = [pc EXCEPT ![p] = Home(p)]
     \/ \E w \in Waiting : pc' = [pc EXCEPT ![p] = Home(p), ![w] = "loop"]
  /\ UNCHANGED <<M_tasks, M_thread_running_count, M_stop, M_task_mutex_,
                 M_running_count_mutex_, task_func, new_task, dtor, stage>>

-----------------------------------------------------------------------------
(* The loop of a worker. A woken worker takes M_task_mutex_ again and      *)
(* evaluates pred like one that enters the loop: both are at "loop".       *)

AtLoop(w) ==
  /\ pc[w] = "loop"
  /\ M_task_mutex_ = NoThread

(* The predicate of the wait: true lets the worker pass. The comment       *)
(* beside it (`Task is empty and thread not stop wait') says the opposite  *)
(* of the first disjunct.                                                  *)
Pred == M_tasks = <<>> \/ M_stop

(* No task and no stop: past the wait, `continue', and around again.       *)
Spin(w) ==
  /\ AtLoop(w)
  /\ Pred
  /\ M_tasks = <<>>
  /\ ~M_stop
  /\ UNCHANGED vars

(* pred is false: the worker will block, and still owns the mutex.         *)
EnterWait(w) ==
  /\ AtLoop(w)
  /\ ~Pred
  /\ M_task_mutex_' = w
  /\ pc' = [pc EXCEPT ![w] = "enter"]
  /\ UNCHANGED <<M_tasks, M_thread_running_count, M_stop,
                 M_running_count_mutex_, task_func, new_task, dtor, stage>>

(* The atomic release-and-block of the condition variable.                 *)
Block(w) ==
  /\ pc[w] = "enter"
  /\ M_task_mutex_' = NoThread
  /\ pc' = [pc EXCEPT ![w] = "wait"]
  /\ UNCHANGED <<M_tasks, M_thread_running_count, M_stop,
                 M_running_count_mutex_, task_func, new_task, dtor, stage>>

(* A blocked worker may also wake up without a notification.               *)
SpuriousWakeup(w) ==
  /\ pc[w] = "wait"
  /\ pc' = [pc EXCEPT ![w] = "loop"]
  /\ UNCHANGED <<M_tasks, M_thread_running_count, M_stop, M_task_mutex_,
                 M_running_count_mutex_, task_func, new_task, dtor, stage>>

(* Mutant of TakeTask: the front is copied and never popped.               *)
TakeTaskNoPop(w) ==
  /\ AtLoop(w)
  /\ Pred
  /\ M_tasks # <<>>
  /\ task_func' = [task_func EXCEPT ![w] = Head(M_tasks)]
  /\ stage' = [stage EXCEPT ![Head(M_tasks)] = "running"]
  /\ pc' = [pc EXCEPT ![w] = "run"]
  /\ UNCHANGED <<M_tasks, M_thread_running_count, M_stop, M_task_mutex_,
                 M_running_count_mutex_, new_task, dtor>>

TakeTask(w) ==
  /\ AtLoop(w)
  /\ Pred
  /\ M_tasks # <<>>
  /\ task_func' = [task_func EXCEPT ![w] = Head(M_tasks)]
  /\ M_tasks' = Tail(M_tasks)
  /\ stage' = [stage EXCEPT ![Head(M_tasks)] = "running"]
  /\ pc' = [pc EXCEPT ![w] = "run"]
  /\ UNCHANGED <<M_thread_running_count, M_stop, M_task_mutex_,
                 M_running_count_mutex_, new_task, dtor>>

(* Mutant of Exit: a stopped worker leaves whatever is still queued.       *)
ExitOnStop(w) ==
  /\ AtLoop(w)
  /\ M_stop
  /\ pc' = [pc EXCEPT ![w] = "exit"]
  /\ UNCHANGED <<M_tasks, M_thread_running_count, M_stop, M_task_mutex_,
                 M_running_count_mutex_, task_func, new_task, dtor, stage>>

Exit(w) ==
  /\ AtLoop(w)
  /\ Pred
  /\ M_tasks = <<>>
  /\ M_stop
  /\ pc' = [pc EXCEPT ![w] = "exit"]
  /\ UNCHANGED <<M_tasks, M_thread_running_count, M_stop, M_task_mutex_,
                 M_running_count_mutex_, task_func, new_task, dtor, stage>>

(* Mutant of CountedDown: off by one, the last task is not counted down.   *)
CountedDownAboveOne ==
  IF M_thread_running_count > 1 THEN M_thread_running_count - 1
                                ELSE M_thread_running_count

CountedDown ==
  IF M_thread_running_count > 0 THEN M_thread_running_count - 1
                                ELSE M_thread_running_count

(* The task has returned: take M_running_count_mutex_ and count it down.   *)
CountDown(w) ==
  /\ pc[w] = "run"
  /\ M_running_count_mutex_ = NoThread
  /\ M_running_count_mutex_' = w
  /\ M_thread_running_count' = CountedDown
  /\ stage' = [stage EXCEPT ![task_func[w]] = "done"]
  /\ pc' = [pc EXCEPT ![w] = "zero"]
  /\ UNCHANGED <<M_tasks, M_stop, M_task_mutex_, task_func, new_task, dtor>>

(* The first operand of `M_thread_running_count == 0 && M_tasks.empty()'.  *)
TestCount(w) ==
  /\ pc[w] = "zero"
  /\ \/ /\ M_thread_running_count = 0
        /\ pc' = [pc EXCEPT ![w] = "empty"]
        /\ UNCHANGED <<M_running_count_mutex_, task_func>>
     \/ /\ M_thread_running_count # 0
        /\ pc' = [pc EXCEPT ![w] = "loop"]
        /\ M_running_count_mutex_' = NoThread
        /\ task_func' = [task_func EXCEPT ![w] = NoTask]
  /\ UNCHANGED <<M_tasks, M_thread_running_count, M_stop, M_task_mutex_,
                 new_task, dtor, stage>>

(* The second operand reads the deque without M_task_mutex_: while another *)
(* thread is inside push_back, the read may yield either answer.           *)
SeenEmpty ==
  IF \E p \in Threads : pc[p] = "push" THEN BOOLEAN ELSE {M_tasks = <<>>}

(* Mutant of TestEmpty: the notify_all is missing.                         *)
TestEmptySilently(w) ==
  /\ pc[w] = "empty"
  /\ pc' = [pc EXCEPT ![w] = "loop"]
  /\ M_running_count_mutex_' = NoThread
  /\ task_func' = [task_func EXCEPT ![w] = NoTask]
  /\ UNCHANGED <<M_tasks, M_thread_running_count, M_stop, M_task_mutex_,
                 new_task, dtor, stage>>

TestEmpty(w) ==
  /\ pc[w] = "empty"
  /\ \E seen_empty \in SeenEmpty :
       pc' = [p \in Threads |->
                IF p = w \/ (seen_empty /\ p \in Waiting) THEN "loop"
                                                          ELSE pc[p]]
  /\ M_running_count_mutex_' = NoThread
  /\ task_func' = [task_func EXCEPT ![w] = NoTask]
  /\ UNCHANGED <<M_tasks, M_thread_running_count, M_stop, M_task_mutex_,
                 new_task, dtor, stage>>

-----------------------------------------------------------------------------
(* ~sql_thread, run by the last owner: no client is inside post_new_task   *)
(* and none posts any more. M_stop is stored without M_task_mutex_.        *)

DtorStop ==
  /\ dtor = "alive"
  /\ \A c \in Clients : pc[c] = "idle"
  /\ M_stop' = TRUE
  /\ dtor' = "notify"
  /\ UNCHANGED <<M_tasks, M_thread_running_count, M_task_mutex_,
                 M_running_count_mutex_, pc, task_func, new_task, stage>>

(* Mutant of DtorNotifyAll: nobody is notified.                            *)
DtorNotifyNobody ==
  /\ dtor = "notify"
  /\ dtor' = "join"
  /\ UNCHANGED <<M_tasks, M_thread_running_count, M_stop, M_task_mutex_,
                 M_running_count_mutex_, pc, task_func, new_task, stage>>

DtorNotifyAll ==
  /\ dtor = "notify"
  /\ pc' = [p \in Threads |-> IF p \in Waiting THEN "loop" ELSE pc[p]]
  /\ dtor' = "join"
  /\ UNCHANGED <<M_tasks, M_thread_running_count, M_stop, M_task_mutex_,
                 M_running_count_mutex_, task_func, new_task, stage>>

(* Mutant of DtorJoin: one worker is joined, not all of them.              *)
DtorJoinOne ==
  /\ dtor = "join"
  /\ \E w \in Workers : pc[w] = "exit"
  /\ dtor' = "done"
  /\ UNCHANGED <<M_tasks, M_thread_running_count, M_stop, M_task_mutex_,
                 M_running_count_mutex_, pc, task_func, new_task, stage>>

(* The loop of joins returns once every worker has left its loop.          *)
DtorJoin ==
  /\ dtor = "join"
  /\ \A w \in Workers : pc[w] = "exit"
  /\ dtor' = "done"
  /\ UNCHANGED <<M_tasks, M_thread_running_count, M_stop, M_task_mutex_,
                 M_running_count_mutex_, pc, task_func, new_task, stage>>

(* The pool is gone; only here may the system stop.                        *)
Destroyed == dtor = "done" /\ UNCHANGED vars

-----------------------------------------------------------------------------
Post(p) == \/ \E t \in Tasks : BeginPost(p, t)
           \/ PushTask(p)
           \/ NotifyOne(p)

Work(w) == \/ Spin(w) \/ EnterWait(w) \/ Block(w)
           \/ TakeTask(w) \/ Exit(w)
           \/ CountDown(w) \/ TestCount(w) \/ TestEmpty(w)

Dtor == DtorStop \/ DtorNotifyAll \/ DtorJoin

Next ==
  \/ \E p \in Threads : Post(p)
  \/ \E w \in Workers : Work(w) \/ SpuriousWakeup(w)
  \/ Dtor
  \/ Destroyed

SafetySpec == Init /\ [][Next]_vars

(* Every thread that can go on does: the operating system schedules them,  *)
(* and a mutex that stays free is acquired. Nobody has to post, to start   *)
(* the destructor or to wake a thread spuriously; tasks return.            *)
Fairness ==
  /\ \A p \in Threads : WF_vars(PushTask(p) \/ NotifyOne(p))
  /\ \A w \in Workers : WF_vars(Work(w))
  /\ WF_vars(DtorNotifyAll \/ DtorJoin)

Spec == SafetySpec /\ Fairness

-----------------------------------------------------------------------------
(* Properties.                                                             *)

Outstanding == {t \in Tasks : stage[t] \in {"posting", "queued", "running"}}

Busy == {w \in Workers : pc[w] \in {"run", "push", "notify"}}

(* M_thread_running_count is exact at every instant, although one mutex    *)
(* guards its increments (post_new_task) and another one its decrements    *)
(* (the worker loop): it is the number of tasks posted and not finished.   *)
CountExact == M_thread_running_count = Cardinality(Outstanding)

(* No task is lost, duplicated or run by two workers, whoever posts and    *)
(* whoever takes: the deque holds each queued task once, and a running     *)
(* task is in the _task_func of exactly one worker that is executing it.   *)
NoTaskLostOrDoubled ==
  /\ IsInjective(M_tasks)
  /\ ToSet(M_tasks) = {t \in Tasks : stage[t] = "queued"}
  /\ \A t \in Tasks : stage[t] = "running" =>
       \E w \in Busy : {v \in Busy : task_func[v] = t} = {w}

(* ~sql_thread stores M_stop without M_task_mutex_, so a worker that read  *)
(* M_stop just before may block after the notify_all. When there is        *)
(* another worker this is harmless: as long as somebody sleeps, some other *)
(* worker is awake that will take a task, or is about to notify everybody  *)
(* because it finished the last one.                                       *)
NoLostWakeup ==
  dtor = "join" /\ Waiting # {} =>
    \E v \in Workers :
      \/ v \in Busy
      \/ pc[v] = "loop" /\ M_tasks # <<>>
      \/ pc[v] = "zero" /\ (M_thread_running_count = 0 \/ M_tasks # <<>>)
      \/ pc[v] = "empty"

(* `Wait all thread task done': when the destructor returns, every task    *)
(* that was ever posted, by a client or by another task, has finished and  *)
(* the counter is back to zero.                                            *)
AllDoneAtJoin ==
  dtor = "done" =>
    /\ M_tasks = <<>>
    /\ \A t \in Tasks : stage[t] \in {"new", "done"}
    /\ M_thread_running_count = 0

(* The destructor returns: no worker stays asleep for ever.                *)
ShutdownTerminates == (dtor = "notify") ~> (dtor = "done")

Running == {t \in Tasks : stage[t] = "running"}
Finished == {t \in Tasks : stage[t] = "done"}
Phase == CASE dtor = "alive" -> "open"
           [] dtor = "done"  -> "closed"
           [] OTHER          -> "closing"

Executor == INSTANCE TaskExecutor WITH
  Size <- Cardinality(Workers),
  backlog <- M_tasks, running <- Running, finished <- Finished, phase <- Phase

(* The pool implements the executor its callers count on.                  *)
ImplementsExecutor == Executor!Spec
=============================================================================
