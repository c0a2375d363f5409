--------------------------- MODULE SqlThreadProofs ---------------------------
(***************************************************************************)
(* Proofs about SqlThread, for any number of workers, clients and tasks.   *)
(***************************************************************************)
EXTENDS SqlThread, FiniteSetTheorems, TLAPS

(* The owner of a mutex is the thread at a place the mutex protects.       *)
MutexInv ==
  /\ \A p \in Threads : M_task_mutex_ = p <=> pc[p] \in {"push", "enter"}
  /\ \A w \in Workers :
       M_running_count_mutex_ = w <=> pc[w] \in {"zero", "empty"}

(* Workers do not get past the wait with a task before M_stop is set, and  *)
(* clients are done with post_new_task when it is.                         *)
PhaseInv ==
  /\ M_stop <=> dtor # "alive"
  /\ ~M_stop => \A w \in Workers : pc[w] \in {"loop", "enter", "wait"}
  /\ ~M_stop => \A t \in Tasks : stage[t] \notin {"running", "done"}
  /\ M_stop => \A c \in Clients : pc[c] = "idle"
  /\ dtor = "done" => \A w \in Workers : pc[w] = "exit"

(* The tasks being posted are those that some thread is about to push.     *)
PostingInv ==
  /\ \A p \in Threads : pc[p] = "push" =>
       new_task[p] \in Tasks /\ stage[new_task[p]] = "posting"
  /\ \A t \in Tasks : stage[t] = "posting" =>
       \E p \in Threads : pc[p] = "push" /\ new_task[p] = t

(* The deque holds each queued task once, and nothing else.                *)
QueueInv ==
  /\ \A i \in 1 .. Len(M_tasks) : stage[M_tasks[i]] = "queued"
  /\ \A i, j \in 1 .. Len(M_tasks) : M_tasks[i] = M_tasks[j] => i = j
  /\ \A t \in Tasks : stage[t] = "queued" =>
       \E i \in 1 .. Len(M_tasks) : M_tasks[i] = t

(* A busy worker runs one task, which nobody else runs.                    *)
RunningInv ==
  /\ \A w \in Busy : task_func[w] \in Tasks /\ stage[task_func[w]] = "running"
  /\ \A v, w \in Busy : task_func[v] = task_func[w] => v = w
  /\ \A t \in Tasks : stage[t] = "running" =>
       \E w \in Busy : task_func[w] = t

(* A worker that is about to block has seen work and no stop. It keeps the *)
(* mutex, so the others cannot take that work, nor block after it.         *)
EnterInv ==
  \A w \in Workers : pc[w] = "enter" =>
    /\ M_tasks # <<>>
    /\ \A v \in Workers \ {w} :
         /\ pc[v] \in {"loop", "wait"}
         /\ dtor \in {"join", "done"} => pc[v] = "loop"

(* The last worker to leave has found the queue empty, and nobody is left  *)
(* to fill it.                                                             *)
ExitInv ==
  Workers # {} /\ (\A w \in Workers : pc[w] = "exit") => M_tasks = <<>>

Inv ==
  /\ TypeOK
  /\ MutexInv
  /\ PhaseInv
  /\ PostingInv
  /\ QueueInv
  /\ RunningInv
  /\ CountExact

-----------------------------------------------------------------------------
(* The steps of the pool, one disjunct per action.                         *)
LEMMA NextCases ==
  ASSUME [Next]_vars
  PROVE  \/ \E p \in Threads, t \in Tasks : BeginPost(p, t)
         \/ \E p \in Threads : PushTask(p) \/ NotifyOne(p)
         \/ \E w \in Workers : \/ EnterWait(w) \/ Block(w) \/ SpuriousWakeup(w)
                               \/ TakeTask(w) \/ Exit(w) \/ CountDown(w)
                               \/ TestCount(w) \/ TestEmpty(w)
         \/ DtorStop \/ DtorNotifyAll \/ DtorJoin
         \/ UNCHANGED vars
BY DEF Next, Post, Work, Dtor, Spin, Destroyed

(* The task that TakeTask pops is a queued one.                            *)
LEMMA HeadQueued ==
  ASSUME TypeOK, QueueInv, M_tasks # <<>>
  PROVE  /\ 1 \in 1 .. Len(M_tasks)
         /\ Head(M_tasks) = M_tasks[1]
         /\ Head(M_tasks) \in Tasks
         /\ stage[Head(M_tasks)] = "queued"
<1>1. 1 \in 1 .. Len(M_tasks) /\ Head(M_tasks) = M_tasks[1]
  BY DEF TypeOK
<1> QED
  BY <1>1 DEF TypeOK, QueueInv


(* Initially the pool is idle.                                             *)
LEMMA InitInv == Init => Inv /\ EnterInv /\ ExitInv
<1> SUFFICES ASSUME Init PROVE Inv /\ EnterInv /\ ExitInv
  OBVIOUS
<1> USE ConstantsAssumption DEF ConstantsAssumption, Init, Threads, WorkerPlaces
<1>1. pc \in [Threads -> WorkerPlaces \cup {"idle"}]
  OBVIOUS
<1>2. \A c \in Clients : pc[c] = "idle"
  OBVIOUS
<1>3. \A w \in Workers : pc[w] = "loop"
  OBVIOUS
<1>4. TypeOK
  <2>1. M_tasks \in Seq(Tasks)
    OBVIOUS
  <2> QED
    BY <1>1, <1>2, <1>3, <2>1 DEF TypeOK
<1>5. MutexInv /\ PhaseInv /\ PostingInv /\ QueueInv
  BY <1>2, <1>3 DEF MutexInv, PhaseInv, PostingInv, QueueInv
<1>6. RunningInv /\ EnterInv /\ ExitInv
  BY <1>3 DEF RunningInv, Busy, EnterInv, ExitInv
<1>7. CountExact
  <2>1. Outstanding = {}
    BY DEF Outstanding
  <2> QED
    BY <2>1, FS_EmptySet DEF CountExact
<1> QED
  BY <1>4, <1>5, <1>6, <1>7 DEF Inv

(* Every variable keeps its type.                                          *)
LEMMA TypeStep ==
  ASSUME TypeOK, PostingInv, [Next]_vars
  PROVE  TypeOK'
<1> USE ConstantsAssumption
        DEF ConstantsAssumption, TypeOK, Threads, WorkerPlaces
<1>1. ASSUME NEW p \in Threads, NEW t \in Tasks, BeginPost(p, t) PROVE TypeOK'
  BY <1>1 DEF BeginPost, Home
<1>2. ASSUME NEW p \in Threads, PushTask(p) PROVE TypeOK'
  BY <1>2 DEF PushTask, PostingInv
<1>3. ASSUME NEW p \in Threads, NotifyOne(p) PROVE TypeOK'
  BY <1>3 DEF NotifyOne, Waiting, Home
<1>4. ASSUME NEW w \in Workers, EnterWait(w) PROVE TypeOK'
  BY <1>4 DEF EnterWait, AtLoop, Pred
<1>5. ASSUME NEW w \in Workers, Block(w) PROVE TypeOK'
  BY <1>5 DEF Block
<1>6. ASSUME NEW w \in Workers, SpuriousWakeup(w) PROVE TypeOK'
  BY <1>6 DEF SpuriousWakeup
<1>7. ASSUME NEW w \in Workers, TakeTask(w) PROVE TypeOK'
  BY <1>7 DEF TakeTask, AtLoop, Pred
<1>8. ASSUME NEW w \in Workers, Exit(w) PROVE TypeOK'
  BY <1>8 DEF Exit, AtLoop, Pred
<1>9. ASSUME NEW w \in Workers, CountDown(w) PROVE TypeOK'
  <2>1. M_thread_running_count' \in Nat
    BY <1>9 DEF CountDown, CountedDown
  <2>2. stage' \in [Tasks -> {"new", "posting", "queued", "running", "done"}]
    BY <1>9 DEF CountDown
  <2> QED
    BY <1>9, <2>1, <2>2 DEF CountDown
<1>10. ASSUME NEW w \in Workers, TestCount(w) PROVE TypeOK'
  BY <1>10 DEF TestCount
<1>11. ASSUME NEW w \in Workers, TestEmpty(w) PROVE TypeOK'
  BY <1>11 DEF TestEmpty, Waiting
<1>12. ASSUME DtorStop PROVE TypeOK'
  BY <1>12 DEF DtorStop
<1>13. ASSUME DtorNotifyAll PROVE TypeOK'
  BY <1>13 DEF DtorNotifyAll, Waiting
<1>14. ASSUME DtorJoin PROVE TypeOK'
  BY <1>14 DEF DtorJoin
<1>15. CASE UNCHANGED vars
  BY <1>15 DEF vars
<1> QED
  BY <1>1, <1>2, <1>3, <1>4, <1>5, <1>6, <1>7, <1>8, <1>9, <1>10, <1>11,
     <1>12, <1>13, <1>14, <1>15, NextCases

(* Mutual exclusion is kept.                                               *)
LEMMA MutexStep ==
  ASSUME TypeOK, MutexInv, [Next]_vars
  PROVE  MutexInv'
<1> USE ConstantsAssumption
        DEF ConstantsAssumption, TypeOK, Threads, WorkerPlaces, MutexInv
<1>1. ASSUME NEW p \in Threads, NEW t \in Tasks, BeginPost(p, t) PROVE MutexInv'
  BY <1>1 DEF BeginPost, Home
<1>2. ASSUME NEW p \in Threads, PushTask(p) PROVE MutexInv'
  BY <1>2 DEF PushTask
<1>3. ASSUME NEW p \in Threads, NotifyOne(p) PROVE MutexInv'
  BY <1>3 DEF NotifyOne, Waiting, Home
<1>4. ASSUME NEW w \in Workers, EnterWait(w) PROVE MutexInv'
  BY <1>4 DEF EnterWait, AtLoop, Pred
<1>5. ASSUME NEW w \in Workers, Block(w) PROVE MutexInv'
  BY <1>5 DEF Block
<1>6. ASSUME NEW w \in Workers, SpuriousWakeup(w) PROVE MutexInv'
  BY <1>6 DEF SpuriousWakeup
<1>7. ASSUME NEW w \in Workers, TakeTask(w) PROVE MutexInv'
  BY <1>7 DEF TakeTask, AtLoop, Pred
<1>8. ASSUME NEW w \in Workers, Exit(w) PROVE MutexInv'
  BY <1>8 DEF Exit, AtLoop, Pred
<1>9. ASSUME NEW w \in Workers, CountDown(w) PROVE MutexInv'
  BY <1>9 DEF CountDown, CountedDown
<1>10. ASSUME NEW w \in Workers, TestCount(w) PROVE MutexInv'
  BY <1>10 DEF TestCount
<1>11. ASSUME NEW w \in Workers, TestEmpty(w) PROVE MutexInv'
  BY <1>11 DEF TestEmpty, Waiting
<1>12. ASSUME DtorStop PROVE MutexInv'
  BY <1>12 DEF DtorStop
<1>13. ASSUME DtorNotifyAll PROVE MutexInv'
  BY <1>13 DEF DtorNotifyAll, Waiting
<1>14. ASSUME DtorJoin PROVE MutexInv'
  BY <1>14 DEF DtorJoin
<1>15. CASE UNCHANGED vars
  BY <1>15 DEF vars
<1> QED
  BY <1>1, <1>2, <1>3, <1>4, <1>5, <1>6, <1>7, <1>8, <1>9, <1>10, <1>11,
     <1>12, <1>13, <1>14, <1>15, NextCases

(* The phases of the pool are kept.                                        *)
LEMMA PhaseStep ==
  ASSUME TypeOK, PhaseInv, PostingInv, QueueInv, [Next]_vars
  PROVE  PhaseInv'
<1> USE ConstantsAssumption
        DEF ConstantsAssumption, TypeOK, Threads, WorkerPlaces, PhaseInv
<1>1. ASSUME NEW p \in Threads, NEW t \in Tasks, BeginPost(p, t) PROVE PhaseInv'
  BY <1>1 DEF BeginPost, Home
<1>2. ASSUME NEW p \in Threads, PushTask(p) PROVE PhaseInv'
  <2>1. p \in Clients => ~M_stop
    BY <1>2 DEF PushTask
  <2>2. p \in Workers => M_stop
    BY <1>2 DEF PushTask
  <2>3. stage' = [stage EXCEPT ![new_task[p]] = "queued"]
    BY <1>2 DEF PushTask
  <2> QED
    BY <1>2, <2>1, <2>2, <2>3 DEF PushTask
<1>3. ASSUME NEW p \in Threads, NotifyOne(p) PROVE PhaseInv'
  BY <1>3 DEF NotifyOne, Waiting, Home
<1>4. ASSUME NEW w \in Workers, EnterWait(w) PROVE PhaseInv'
  BY <1>4 DEF EnterWait, AtLoop, Pred
<1>5. ASSUME NEW w \in Workers, Block(w) PROVE PhaseInv'
  BY <1>5 DEF Block
<1>6. ASSUME NEW w \in Workers, SpuriousWakeup(w) PROVE PhaseInv'
  BY <1>6 DEF SpuriousWakeup
<1>7. ASSUME NEW w \in Workers, TakeTask(w) PROVE PhaseInv'
  BY <1>7 DEF TakeTask, AtLoop, Pred
<1>8. ASSUME NEW w \in Workers, Exit(w) PROVE PhaseInv'
  BY <1>8 DEF Exit, AtLoop, Pred
<1>9. ASSUME NEW w \in Workers, CountDown(w) PROVE PhaseInv'
  BY <1>9 DEF CountDown, CountedDown
<1>10. ASSUME NEW w \in Workers, TestCount(w) PROVE PhaseInv'
  BY <1>10 DEF TestCount
<1>11. ASSUME NEW w \in Workers, TestEmpty(w) PROVE PhaseInv'
  BY <1>11 DEF TestEmpty, Waiting
<1>12. ASSUME DtorStop PROVE PhaseInv'
  BY <1>12 DEF DtorStop
<1>13. ASSUME DtorNotifyAll PROVE PhaseInv'
  BY <1>13 DEF DtorNotifyAll, Waiting
<1>14. ASSUME DtorJoin PROVE PhaseInv'
  BY <1>14 DEF DtorJoin
<1>15. CASE UNCHANGED vars
  BY <1>15 DEF vars
<1> QED
  BY <1>1, <1>2, <1>3, <1>4, <1>5, <1>6, <1>7, <1>8, <1>9, <1>10, <1>11,
     <1>12, <1>13, <1>14, <1>15, NextCases

(* What is being posted is kept.                                           *)
LEMMA PostingStep ==
  ASSUME Inv, [Next]_vars
  PROVE  PostingInv'
<1> USE ConstantsAssumption
        DEF ConstantsAssumption, TypeOK, Threads, WorkerPlaces, Inv,
            PostingInv
<1>1. ASSUME NEW p \in Threads, NEW t \in Tasks, BeginPost(p, t)
      PROVE  PostingInv'
  BY <1>1 DEF BeginPost, MutexInv
<1>2. ASSUME NEW p \in Threads, PushTask(p) PROVE PostingInv'
  BY <1>2 DEF PushTask, MutexInv
<1>3. ASSUME NEW p \in Threads, NotifyOne(p) PROVE PostingInv'
  BY <1>3 DEF NotifyOne, Waiting, Home
<1>4. ASSUME NEW w \in Workers, EnterWait(w) PROVE PostingInv'
  BY <1>4 DEF EnterWait, AtLoop, Pred
<1>5. ASSUME NEW w \in Workers, Block(w) PROVE PostingInv'
  BY <1>5 DEF Block
<1>6. ASSUME NEW w \in Workers, SpuriousWakeup(w) PROVE PostingInv'
  BY <1>6 DEF SpuriousWakeup
<1>7. ASSUME NEW w \in Workers, TakeTask(w) PROVE PostingInv'
  <2>1. stage[Head(M_tasks)] = "queued"
    BY <1>7, HeadQueued DEF TakeTask
  <2>2. \A q \in Threads : pc'[q] = "push" <=> pc[q] = "push"
    BY <1>7 DEF TakeTask, AtLoop
  <2>3. \A u \in Tasks : stage'[u] = "posting" <=> stage[u] = "posting"
    BY <1>7, <2>1 DEF TakeTask
  <2>4. UNCHANGED new_task
    BY <1>7 DEF TakeTask
  <2> QED
    BY <2>2, <2>3, <2>4
<1>8. ASSUME NEW w \in Workers, Exit(w) PROVE PostingInv'
  BY <1>8 DEF Exit, AtLoop, Pred
<1>9. ASSUME NEW w \in Workers, CountDown(w) PROVE PostingInv'
  BY <1>9 DEF CountDown, RunningInv, Busy
<1>10. ASSUME NEW w \in Workers, TestCount(w) PROVE PostingInv'
  BY <1>10 DEF TestCount
<1>11. ASSUME NEW w \in Workers, TestEmpty(w) PROVE PostingInv'
  BY <1>11 DEF TestEmpty, Waiting
<1>12. ASSUME DtorStop PROVE PostingInv'
  BY <1>12 DEF DtorStop
<1>13. ASSUME DtorNotifyAll PROVE PostingInv'
  BY <1>13 DEF DtorNotifyAll, Waiting
<1>14. ASSUME DtorJoin PROVE PostingInv'
  BY <1>14 DEF DtorJoin
<1>15. CASE UNCHANGED vars
  BY <1>15 DEF vars
<1> QED
  BY <1>1, <1>2, <1>3, <1>4, <1>5, <1>6, <1>7, <1>8, <1>9, <1>10, <1>11,
     <1>12, <1>13, <1>14, <1>15, NextCases

(* The deque keeps holding the queued tasks.                               *)
LEMMA QueueStep ==
  ASSUME Inv, [Next]_vars
  PROVE  QueueInv'
<1> USE ConstantsAssumption
        DEF ConstantsAssumption, TypeOK, Threads, WorkerPlaces, Inv,
            QueueInv
<1>1. ASSUME NEW p \in Threads, NEW t \in Tasks, BeginPost(p, t) PROVE QueueInv'
  <2>1. M_tasks' = M_tasks /\ stage' = [stage EXCEPT ![t] = "posting"]
    BY <1>1 DEF BeginPost
  <2>2. stage[t] = "new"
    BY <1>1 DEF BeginPost
  <2> QED
    BY <2>1, <2>2
<1>2. ASSUME NEW p \in Threads, PushTask(p) PROVE QueueInv'
  <2> DEFINE t == new_task[p]
             n == Len(M_tasks)
  <2>1. t \in Tasks /\ stage[t] = "posting"
    BY <1>2 DEF PushTask, PostingInv
  <2>2. stage' = [stage EXCEPT ![t] = "queued"]
    BY <1>2 DEF PushTask
  <2>3. /\ Len(M_tasks') = n + 1
        /\ n \in Nat
        /\ M_tasks'[n + 1] = t
        /\ \A i \in 1 .. n : M_tasks'[i] = M_tasks[i] /\ M_tasks[i] \in Tasks
    BY <1>2, <2>1 DEF PushTask
  <2> HIDE DEF t, n
  <2>4. \A i \in 1 .. n + 1 : i \in 1 .. n \/ i = n + 1
    BY <2>3
  <2>5. \A i \in 1 .. n : M_tasks[i] # t
    BY <2>1 DEF n
  <2>6. \A i \in 1 .. n + 1 : stage'[M_tasks'[i]] = "queued"
    BY <2>1, <2>2, <2>3, <2>4 DEF n
  <2>7. \A i, j \in 1 .. n + 1 : M_tasks'[i] = M_tasks'[j] => i = j
    BY <2>3, <2>4, <2>5 DEF n
  <2>8. ASSUME NEW u \in Tasks, stage'[u] = "queued"
        PROVE  \E i \in 1 .. n + 1 : M_tasks'[i] = u
    BY <2>1, <2>2, <2>3, <2>8 DEF n
  <2> QED
    BY <2>3, <2>6, <2>7, <2>8
<1>3. ASSUME NEW p \in Threads, NotifyOne(p) PROVE QueueInv'
  BY <1>3 DEF NotifyOne, Waiting, Home
<1>4. ASSUME NEW w \in Workers, EnterWait(w) PROVE QueueInv'
  BY <1>4 DEF EnterWait, AtLoop, Pred
<1>5. ASSUME NEW w \in Workers, Block(w) PROVE QueueInv'
  BY <1>5 DEF Block
<1>6. ASSUME NEW w \in Workers, SpuriousWakeup(w) PROVE QueueInv'
  BY <1>6 DEF SpuriousWakeup
<1>7. ASSUME NEW w \in Workers, TakeTask(w) PROVE QueueInv'
  <2> DEFINE t == Head(M_tasks)
             n == Len(M_tasks)
  <2>1. /\ 1 \in 1 .. n
        /\ t = M_tasks[1]
        /\ t \in Tasks
        /\ stage[t] = "queued"
    BY <1>7, HeadQueued DEF TakeTask
  <2>2. stage' = [stage EXCEPT ![t] = "running"]
    BY <1>7 DEF TakeTask
  <2>3. /\ n \in Nat
        /\ Len(M_tasks') = n - 1
        /\ \A i \in 1 .. n - 1 : /\ i + 1 \in 1 .. n
                                 /\ M_tasks'[i] = M_tasks[i + 1]
        /\ \A i \in 1 .. n : M_tasks[i] \in Tasks
    BY <1>7, <2>1 DEF TakeTask
  <2> HIDE DEF t, n
  <2>4. ASSUME NEW i \in 1 .. n - 1 PROVE M_tasks[i + 1] # t
    <3>1. i + 1 \in 1 .. n /\ i + 1 # 1
      BY <2>3
    <3> QED
      BY <2>1, <3>1 DEF n
  <2>5. ASSUME NEW i \in 1 .. n - 1 PROVE stage'[M_tasks'[i]] = "queued"
    <3>1. /\ M_tasks'[i] = M_tasks[i + 1]
          /\ M_tasks[i + 1] \in Tasks
          /\ i + 1 \in 1 .. n
      BY <2>3
    <3>2. stage[M_tasks[i + 1]] = "queued"
      BY <3>1 DEF n
    <3> QED
      BY <2>2, <2>4, <3>1, <3>2
  <2>6. \A i, j \in 1 .. n - 1 : M_tasks'[i] = M_tasks'[j] => i = j
    BY <2>3 DEF n
  <2>7. ASSUME NEW u \in Tasks, stage'[u] = "queued"
        PROVE  \E i \in 1 .. n - 1 : M_tasks'[i] = u
    <3>1. u # t /\ stage[u] = "queued"
      BY <2>1, <2>2, <2>7
    <3>2. PICK k \in 1 .. n : M_tasks[k] = u
      BY <3>1 DEF n
    <3>3. k # 1
      BY <2>1, <3>1, <3>2
    <3>4. k - 1 \in 1 .. n - 1 /\ (k - 1) + 1 = k
      BY <2>3, <3>3
    <3>5. M_tasks'[k - 1] = u
      BY <2>3, <3>2, <3>4
    <3> QED
      BY <3>4, <3>5
  <2> QED
    BY <2>3, <2>5, <2>6, <2>7
<1>8. ASSUME NEW w \in Workers, Exit(w) PROVE QueueInv'
  BY <1>8 DEF Exit, AtLoop, Pred
<1>9. ASSUME NEW w \in Workers, CountDown(w) PROVE QueueInv'
  <2>1. stage[task_func[w]] = "running" /\ task_func[w] \in Tasks
    BY <1>9 DEF CountDown, RunningInv, Busy
  <2>2. M_tasks' = M_tasks /\ stage' = [stage EXCEPT ![task_func[w]] = "done"]
    BY <1>9 DEF CountDown
  <2> QED
    BY <2>1, <2>2
<1>10. ASSUME NEW w \in Workers, TestCount(w) PROVE QueueInv'
  BY <1>10 DEF TestCount
<1>11. ASSUME NEW w \in Workers, TestEmpty(w) PROVE QueueInv'
  BY <1>11 DEF TestEmpty, Waiting
<1>12. ASSUME DtorStop PROVE QueueInv'
  BY <1>12 DEF DtorStop
<1>13. ASSUME DtorNotifyAll PROVE QueueInv'
  BY <1>13 DEF DtorNotifyAll, Waiting
<1>14. ASSUME DtorJoin PROVE QueueInv'
  BY <1>14 DEF DtorJoin
<1>15. CASE UNCHANGED vars
  BY <1>15 DEF vars
<1> QED
  BY <1>1, <1>2, <1>3, <1>4, <1>5, <1>6, <1>7, <1>8, <1>9, <1>10, <1>11,
     <1>12, <1>13, <1>14, <1>15, NextCases

(* Running tasks stay with their workers.                                  *)
LEMMA RunningStep ==
  ASSUME Inv, [Next]_vars
  PROVE  RunningInv'
<1> USE ConstantsAssumption
        DEF ConstantsAssumption, TypeOK, Threads, WorkerPlaces, Inv,
            RunningInv, Busy
<1>1. ASSUME NEW p \in Threads, NEW t \in Tasks, BeginPost(p, t)
      PROVE  RunningInv'
  BY <1>1 DEF BeginPost, Home, PhaseInv
<1>2. ASSUME NEW p \in Threads, PushTask(p) PROVE RunningInv'
  BY <1>2 DEF PushTask, PostingInv
<1>3. ASSUME NEW p \in Threads, NotifyOne(p) PROVE RunningInv'
  BY <1>3 DEF NotifyOne, Waiting, Home
<1>4. ASSUME NEW w \in Workers, EnterWait(w) PROVE RunningInv'
  BY <1>4 DEF EnterWait, AtLoop, Pred
<1>5. ASSUME NEW w \in Workers, Block(w) PROVE RunningInv'
  BY <1>5 DEF Block
<1>6. ASSUME NEW w \in Workers, SpuriousWakeup(w) PROVE RunningInv'
  BY <1>6 DEF SpuriousWakeup
<1>7. ASSUME NEW w \in Workers, TakeTask(w) PROVE RunningInv'
  <2> DEFINE t == Head(M_tasks)
  <2>1. t \in Tasks /\ stage[t] = "queued"
    BY <1>7, HeadQueued DEF TakeTask
  <2>2. /\ pc' = [pc EXCEPT ![w] = "run"]
        /\ task_func' = [task_func EXCEPT ![w] = t]
        /\ stage' = [stage EXCEPT ![t] = "running"]
        /\ pc[w] = "loop"
    BY <1>7 DEF TakeTask, AtLoop
  <2> HIDE DEF t
  <2>3. Busy' = Busy \cup {w} /\ w \notin Busy
    BY <2>2
  <2>4. \A v \in Busy : v # w /\ task_func'[v] = task_func[v] /\ task_func[v] # t
    BY <2>1, <2>2, <2>3
  <2> QED
    BY <2>1, <2>2, <2>3, <2>4
<1>8. ASSUME NEW w \in Workers, Exit(w) PROVE RunningInv'
  BY <1>8 DEF Exit, AtLoop, Pred
<1>9. ASSUME NEW w \in Workers, CountDown(w) PROVE RunningInv'
  <2>1. /\ pc' = [pc EXCEPT ![w] = "zero"]
        /\ UNCHANGED task_func
        /\ stage' = [stage EXCEPT ![task_func[w]] = "done"]
        /\ pc[w] = "run"
    BY <1>9 DEF CountDown
  <2>2. Busy' = Busy \ {w} /\ w \in Busy
    BY <2>1
  <2> QED
    BY <2>1, <2>2
<1>10. ASSUME NEW w \in Workers, TestCount(w) PROVE RunningInv'
  BY <1>10 DEF TestCount
<1>11. ASSUME NEW w \in Workers, TestEmpty(w) PROVE RunningInv'
  <2>1. Busy' = Busy /\ w \notin Busy
    BY <1>11 DEF TestEmpty, Waiting
  <2>2. stage' = stage /\ \A v \in Busy : task_func'[v] = task_func[v]
    BY <1>11, <2>1 DEF TestEmpty
  <2> QED
    BY <2>1, <2>2
<1>12. ASSUME DtorStop PROVE RunningInv'
  BY <1>12 DEF DtorStop
<1>13. ASSUME DtorNotifyAll PROVE RunningInv'
  BY <1>13 DEF DtorNotifyAll, Waiting
<1>14. ASSUME DtorJoin PROVE RunningInv'
  BY <1>14 DEF DtorJoin
<1>15. CASE UNCHANGED vars
  BY <1>15 DEF vars
<1> QED
  BY <1>1, <1>2, <1>3, <1>4, <1>5, <1>6, <1>7, <1>8, <1>9, <1>10, <1>11,
     <1>12, <1>13, <1>14, <1>15, NextCases

(* Outstanding is a finite set.                                            *)
LEMMA OutstandingFinite == IsFiniteSet(Outstanding)
BY ConstantsAssumption, FS_Subset DEF ConstantsAssumption, Outstanding

(* The counter goes up and down with the set of outstanding tasks.         *)
LEMMA CountStep ==
  ASSUME Inv, [Next]_vars
  PROVE  CountExact'
<1> USE ConstantsAssumption
        DEF ConstantsAssumption, TypeOK, Threads, WorkerPlaces, Inv,
            CountExact
<1>1. ASSUME NEW p \in Threads, NEW t \in Tasks, BeginPost(p, t)
      PROVE  CountExact'
  <2>1. Outstanding' = Outstanding \cup {t} /\ t \notin Outstanding
    BY <1>1 DEF BeginPost, Outstanding
  <2>2. Cardinality(Outstanding') = Cardinality(Outstanding) + 1
    BY <2>1, OutstandingFinite, FS_AddElement
  <2> QED
    BY <1>1, <2>2 DEF BeginPost
<1>2. ASSUME NEW p \in Threads, PushTask(p) PROVE CountExact'
  <2>1. new_task[p] \in Tasks /\ stage[new_task[p]] = "posting"
    BY <1>2 DEF PushTask, PostingInv
  <2>2. Outstanding' = Outstanding
    BY <1>2, <2>1 DEF PushTask, Outstanding
  <2> QED
    BY <1>2, <2>2 DEF PushTask
<1>3. ASSUME NEW p \in Threads, NotifyOne(p) PROVE CountExact'
  BY <1>3 DEF NotifyOne, Outstanding
<1>4. ASSUME NEW w \in Workers, EnterWait(w) PROVE CountExact'
  BY <1>4 DEF EnterWait, Outstanding
<1>5. ASSUME NEW w \in Workers, Block(w) PROVE CountExact'
  BY <1>5 DEF Block, Outstanding
<1>6. ASSUME NEW w \in Workers, SpuriousWakeup(w) PROVE CountExact'
  BY <1>6 DEF SpuriousWakeup, Outstanding
<1>7. ASSUME NEW w \in Workers, TakeTask(w) PROVE CountExact'
  <2>1. Head(M_tasks) \in Tasks /\ stage[Head(M_tasks)] = "queued"
    BY <1>7, HeadQueued DEF TakeTask
  <2>2. Outstanding' = Outstanding
    BY <1>7, <2>1 DEF TakeTask, Outstanding
  <2> QED
    BY <1>7, <2>2 DEF TakeTask
<1>8. ASSUME NEW w \in Workers, Exit(w) PROVE CountExact'
  BY <1>8 DEF Exit, Outstanding
<1>9. ASSUME NEW w \in Workers, CountDown(w) PROVE CountExact'
  <2> DEFINE t == task_func[w]
  <2>1. t \in Tasks /\ stage[t] = "running"
    BY <1>9 DEF CountDown, RunningInv, Busy
  <2>2. stage' = [stage EXCEPT ![t] = "done"]
    BY <1>9 DEF CountDown
  <2> HIDE DEF t
  <2>3. Outstanding' = Outstanding \ {t} /\ t \in Outstanding
    BY <2>1, <2>2 DEF Outstanding
  <2>4. Cardinality(Outstanding') = Cardinality(Outstanding) - 1
    BY <2>3, OutstandingFinite, FS_RemoveElement
  <2>5. Cardinality(Outstanding) # 0
    BY <2>3, OutstandingFinite, FS_EmptySet
  <2> QED
    BY <1>9, <2>4, <2>5 DEF CountDown, CountedDown
<1>10. ASSUME NEW w \in Workers, TestCount(w) PROVE CountExact'
  BY <1>10 DEF TestCount, Outstanding
<1>11. ASSUME NEW w \in Workers, TestEmpty(w) PROVE CountExact'
  BY <1>11 DEF TestEmpty, Outstanding
<1>12. ASSUME DtorStop PROVE CountExact'
  BY <1>12 DEF DtorStop, Outstanding
<1>13. ASSUME DtorNotifyAll PROVE CountExact'
  BY <1>13 DEF DtorNotifyAll, Outstanding
<1>14. ASSUME DtorJoin PROVE CountExact'
  BY <1>14 DEF DtorJoin, Outstanding
<1>15. CASE UNCHANGED vars
  BY <1>15 DEF vars, Outstanding
<1> QED
  BY <1>1, <1>2, <1>3, <1>4, <1>5, <1>6, <1>7, <1>8, <1>9, <1>10, <1>11,
     <1>12, <1>13, <1>14, <1>15, NextCases

(* Everything in Inv is kept together.                                     *)
LEMMA InvStep ==
  ASSUME Inv, [Next]_vars
  PROVE  Inv'
BY TypeStep, MutexStep, PhaseStep, PostingStep, QueueStep, RunningStep, CountStep
   DEF Inv

(* A worker about to block keeps the queue filled and the others awake.     *)
LEMMA EnterStep ==
  ASSUME Inv, EnterInv, [Next]_vars
  PROVE  EnterInv'
<1> USE ConstantsAssumption
        DEF ConstantsAssumption, TypeOK, Threads, WorkerPlaces, Inv,
            EnterInv
<1>1. ASSUME NEW p \in Threads, NEW t \in Tasks, BeginPost(p, t) PROVE EnterInv'
  BY <1>1 DEF BeginPost, Home
<1>2. ASSUME NEW p \in Threads, PushTask(p) PROVE EnterInv'
  <2>1. \A w \in Workers : pc[w] # "enter"
    BY <1>2 DEF PushTask, MutexInv
  <2> QED
    BY <1>2, <2>1 DEF PushTask
<1>3. ASSUME NEW p \in Threads, NotifyOne(p) PROVE EnterInv'
  BY <1>3 DEF NotifyOne, Waiting, Home
<1>4. ASSUME NEW w \in Workers, EnterWait(w) PROVE EnterInv'
  <2>1. dtor = "alive" /\ M_tasks # <<>>
    BY <1>4 DEF EnterWait, Pred, PhaseInv
  <2>2. \A v \in Workers : pc[v] \in {"loop", "wait"}
    BY <1>4 DEF EnterWait, Pred, AtLoop, MutexInv, PhaseInv
  <2> QED
    BY <1>4, <2>1, <2>2 DEF EnterWait
<1>5. ASSUME NEW w \in Workers, Block(w) PROVE EnterInv'
  <2>1. \A v \in Workers : pc'[v] # "enter"
    BY <1>5 DEF Block, MutexInv
  <2> QED
    BY <2>1
<1>6. ASSUME NEW w \in Workers, SpuriousWakeup(w) PROVE EnterInv'
  BY <1>6 DEF SpuriousWakeup
<1>7. ASSUME NEW w \in Workers, TakeTask(w) PROVE EnterInv'
  <2>1. \A v \in Workers : pc[v] # "enter"
    BY <1>7 DEF TakeTask, AtLoop, MutexInv
  <2> QED
    BY <1>7, <2>1 DEF TakeTask
<1>8. ASSUME NEW w \in Workers, Exit(w) PROVE EnterInv'
  <2>1. \A v \in Workers : pc[v] # "enter"
    BY <1>8 DEF Exit, AtLoop, MutexInv
  <2> QED
    BY <1>8, <2>1 DEF Exit
<1>9. ASSUME NEW w \in Workers, CountDown(w) PROVE EnterInv'
  BY <1>9 DEF CountDown, CountedDown
<1>10. ASSUME NEW w \in Workers, TestCount(w) PROVE EnterInv'
  BY <1>10 DEF TestCount
<1>11. ASSUME NEW w \in Workers, TestEmpty(w) PROVE EnterInv'
  BY <1>11 DEF TestEmpty, Waiting
<1>12. ASSUME DtorStop PROVE EnterInv'
  BY <1>12 DEF DtorStop
<1>13. ASSUME DtorNotifyAll PROVE EnterInv'
  BY <1>13 DEF DtorNotifyAll, Waiting
<1>14. ASSUME DtorJoin PROVE EnterInv'
  BY <1>14 DEF DtorJoin
<1>15. CASE UNCHANGED vars
  BY <1>15 DEF vars
<1> QED
  BY <1>1, <1>2, <1>3, <1>4, <1>5, <1>6, <1>7, <1>8, <1>9, <1>10, <1>11,
     <1>12, <1>13, <1>14, <1>15, NextCases

(* The queue stays empty once the last worker has left.                    *)
LEMMA ExitStep ==
  ASSUME Inv, ExitInv, [Next]_vars
  PROVE  ExitInv'
<1> USE ConstantsAssumption
        DEF ConstantsAssumption, TypeOK, Threads, WorkerPlaces, Inv, ExitInv
<1>1. ASSUME NEW p \in Threads, NEW t \in Tasks, BeginPost(p, t) PROVE ExitInv'
  BY <1>1 DEF BeginPost, Home
<1>2. ASSUME NEW p \in Threads, PushTask(p) PROVE ExitInv'
  <2>1. ASSUME Workers # {} PROVE \E v \in Workers : pc'[v] # "exit"
    BY <1>2, <2>1 DEF PushTask, PhaseInv
  <2> QED
    BY <2>1
<1>3. ASSUME NEW p \in Threads, NotifyOne(p) PROVE ExitInv'
  BY <1>3 DEF NotifyOne, Waiting, Home
<1>4. ASSUME NEW w \in Workers, EnterWait(w) PROVE ExitInv'
  BY <1>4 DEF EnterWait, AtLoop, Pred
<1>5. ASSUME NEW w \in Workers, Block(w) PROVE ExitInv'
  BY <1>5 DEF Block
<1>6. ASSUME NEW w \in Workers, SpuriousWakeup(w) PROVE ExitInv'
  BY <1>6 DEF SpuriousWakeup
<1>7. ASSUME NEW w \in Workers, TakeTask(w) PROVE ExitInv'
  BY <1>7 DEF TakeTask, AtLoop, Pred
<1>8. ASSUME NEW w \in Workers, Exit(w) PROVE ExitInv'
  BY <1>8 DEF Exit, AtLoop, Pred
<1>9. ASSUME NEW w \in Workers, CountDown(w) PROVE ExitInv'
  BY <1>9 DEF CountDown, CountedDown
<1>10. ASSUME NEW w \in Workers, TestCount(w) PROVE ExitInv'
  BY <1>10 DEF TestCount
<1>11. ASSUME NEW w \in Workers, TestEmpty(w) PROVE ExitInv'
  BY <1>11 DEF TestEmpty, Waiting
<1>12. ASSUME DtorStop PROVE ExitInv'
  BY <1>12 DEF DtorStop
<1>13. ASSUME DtorNotifyAll PROVE ExitInv'
  BY <1>13 DEF DtorNotifyAll, Waiting
<1>14. ASSUME DtorJoin PROVE ExitInv'
  BY <1>14 DEF DtorJoin
<1>15. CASE UNCHANGED vars
  BY <1>15 DEF vars
<1> QED
  BY <1>1, <1>2, <1>3, <1>4, <1>5, <1>6, <1>7, <1>8, <1>9, <1>10, <1>11,
     <1>12, <1>13, <1>14, <1>15, NextCases

(* Where there is still work that is not in the queue, a worker is busy.   *)
LEMMA BusyExists ==
  Inv /\ M_stop /\ M_thread_running_count # 0 /\ M_tasks = <<>>
    => \E v \in Workers : v \in Busy
<1> SUFFICES ASSUME Inv, M_stop, M_thread_running_count # 0, M_tasks = <<>>
             PROVE  \E v \in Workers : v \in Busy
  OBVIOUS
<1> USE ConstantsAssumption DEF ConstantsAssumption, Inv, TypeOK, Threads
<1>1. PICK t \in Tasks : stage[t] \in {"posting", "queued", "running"}
  <2>1. Outstanding # {}
    BY FS_EmptySet DEF CountExact
  <2> QED
    BY <2>1 DEF Outstanding
<1>2. stage[t] # "queued"
  BY DEF QueueInv
<1>3. CASE stage[t] = "posting"
  BY <1>3 DEF PostingInv, PhaseInv, Busy
<1>4. CASE stage[t] = "running"
  BY <1>4 DEF RunningInv, Busy
<1> QED
  BY <1>1, <1>2, <1>3, <1>4

(* The assumption under which a sleeping worker is always woken.           *)
TwoWorkers == \A w \in Workers : Workers # {w}

(* No wakeup is lost.                                                      *)
LEMMA WakeupStep ==
  ASSUME TwoWorkers, Inv, EnterInv, NoLostWakeup, [Next]_vars
  PROVE  NoLostWakeup'
<1> USE ConstantsAssumption
        DEF ConstantsAssumption, TypeOK, Threads, WorkerPlaces, Inv,
            NoLostWakeup, Waiting, Busy
<1>1. ASSUME NEW p \in Threads, NEW t \in Tasks, BeginPost(p, t)
      PROVE  NoLostWakeup'
  <2>1. CASE p \in Workers
    BY <1>1, <2>1 DEF BeginPost
  <2>2. CASE p \in Clients
    BY <1>1, <2>2 DEF BeginPost
  <2> QED
    BY <2>1, <2>2
<1>2. ASSUME NEW p \in Threads, PushTask(p) PROVE NoLostWakeup'
  <2>1. p \in Workers \/ dtor # "join"
    BY <1>2 DEF PushTask, PhaseInv
  <2> QED
    BY <1>2, <2>1 DEF PushTask
<1>3. ASSUME NEW p \in Threads, NotifyOne(p) PROVE NoLostWakeup'
  <2>1. dtor # "join" \/ (p \in Workers /\ pc'[p] = "run")
    BY <1>3 DEF NotifyOne, Home, PhaseInv
  <2> QED
    BY <1>3, <2>1 DEF NotifyOne
<1>4. ASSUME NEW w \in Workers, EnterWait(w) PROVE NoLostWakeup'
  BY <1>4 DEF EnterWait, Pred, PhaseInv
<1>5. ASSUME NEW w \in Workers, Block(w) PROVE NoLostWakeup'
  <2> SUFFICES ASSUME dtor = "join"
               PROVE  \E v \in Workers : pc'[v] = "loop" /\ M_tasks' # <<>>
    BY <1>5 DEF Block
  <2>1. PICK v \in Workers : v # w
    BY DEF TwoWorkers
  <2>2. M_tasks # <<>> /\ pc[v] = "loop"
    BY <1>5, <2>1 DEF Block, EnterInv
  <2> QED
    BY <1>5, <2>1, <2>2 DEF Block
<1>6. ASSUME NEW w \in Workers, SpuriousWakeup(w) PROVE NoLostWakeup'
  BY <1>6 DEF SpuriousWakeup
<1>7. ASSUME NEW w \in Workers, TakeTask(w) PROVE NoLostWakeup'
  BY <1>7 DEF TakeTask, AtLoop, Pred
<1>8. ASSUME NEW w \in Workers, Exit(w) PROVE NoLostWakeup'
  BY <1>8 DEF Exit, AtLoop, Pred
<1>9. ASSUME NEW w \in Workers, CountDown(w) PROVE NoLostWakeup'
  <2> SUFFICES ASSUME dtor = "join", M_thread_running_count' # 0, M_tasks' = <<>>
               PROVE  \E v \in Workers : v \in Busy'
    BY <1>9 DEF CountDown
  <2>1. Inv'
    BY InvStep
  <2>2. M_stop'
    BY <1>9 DEF CountDown, PhaseInv
  <2>3. (/\ Inv
         /\ M_stop
         /\ M_thread_running_count # 0
         /\ M_tasks = <<>>
         => \E v \in Workers : v \in Busy)'
    BY BusyExists, PTL
  <2> QED
    BY <2>1, <2>2, <2>3
<1>10. ASSUME NEW w \in Workers, TestCount(w) PROVE NoLostWakeup'
  <2>1. CASE M_thread_running_count = 0
    BY <1>10, <2>1 DEF TestCount
  <2>2. CASE M_thread_running_count # 0
    <3>1. pc' = [pc EXCEPT ![w] = "loop"] /\ UNCHANGED <<M_tasks, dtor>>
      BY <1>10, <2>2 DEF TestCount
    <3>2. CASE M_tasks # <<>>
      BY <3>1, <3>2
    <3>3. CASE M_tasks = <<>> /\ dtor = "join"
      <4>1. PICK v \in Workers : v \in Busy
        BY <2>2, <3>3, BusyExists DEF PhaseInv
      <4>2. pc'[v] = pc[v]
        BY <1>10, <3>1, <4>1 DEF TestCount
      <4> QED
        BY <4>1, <4>2
    <3> QED
      BY <3>1, <3>2, <3>3
  <2> QED
    BY <2>1, <2>2
<1>11. ASSUME NEW w \in Workers, TestEmpty(w) PROVE NoLostWakeup'
  <2> SUFFICES ASSUME dtor = "join", Waiting' # {}
               PROVE  \E v \in Workers : \/ v \in Busy'
                                         \/ pc'[v] = "loop" /\ M_tasks' # <<>>
    BY <1>11 DEF TestEmpty
  <2>1. PICK seen_empty \in SeenEmpty :
          pc' = [p \in Threads |->
                   IF p = w \/ (seen_empty /\ p \in Waiting) THEN "loop"
                                                             ELSE pc[p]]
    BY <1>11 DEF TestEmpty
  <2>2. ~seen_empty
    BY <2>1
  <2>3. (\E p \in Threads : pc[p] = "push") \/ M_tasks # <<>>
    BY <2>1, <2>2 DEF SeenEmpty
  <2>4. CASE M_tasks # <<>>
    BY <1>11, <2>1, <2>4 DEF TestEmpty
  <2>5. CASE \E p \in Threads : pc[p] = "push"
    <3>1. PICK p \in Threads : pc[p] = "push"
      BY <2>5
    <3>2. p \in Workers
      BY <3>1 DEF PhaseInv
    <3>3. pc'[p] = "push"
      BY <1>11, <2>1, <3>1 DEF TestEmpty
    <3>4. p \in Busy'
      BY <3>2, <3>3
    <3> QED
      BY <3>2, <3>4
  <2> QED
    BY <2>3, <2>4, <2>5
<1>12. ASSUME DtorStop PROVE NoLostWakeup'
  BY <1>12 DEF DtorStop
<1>13. ASSUME DtorNotifyAll PROVE NoLostWakeup'
  BY <1>13 DEF DtorNotifyAll, Waiting
<1>14. ASSUME DtorJoin PROVE NoLostWakeup'
  BY <1>14 DEF DtorJoin
<1>15. CASE UNCHANGED vars
  BY <1>15 DEF vars
<1> QED
  BY <1>1, <1>2, <1>3, <1>4, <1>5, <1>6, <1>7, <1>8, <1>9, <1>10, <1>11,
     <1>12, <1>13, <1>14, <1>15, NextCases

-----------------------------------------------------------------------------
(* A worker that runs no task leaves room for one more: the running tasks  *)
(* are each in the hands of a worker of their own, and not in its.         *)
LEMMA RoomForOne ==
  ASSUME Inv, NEW w \in Workers, w \notin Busy
  PROVE  Cardinality(Running) < Cardinality(Workers)
<1> DEFINE S == Workers \ {w}
           runner == [t \in Running |-> CHOOSE v \in Busy : task_func[v] = t]
<1>1. \A t \in Running : runner[t] \in Busy /\ task_func[runner[t]] = t
  BY DEF Inv, RunningInv, Running
<1>2. Busy \subseteq S
  BY DEF Busy
<1> HIDE DEF runner
<1>3. runner \in [Running -> S]
  BY <1>1, <1>2 DEF runner
<1>4. runner \in Injection(Running, S)
  BY <1>1, <1>3 DEF Injection, IsInjective
<1>5. /\ IsFiniteSet(S) /\ Cardinality(S) = Cardinality(Workers) - 1
      /\ Cardinality(S) \in Nat /\ Cardinality(Workers) \in Nat
  BY ConstantsAssumption, FS_RemoveElement, FS_CardinalityType
     DEF ConstantsAssumption
<1> HIDE DEF S
<1>6. IsFiniteSet(Running) /\ Cardinality(Running) <= Cardinality(S)
  BY <1>4, <1>5, FS_Injection
<1> QED
  BY <1>5, <1>6, FS_CardinalityType

(* The executor counts in the same way.                                    *)
LEMMA SameCardinality == \A S : Executor!Cardinality(S) = Cardinality(S)
BY DEF Executor!Cardinality, Cardinality

(* Every step of the pool is a step of the executor, or none.              *)
LEMMA ExecutorStep ==
  ASSUME Workers # {}, Inv, ExitInv, [Next]_vars
  PROVE  [Executor!Next]_(Executor!vars)
<1> USE ConstantsAssumption
        DEF ConstantsAssumption, TypeOK, Threads, WorkerPlaces, Inv, Phase
<1>1. ASSUME NEW p \in Threads, NEW t \in Tasks, BeginPost(p, t)
      PROVE  [Executor!Next]_(Executor!vars)
  <2>1. UNCHANGED <<M_tasks, dtor>> /\ stage' = [stage EXCEPT ![t] = "posting"]
    BY <1>1 DEF BeginPost
  <2>2. stage[t] = "new"
    BY <1>1 DEF BeginPost
  <2> QED
    BY <2>1, <2>2 DEF Executor!vars, Running, Finished
<1>2. ASSUME NEW p \in Threads, PushTask(p)
      PROVE  [Executor!Next]_(Executor!vars)
  <2> DEFINE t == new_task[p]
  <2>1. t \in Tasks /\ stage[t] = "posting"
    BY <1>2 DEF PushTask, PostingInv
  <2>2. /\ M_tasks' = Append(M_tasks, t)
        /\ stage' = [stage EXCEPT ![t] = "queued"]
        /\ dtor' = dtor
    BY <1>2 DEF PushTask
  <2> HIDE DEF t
  <2>3. UNCHANGED <<Running, Finished, Phase>>
    BY <2>1, <2>2 DEF Running, Finished
  <2>4. t \notin ToSet(M_tasks) \cup Running \cup Finished
    BY <2>1 DEF QueueInv, ToSet, Running, Finished
  <2>5. dtor = "alive" \/ (dtor # "done" /\ Running # {})
    <3>1. CASE p \in Clients
      BY <1>2, <3>1 DEF PushTask, PhaseInv
    <3>2. CASE p \in Workers
      BY <1>2, <3>2 DEF PushTask, PhaseInv, RunningInv, Busy, Running
    <3> QED
      BY <3>1, <3>2
  <2>6. Executor!Accept(t)
    BY <2>2, <2>3, <2>4, <2>5
       DEF Executor!Accept, Executor!Known, Executor!ToSet, ToSet
  <2> QED
    BY <2>1, <2>6 DEF Executor!Next
<1>3. ASSUME NEW p \in Threads, NotifyOne(p)
      PROVE  [Executor!Next]_(Executor!vars)
  BY <1>3 DEF NotifyOne, Executor!vars, Running, Finished
<1>4. ASSUME NEW w \in Workers, EnterWait(w)
      PROVE  [Executor!Next]_(Executor!vars)
  BY <1>4 DEF EnterWait, Executor!vars, Running, Finished
<1>5. ASSUME NEW w \in Workers, Block(w) PROVE [Executor!Next]_(Executor!vars)
  BY <1>5 DEF Block, Executor!vars, Running, Finished
<1>6. ASSUME NEW w \in Workers, SpuriousWakeup(w)
      PROVE  [Executor!Next]_(Executor!vars)
  BY <1>6 DEF SpuriousWakeup, Executor!vars, Running, Finished
<1>7. ASSUME NEW w \in Workers, TakeTask(w)
      PROVE  [Executor!Next]_(Executor!vars)
  <2> DEFINE t == Head(M_tasks)
  <2>1. t \in Tasks /\ stage[t] = "queued"
    BY <1>7, HeadQueued DEF TakeTask
  <2>2. /\ M_tasks # <<>>
        /\ M_tasks' = Tail(M_tasks)
        /\ stage' = [stage EXCEPT ![t] = "running"]
        /\ dtor' = dtor
        /\ pc[w] = "loop"
    BY <1>7 DEF TakeTask, AtLoop
  <2> HIDE DEF t
  <2>3. Running' = Running \cup {t} /\ Finished' = Finished
    BY <2>1, <2>2 DEF Running, Finished
  <2>4. dtor # "done"
    BY <2>2 DEF PhaseInv
  <2>5. Cardinality(Running) < Cardinality(Workers)
    BY <2>2, RoomForOne DEF Busy
  <2>6. Executor!Start
    BY <2>2, <2>3, <2>4, <2>5, SameCardinality DEF Executor!Start, t
  <2> QED
    BY <2>6 DEF Executor!Next
<1>8. ASSUME NEW w \in Workers, Exit(w) PROVE [Executor!Next]_(Executor!vars)
  BY <1>8 DEF Exit, Executor!vars, Running, Finished
<1>9. ASSUME NEW w \in Workers, CountDown(w)
      PROVE  [Executor!Next]_(Executor!vars)
  <2> DEFINE t == task_func[w]
  <2>1. t \in Tasks /\ stage[t] = "running"
    BY <1>9 DEF CountDown, RunningInv, Busy
  <2>2. /\ stage' = [stage EXCEPT ![t] = "done"]
        /\ UNCHANGED <<M_tasks, dtor>>
    BY <1>9 DEF CountDown
  <2> HIDE DEF t
  <2>3. Running' = Running \ {t} /\ Finished' = Finished \cup {t} /\ t \in Running
    BY <2>1, <2>2 DEF Running, Finished
  <2>4. Executor!Finish(t)
    BY <2>2, <2>3 DEF Executor!Finish
  <2>5. \E u \in Tasks : Executor!Finish(u)
    BY <2>1, <2>4
  <2> QED
    BY <2>5 DEF Executor!Next
<1>10. ASSUME NEW w \in Workers, TestCount(w)
       PROVE  [Executor!Next]_(Executor!vars)
  BY <1>10 DEF TestCount, Executor!vars, Running, Finished
<1>11. ASSUME NEW w \in Workers, TestEmpty(w)
       PROVE  [Executor!Next]_(Executor!vars)
  BY <1>11 DEF TestEmpty, Executor!vars, Running, Finished
<1>12. ASSUME DtorStop PROVE [Executor!Next]_(Executor!vars)
  <2>1. Executor!Close
    BY <1>12 DEF DtorStop, Executor!Close, Running, Finished
  <2> QED
    BY <2>1 DEF Executor!Next
<1>13. ASSUME DtorNotifyAll PROVE [Executor!Next]_(Executor!vars)
  BY <1>13 DEF DtorNotifyAll, Executor!vars, Running, Finished
<1>14. ASSUME DtorJoin PROVE [Executor!Next]_(Executor!vars)
  <2>1. M_tasks = <<>>
    BY <1>14 DEF DtorJoin, ExitInv
  <2>2. Running = {}
    BY <1>14 DEF DtorJoin, RunningInv, Busy, Running
  <2>3. UNCHANGED <<Running, Finished>>
    BY <1>14 DEF DtorJoin, Running, Finished
  <2>4. Executor!Closed
    BY <1>14, <2>1, <2>2, <2>3 DEF DtorJoin, Executor!Closed
  <2> QED
    BY <2>4 DEF Executor!Next
<1>15. CASE UNCHANGED vars
  BY <1>15 DEF vars, Executor!vars, Running, Finished
<1> QED
  BY <1>1, <1>2, <1>3, <1>4, <1>5, <1>6, <1>7, <1>8, <1>9, <1>10, <1>11,
     <1>12, <1>13, <1>14, <1>15, NextCases

-----------------------------------------------------------------------------
(* The invariant of every behaviour of the pool.                           *)
LEMMA InvHolds == SafetySpec => []Inv
<1>1. Init => Inv
  BY InitInv
<1>2. Inv /\ [Next]_vars => Inv'
  BY InvStep
<1> QED
  BY <1>1, <1>2, PTL DEF SafetySpec

(* In every behaviour the queue stays empty once the last worker has left. *)
LEMMA ExitInvHolds == SafetySpec => []ExitInv
<1>1. Init => ExitInv
  BY InitInv
<1>2. Inv /\ ExitInv /\ [Next]_vars => ExitInv'
  BY ExitStep
<1> QED
  BY <1>1, <1>2, InvHolds, PTL DEF SafetySpec

(* In every behaviour a worker about to block leaves work in the queue and, *)
(* if there are two workers, another one awake.                            *)
LEMMA EnterInvHolds == SafetySpec => []EnterInv
<1>1. Init => EnterInv
  BY InitInv
<1>2. Inv /\ EnterInv /\ [Next]_vars => EnterInv'
  BY EnterStep
<1> QED
  BY <1>1, <1>2, InvHolds, PTL DEF SafetySpec

(* The state of the pool is well-typed: in particular the deque only ever  *)
(* holds tasks, never a moved-from function (post_new_task, the loop).     *)
THEOREM TypeCorrect == SafetySpec => []TypeOK
<1>1. Inv => TypeOK
  BY DEF Inv
<1> QED
  BY <1>1, InvHolds, PTL

(* M_thread_running_count equals the number of unfinished tasks at every   *)
(* instant, although two different mutexes guard its updates.              *)
THEOREM CounterCorrect == SafetySpec => []CountExact
<1>1. Inv => CountExact
  BY DEF Inv
<1> QED
  BY <1>1, InvHolds, PTL

(* post_new_task and the worker loop neither lose, duplicate nor share a   *)
(* task, whatever the number of threads.                                   *)
THEOREM TasksKept == SafetySpec => []NoTaskLostOrDoubled
<1>1. Inv => NoTaskLostOrDoubled
  <2> SUFFICES ASSUME Inv PROVE NoTaskLostOrDoubled
    OBVIOUS
  <2>1. DOMAIN M_tasks = 1 .. Len(M_tasks)
    BY DEF Inv, TypeOK
  <2>2. \A i \in 1 .. Len(M_tasks) : M_tasks[i] \in Tasks
    BY DEF Inv, TypeOK
  <2>3. IsInjective(M_tasks)
    BY <2>1 DEF IsInjective, Inv, QueueInv
  <2>4. ToSet(M_tasks) = {t \in Tasks : stage[t] = "queued"}
    BY <2>1, <2>2 DEF ToSet, Inv, QueueInv
  <2>5. ASSUME NEW t \in Tasks, stage[t] = "running"
        PROVE  \E w \in Busy : {v \in Busy : task_func[v] = t} = {w}
    <3>1. PICK w \in Busy : task_func[w] = t
      BY <2>5 DEF Inv, RunningInv
    <3>2. {v \in Busy : task_func[v] = t} = {w}
      BY <3>1 DEF Inv, RunningInv
    <3> QED
      BY <3>1, <3>2
  <2> QED
    BY <2>3, <2>4, <2>5 DEF NoTaskLostOrDoubled
<1> QED
  BY <1>1, InvHolds, PTL

(* The unguarded store of M_stop loses no wakeup for good as soon as the   *)
(* pool has a second worker.                                               *)
THEOREM WakeupsKept == ASSUME TwoWorkers PROVE SafetySpec => []NoLostWakeup
<1>1. Init => NoLostWakeup
  BY DEF Init, NoLostWakeup
<1>2. Inv /\ EnterInv /\ NoLostWakeup /\ [Next]_vars => NoLostWakeup'
  BY WakeupStep
<1> QED
  BY <1>1, <1>2, InvHolds, EnterInvHolds, PTL DEF SafetySpec

(* `Wait all thread task done': with at least one worker, the destructor   *)
(* returns only after every task posted by anybody has finished.           *)
THEOREM AllDoneWhenDestroyed ==
  ASSUME Workers # {} PROVE SafetySpec => []AllDoneAtJoin
<1>1. Inv /\ ExitInv => AllDoneAtJoin
  <2> SUFFICES ASSUME Inv, ExitInv, dtor = "done"
               PROVE  /\ M_tasks = <<>>
                      /\ \A t \in Tasks : stage[t] \in {"new", "done"}
                      /\ M_thread_running_count = 0
    BY DEF AllDoneAtJoin
  <2>1. /\ \A w \in Workers : pc[w] = "exit"
        /\ \A c \in Clients : pc[c] = "idle"
    BY DEF Inv, PhaseInv
  <2>2. M_tasks = <<>>
    BY <2>1 DEF ExitInv
  <2>3. \A t \in Tasks : stage[t] # "posting"
    BY <2>1 DEF Inv, PostingInv, Threads
  <2>4. \A t \in Tasks : stage[t] # "queued"
    BY <2>2 DEF Inv, QueueInv
  <2>5. \A t \in Tasks : stage[t] # "running"
    BY <2>1 DEF Inv, RunningInv, Busy
  <2>6. \A t \in Tasks : stage[t] \in {"new", "done"}
    BY <2>3, <2>4, <2>5 DEF Inv, TypeOK
  <2>7. Outstanding = {}
    BY <2>6 DEF Outstanding
  <2> QED
    BY <2>2, <2>6, <2>7, FS_EmptySet DEF Inv, CountExact
<1> QED
  BY <1>1, InvHolds, ExitInvHolds, PTL

(* The pool implements the safety part of the abstract executor: each task *)
(* is started at most once, in the order of posting, and the executor is   *)
(* closed only when there is nothing left.                                 *)
THEOREM ExecutorImplemented ==
  ASSUME Workers # {} PROVE SafetySpec => Executor!SafetySpec
<1>1. Init => Executor!Init
  BY DEF Init, Executor!Init, Running, Finished, Phase
<1>2. Inv /\ ExitInv /\ [Next]_vars => [Executor!Next]_(Executor!vars)
  BY ExecutorStep
<1> QED
  BY <1>1, <1>2, InvHolds, ExitInvHolds, PTL DEF SafetySpec, Executor!SafetySpec

=============================================================================
