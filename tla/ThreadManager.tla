---------------------------- MODULE ThreadManager ----------------------------
(***************************************************************************)
(* The singleton of include/aleph/thread/thread_manager.hpp: init_thread   *)
(* creates the thread pool once, get_thread hands out a reference to the   *)
(* shared pointer to it. Neither takes a lock: init_thread loads an atomic *)
(* flag, stores it and only then creates the pool.                         *)
(***************************************************************************)
EXTENDS Naturals, FiniteSets

CONSTANTS
  Users,    \* the threads of the program
  Early,    \* those that call init_thread on their own account; the others
            \* wait until some call of init_thread has returned
  Pools,    \* the pools that can be created (a bound)
  NoPool    \* the null pointer

ASSUME ConstantsAssumption ==
  /\ Early \subseteq Users
  /\ NoPool \notin Pools

VARIABLES
  M_is_thread_create,  \* the atomic flag
  M_sql_thread_ptr,    \* the shared pointer to the pool
  pool,                \* what has become of each pool
  pc,                  \* where each thread is
  target,              \* the pool whose post_new_task a thread is inside
  inited,              \* history: the threads whose init_thread returned
  told                 \* history: those that were told `already initialized'

vars == <<M_is_thread_create, M_sql_thread_ptr, pool, pc, target, inited, told>>

TypeOK ==
  /\ M_is_thread_create \in BOOLEAN
  /\ M_sql_thread_ptr \in Pools \cup {NoPool}
  /\ pool \in [Pools -> {"none", "alive", "destroyed"}]
  /\ pc \in [Users -> {"idle", "store", "create", "got", "post", "terminated"}]
  /\ target \in [Users -> Pools \cup {NoPool}]
  /\ inited \in SUBSET Users
  /\ told \in SUBSET Users

Init ==
  /\ M_is_thread_create = FALSE
  /\ M_sql_thread_ptr = NoPool
  /\ pool = [p \in Pools |-> "none"]
  /\ pc = [u \in Users |-> "idle"]
  /\ target = [u \in Users |-> NoPool]
  /\ inited = {}
  /\ told = {}

-----------------------------------------------------------------------------
(* init_thread *)

(* Mutant of IsCreated: the flag is not looked at.                         *)
NeverCreated == FALSE

(* The condition of the early return.                                      *)
IsCreated == M_is_thread_create

CheckFlag(u) ==
  /\ pc[u] = "idle"
  /\ u \in Early \/ inited # {}
  /\ \/ /\ IsCreated
        /\ told' = told \cup {u}
        /\ inited' = inited \cup {u}
        /\ UNCHANGED pc
     \/ /\ ~IsCreated
        /\ pc' = [pc EXCEPT ![u] = "store"]
        /\ UNCHANGED <<told, inited>>
  /\ UNCHANGED <<M_is_thread_create, M_sql_thread_ptr, pool, target>>

(* Mutant of StoreFlag: init_thread returns without a pool.                *)
StoreFlagOnly(u) ==
  /\ pc[u] = "store"
  /\ M_is_thread_create' = TRUE
  /\ pc' = [pc EXCEPT ![u] = "idle"]
  /\ inited' = inited \cup {u}
  /\ UNCHANGED <<M_sql_thread_ptr, pool, target, told>>

StoreFlag(u) ==
  /\ pc[u] = "store"
  /\ M_is_thread_create' = TRUE
  /\ pc' = [pc EXCEPT ![u] = "create"]
  /\ UNCHANGED <<M_sql_thread_ptr, pool, target, inited, told>>

(* make_shared and the assignment, which destroys a pool that was there.   *)
CreatePool(u) ==
  /\ pc[u] = "create"
  /\ \E p \in Pools :
       /\ pool[p] = "none"
       /\ pool' = [q \in Pools |-> IF q = p THEN "alive"
                                   ELSE IF q = M_sql_thread_ptr THEN "destroyed"
                                   ELSE pool[q]]
       /\ M_sql_thread_ptr' = p
  /\ pc' = [pc EXCEPT ![u] = "idle"]
  /\ inited' = inited \cup {u}
  /\ UNCHANGED <<M_is_thread_create, target, told>>

-----------------------------------------------------------------------------
(* get_thread()->post_new_task(...), by programs that know of a call of    *)
(* init_thread that has returned. The `throw;' of get_thread has nothing   *)
(* to rethrow and terminates the program.                                  *)

GetThread(u) ==
  /\ pc[u] = "idle"
  /\ inited # {}
  /\ pc' = [pc EXCEPT ![u] = IF M_sql_thread_ptr = NoPool THEN "terminated"
                                                          ELSE "got"]
  /\ UNCHANGED <<M_is_thread_create, M_sql_thread_ptr, pool, target, inited, told>>

(* What get_thread returned is a reference: the pointer is read now.       *)
EnterPost(u) ==
  /\ pc[u] = "got"
  /\ target' = [target EXCEPT ![u] = M_sql_thread_ptr]
  /\ pc' = [pc EXCEPT ![u] = "post"]
  /\ UNCHANGED <<M_is_thread_create, M_sql_thread_ptr, pool, inited, told>>

LeavePost(u) ==
  /\ pc[u] = "post"
  /\ target' = [target EXCEPT ![u] = NoPool]
  /\ pc' = [pc EXCEPT ![u] = "idle"]
  /\ UNCHANGED <<M_is_thread_create, M_sql_thread_ptr, pool, inited, told>>

Next ==
  \E u \in Users :
    \/ CheckFlag(u) \/ StoreFlag(u) \/ CreatePool(u)
    \/ GetThread(u) \/ EnterPost(u) \/ LeavePost(u)

Spec == Init /\ [][Next]_vars

-----------------------------------------------------------------------------
(* Properties.                                                             *)

(* get_thread never terminates a program that initialised the pool first.  *)
NeverTerminates == \A u \in Users : pc[u] # "terminated"

(* However often and from wherever init_thread is called again, the pool   *)
(* that get_thread hands out stays the same one.                           *)
OnePool == Cardinality({p \in Pools : pool[p] # "none"}) <= 1

(* No pool is destroyed while some thread is inside its post_new_task.     *)
PoolOutlivesPost ==
  \A u \in Users : pc[u] = "post" => pool[target[u]] = "alive"

(* The comment and the warning of init_thread: once a caller has returned  *)
(* with `Thread manager already initialized' there is a pool. The flag     *)
(* that it was told so by is stored before the pool is created.            *)
AlreadyMeansReady == told # {} => M_sql_thread_ptr # NoPool
=============================================================================
