------------------------- MODULE ThreadManagerProofs -------------------------
(***************************************************************************)
(* Proofs about ThreadManager, for any number of threads: for programs in  *)
(* which a single thread calls init_thread before all others start, and    *)
(* what is left of it when the first calls of init_thread race.            *)
(***************************************************************************)
EXTENDS ThreadManager, FiniteSetTheorems, TLAPS

(* Only one thread may be the first to call init_thread.                   *)
Sequenced == \E u \in Users : Early = {u}

(* Until a call of init_thread has returned, nobody but the early thread   *)
(* has moved, and the flag says how far that thread is.                    *)
Before ==
  /\ M_sql_thread_ptr = NoPool
  /\ \A p \in Pools : pool[p] = "none"
  /\ told = {}
  /\ \A u \in Users : pc[u] # "idle" =>
       /\ u \in Early
       /\ pc[u] = IF M_is_thread_create THEN "create" ELSE "store"
  /\ M_is_thread_create => \E u \in Early : pc[u] = "create"

(* From then on nobody gets past the flag, and there is the one pool.      *)
After ==
  /\ M_is_thread_create
  /\ M_sql_thread_ptr \in Pools
  /\ \A p \in Pools :
       pool[p] = IF p = M_sql_thread_ptr THEN "alive" ELSE "none"
  /\ \A u \in Users : pc[u] \in {"idle", "got", "post"}
  /\ \A u \in Users : pc[u] = "post" => target[u] = M_sql_thread_ptr

Inv ==
  /\ TypeOK
  /\ inited = {} => Before
  /\ inited # {} => After

(* The manager starts with no pool and nobody inside it.                   *)
LEMMA InitInv == Init => Inv
BY DEF Init, Inv, TypeOK, Before

(* Each step of init_thread and of get_thread keeps the invariant.         *)
LEMMA InvStep ==
  ASSUME Sequenced, Inv, [Next]_vars
  PROVE  Inv'
<1> USE ConstantsAssumption DEF ConstantsAssumption, Inv
<1>1. ASSUME NEW u \in Users, CheckFlag(u) PROVE Inv'
  <2>1. CASE inited = {}
    BY <1>1, <2>1 DEF CheckFlag, IsCreated, TypeOK, Before, After, Sequenced
  <2>2. CASE inited # {}
    BY <1>1, <2>2 DEF CheckFlag, IsCreated, TypeOK, After
  <2> QED
    BY <2>1, <2>2
<1>2. ASSUME NEW u \in Users, StoreFlag(u) PROVE Inv'
  BY <1>2 DEF StoreFlag, TypeOK, Before, After, Sequenced
<1>3. ASSUME NEW u \in Users, CreatePool(u) PROVE Inv'
  <2>1. inited = {} /\ Before /\ M_is_thread_create
    BY <1>3 DEF CreatePool, Before, After
  <2>2. \A v \in Users : v # u => pc[v] = "idle"
    BY <1>3, <2>1 DEF CreatePool, Before, Sequenced
  <2>3. TypeOK'
    BY <1>3 DEF CreatePool, TypeOK
  <2>4. After'
    BY <1>3, <2>1, <2>2 DEF CreatePool, TypeOK, Before, After
  <2>5. inited' # {}
    BY <1>3 DEF CreatePool
  <2> QED
    BY <2>3, <2>4, <2>5
<1>4. ASSUME NEW u \in Users, GetThread(u) PROVE Inv'
  BY <1>4 DEF GetThread, TypeOK, After
<1>5. ASSUME NEW u \in Users, EnterPost(u) PROVE Inv'
  BY <1>5 DEF EnterPost, TypeOK, Before, After
<1>6. ASSUME NEW u \in Users, LeavePost(u) PROVE Inv'
  BY <1>6 DEF LeavePost, TypeOK, Before, After
<1>7. CASE UNCHANGED vars
  BY <1>7 DEF vars, TypeOK, Before, After
<1> QED
  BY <1>1, <1>2, <1>3, <1>4, <1>5, <1>6, <1>7 DEF Next

(* The invariant holds in every behaviour of a sequenced program.          *)
LEMMA InvHolds == ASSUME Sequenced PROVE Spec => []Inv
<1>1. Inv /\ [Next]_vars => Inv'
  BY InvStep
<1> QED
  BY <1>1, InitInv, PTL DEF Spec

(* A program whose first init_thread has returned before other threads use *)
(* the manager is never terminated by get_thread.                          *)
THEOREM SequencedIsSafe == ASSUME Sequenced PROVE Spec => []NeverTerminates
<1>1. Inv => NeverTerminates
  BY DEF Inv, TypeOK, Before, After, NeverTerminates
<1> QED
  BY <1>1, InvHolds, PTL

(* A thread that posts through the reference that get_thread returned is   *)
(* never left with a destroyed pool.                                       *)
THEOREM SequencedKeepsPool == ASSUME Sequenced PROVE Spec => []PoolOutlivesPost
<1>1. Inv => PoolOutlivesPost
  BY DEF Inv, Before, After, PoolOutlivesPost
<1> QED
  BY <1>1, InvHolds, PTL

(* Calling init_thread again, from any thread, does not create a pool.     *)
THEOREM SequencedHasOnePool == ASSUME Sequenced PROVE Spec => []OnePool
<1>1. Inv => OnePool
  <2> SUFFICES ASSUME Inv PROVE OnePool
    OBVIOUS
  <2> DEFINE Created == {p \in Pools : pool[p] # "none"}
  <2>1. CASE inited = {}
    <3>1. Created = {}
      BY <2>1 DEF Inv, Before
    <3> QED
      BY <3>1, FS_EmptySet DEF OnePool
  <2>2. CASE inited # {}
    <3>1. Created = {M_sql_thread_ptr}
      BY <2>2 DEF Inv, After
    <3> HIDE DEF Created
    <3>2. Cardinality(Created) = 1
      BY <3>1, FS_Singleton
    <3> QED
      BY <3>2 DEF Created, OnePool
  <2> QED
    BY <2>1, <2>2
<1> QED
  BY <1>1, InvHolds, PTL

-----------------------------------------------------------------------------
(* Any number of first callers.                                            *)

Created == {p \in Pools : pool[p] # "none"}

(* The threads that have passed the flag and not created their pool yet.   *)
Passed == {u \in Users : pc[u] \in {"store", "create"}}

(* No more pools than first callers, and none but the last one is kept.    *)
RaceBounded ==
  /\ Cardinality(Created) <= Cardinality(Early)
  /\ \A p \in Pools : pool[p] = "alive" <=> p = M_sql_thread_ptr

(* A thread gets past the flag only before it is stored, so once at most.  *)
RaceInv ==
  /\ TypeOK
  /\ Passed \subseteq Early
  /\ ~M_is_thread_create =>
       inited = {} /\ Created = {} /\ \A u \in Users : pc[u] # "create"
  /\ IsFiniteSet(Created)
  /\ Cardinality(Created) + Cardinality(Passed) <= Cardinality(Early)
  /\ \A p \in Pools : pool[p] = "alive" <=> p = M_sql_thread_ptr

(* How many there are of finitely many.                                    *)
LEMMA Counts ==
  ASSUME IsFiniteSet(Early), NEW S, S \subseteq Early
  PROVE  /\ IsFiniteSet(S) /\ Cardinality(S) \in Nat /\ Cardinality(Early) \in Nat
         /\ Cardinality(S) <= Cardinality(Early)
BY FS_Subset, FS_CardinalityType

(* Nothing has been created.                                               *)
LEMMA RaceInit == ASSUME IsFiniteSet(Early), Init PROVE RaceInv
<1>1. Created = {} /\ Passed = {}
  BY DEF Init, Created, Passed
<1>2. Cardinality(Created) = 0 /\ Cardinality(Passed) = 0 /\ IsFiniteSet(Created)
  BY <1>1, FS_EmptySet
<1>3. Cardinality(Early) \in Nat
  BY FS_CardinalityType
<1>4. \A p \in Pools : pool[p] = "alive" <=> p = M_sql_thread_ptr
  BY ConstantsAssumption DEF Init, ConstantsAssumption
<1>5. TypeOK
  BY DEF Init, TypeOK
<1>6. inited = {} /\ \A u \in Users : pc[u] # "create"
  BY DEF Init
<1> QED
  BY <1>1, <1>2, <1>3, <1>4, <1>5, <1>6 DEF RaceInv

(* What a step does to the pools and to those who may create one.          *)
LEMMA RaceStep ==
  ASSUME IsFiniteSet(Early), RaceInv, [Next]_vars PROVE RaceInv'
<1> USE DEF RaceInv, TypeOK
<1>1. ASSUME NEW u \in Users, CheckFlag(u) PROVE RaceInv'
  <2>1. CASE IsCreated
    <3>1. UNCHANGED <<Created, Passed>>
      BY <1>1, <2>1 DEF CheckFlag, Created, Passed
    <3> QED
      BY <1>1, <2>1, <3>1 DEF CheckFlag, IsCreated
  <2>2. CASE ~IsCreated
    <3>1. /\ ~M_is_thread_create /\ u \in Early /\ Created = {} /\ UNCHANGED Created
          /\ Passed' \subseteq Passed \cup {u}
      BY <1>1, <2>2 DEF CheckFlag, IsCreated, Created, Passed
    <3>2. Passed' \subseteq Early
      BY <3>1
    <3>3. /\ Cardinality(Passed') \in Nat /\ Cardinality(Passed') <= Cardinality(Early)
          /\ Cardinality(Created') = 0
      BY <3>1, <3>2, Counts, FS_EmptySet
    <3>4. Cardinality(Created') + Cardinality(Passed') <= Cardinality(Early)
      BY <3>3
    <3> QED
      BY <1>1, <2>2, <3>1, <3>2, <3>4 DEF CheckFlag
  <2> QED
    BY <2>1, <2>2
<1>2. ASSUME NEW u \in Users, StoreFlag(u) PROVE RaceInv'
  <2>1. UNCHANGED <<Created, Passed>>
    BY <1>2 DEF StoreFlag, Created, Passed
  <2> QED
    BY <1>2, <2>1 DEF StoreFlag
<1>3. ASSUME NEW u \in Users, CreatePool(u) PROVE RaceInv'
  <2>1. PICK p \in Pools :
          /\ pool[p] = "none"
          /\ pool' = [q \in Pools |-> IF q = p THEN "alive"
                                      ELSE IF q = M_sql_thread_ptr THEN "destroyed"
                                      ELSE pool[q]]
          /\ M_sql_thread_ptr' = p
    BY <1>3 DEF CreatePool
  <2>2. Created' = Created \cup {p} /\ p \notin Created
    BY <2>1 DEF Created
  <2>3. Passed' = Passed \ {u} /\ u \in Passed
    BY <1>3 DEF CreatePool, Passed
  <2>4. /\ IsFiniteSet(Created') /\ Cardinality(Created') = Cardinality(Created) + 1
        /\ Cardinality(Created) \in Nat
    BY <2>2, FS_AddElement, FS_CardinalityType
  <2>5. /\ Cardinality(Passed') = Cardinality(Passed) - 1
        /\ Cardinality(Passed) \in Nat /\ Cardinality(Early) \in Nat
    BY <2>3, Counts, FS_RemoveElement
  <2>6. Cardinality(Created') + Cardinality(Passed') <= Cardinality(Early)
    BY <2>4, <2>5
  <2>7. M_is_thread_create
    BY <1>3 DEF CreatePool
  <2>8. \A q \in Pools : pool'[q] = "alive" <=> q = M_sql_thread_ptr'
    BY <2>1
  <2>9. TypeOK'
    BY <1>3, <2>1 DEF CreatePool
  <2> QED
    BY <1>3, <2>3, <2>4, <2>6, <2>7, <2>8, <2>9 DEF CreatePool
<1>4. ASSUME NEW u \in Users, GetThread(u) \/ EnterPost(u) \/ LeavePost(u)
      PROVE  RaceInv'
  <2>1. UNCHANGED <<Created, Passed>>
    BY <1>4 DEF GetThread, EnterPost, LeavePost, Created, Passed
  <2> QED
    BY <1>4, <2>1 DEF GetThread, EnterPost, LeavePost
<1>5. CASE UNCHANGED vars
  <2>1. UNCHANGED <<Created, Passed>>
    BY <1>5 DEF vars, Created, Passed
  <2> QED
    BY <1>5, <2>1 DEF vars
<1> QED
  BY <1>1, <1>2, <1>3, <1>4, <1>5 DEF Next

(* However many threads make the first call of init_thread at once, no     *)
(* more pools are created than there are such threads, and all but the one *)
(* that get_thread hands out are destroyed: the race loses no pool.        *)
THEOREM RaceIsBounded == ASSUME IsFiniteSet(Early) PROVE Spec => []RaceBounded
<1>1. Init => RaceInv
  BY RaceInit
<1>2. RaceInv /\ [Next]_vars => RaceInv'
  BY RaceStep
<1>3. RaceInv => RaceBounded
  <2> SUFFICES ASSUME RaceInv PROVE Cardinality(Created) <= Cardinality(Early)
    BY DEF RaceInv, RaceBounded
  <2>1. /\ Cardinality(Created) \in Nat /\ Cardinality(Passed) \in Nat
        /\ Cardinality(Early) \in Nat
    BY Counts, FS_CardinalityType DEF RaceInv
  <2> QED
    BY <2>1 DEF RaceInv
<1> QED
  BY <1>1, <1>2, <1>3, PTL DEF Spec
=============================================================================
