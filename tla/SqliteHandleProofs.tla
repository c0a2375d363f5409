-------------------------- MODULE SqliteHandleProofs --------------------------
(***************************************************************************)
(* Proofs about SqliteHandle, for any number of objects, connections and   *)
(* statements.                                                             *)
(***************************************************************************)
EXTENDS SqliteHandle, TLAPS

(* Without the move constructor, what an object holds is its own and has   *)
(* not been taken back.                                                    *)
Held ==
  ~copied =>
    /\ ~undefined
    /\ \A o \in Alive :
         /\ M_sqlite_ptr[o] # Null => conn[M_sqlite_ptr[o]] = "open"
         /\ M_sqlite_stmt[o] # Null => stmt[M_sqlite_stmt[o]] = "compiled"
    /\ \A o, p \in Alive : o # p =>
         /\ M_sqlite_ptr[o] = M_sqlite_ptr[p] => M_sqlite_ptr[o] = Null
         /\ M_sqlite_stmt[o] = M_sqlite_stmt[p] => M_sqlite_stmt[o] = Null

(* Whatever is compiled keeps its connection open, and somebody still has  *)
(* both of them, unless they were dropped.                                 *)
Accounted ==
  /\ \A s \in Stmts : stmt[s] = "compiled" =>
       /\ owner[s] \in Conns
       /\ conn[owner[s]] = "open"
       /\ owner[s] \in dropped \/ \E o \in Alive : M_sqlite_stmt[o] = s
  /\ \A o \in Alive, s \in Stmts : M_sqlite_stmt[o] = s /\ stmt[s] = "compiled" =>
       owner[s] = M_sqlite_ptr[o] \/ owner[s] \in dropped
  /\ \A o \in Alive : M_sqlite_stmt[o] # Null => stmt[M_sqlite_stmt[o]] # "unused"
  /\ \A d \in Conns : conn[d] = "open" =>
       d \in dropped \/ \E o \in Alive : M_sqlite_ptr[o] = d

(* An object that is not constructed yet has nothing.                      *)
Fresh ==
  \A o \in Objects : life[o] = "none" =>
    M_sqlite_ptr[o] = Null /\ M_sqlite_stmt[o] = Null

Inv == TypeOK /\ Fresh /\ Held /\ Accounted

(* There are no objects at first.                                          *)
LEMMA InitInv == Init => Inv
<1> SUFFICES ASSUME Init PROVE Inv
  OBVIOUS
<1>1. TypeOK
  BY DEF Init, TypeOK
<1>4. Fresh
  BY DEF Init, Fresh
<1>2. Alive = {}
  BY DEF Init, Alive
<1>3. Held /\ Accounted
  BY <1>2 DEF Init, Held, Accounted
<1> QED
  BY <1>1, <1>3, <1>4 DEF Inv

(* Every method leaves the variables in their types.                       *)
LEMMA TypeStep ==
  ASSUME Inv, [Next]_vars
  PROVE  TypeOK'
<1> USE ConstantsAssumption DEF ConstantsAssumption, TypeOK, Alive, Inv
<1>1. ASSUME NEW o \in Objects, Construct(o) PROVE TypeOK'
  BY <1>1 DEF Construct
<1>2. ASSUME NEW o \in Objects, Open(o) PROVE TypeOK'
  BY <1>2 DEF Open, OpenConn
<1>3. ASSUME NEW o \in Objects, Compile(o) PROVE TypeOK'
  <2>1. ConnOf(M_sqlite_stmt[o]) \subseteq Conns
    BY DEF ConnOf, Accounted
  <2>2. M_sqlite_ptr[o] \in Conns
    BY <1>3 DEF Compile
  <2>3. dropped' \subseteq Conns /\ undefined' \in BOOLEAN
    BY <1>3, <2>1 DEF Compile
  <2>4. /\ M_sqlite_stmt' \in [Objects -> Stmts \cup {Null}]
        /\ stmt' \in [Stmts -> {"unused", "compiled", "finalized"}]
        /\ owner' \in [Stmts -> Conns \cup {Null}]
    <3>1. CASE \E s \in Stmts : stmt' = [stmt EXCEPT ![s] = "compiled"]
                              /\ owner' = [owner EXCEPT ![s] = M_sqlite_ptr[o]]
                              /\ M_sqlite_stmt' = [M_sqlite_stmt EXCEPT ![o] = s]
      BY <3>1, <2>2
    <3>2. CASE /\ UNCHANGED <<stmt, owner>>
               /\ \/ UNCHANGED M_sqlite_stmt
                  \/ M_sqlite_stmt' = [M_sqlite_stmt EXCEPT ![o] = Null]
      BY <3>2
    <3> QED
      BY <1>3, <3>1, <3>2 DEF Compile
  <2> QED
    BY <1>3, <2>3, <2>4 DEF Compile
<1>4. ASSUME NEW o \in Objects, Destroy(o) PROVE TypeOK'
  BY <1>4 DEF Destroy, TakenBack
<1>5. ASSUME NEW o \in Objects, NEW from \in Objects, MoveConstruct(o, from)
      PROVE TypeOK'
  BY <1>5 DEF MoveConstruct
<1>6. ASSUME NEW o \in Objects, NEW from \in Objects, MoveAssign(o, from)
      PROVE TypeOK'
  <2>1. ConnOf(M_sqlite_stmt[o]) \subseteq Conns
    BY DEF ConnOf, Accounted
  <2> QED
    BY <1>6, <2>1 DEF MoveAssign, MovesTo, OpenConn
<1>7. CASE UNCHANGED vars
  BY <1>7 DEF vars
<1> QED
  BY <1>1, <1>2, <1>3, <1>4, <1>5, <1>6, <1>7 DEF Next, Ended

(* Unless it is copied, what an object holds stays its own: an assignment  *)
(* takes it from the source, and the library hands out nothing twice.      *)
LEMMA HeldStep ==
  ASSUME Inv, [Next]_vars
  PROVE  Held'
<1> USE ConstantsAssumption DEF ConstantsAssumption, TypeOK, Alive, Inv
<1>1. ASSUME NEW o \in Objects, Construct(o) PROVE Held'
  BY <1>1 DEF Construct, Held, Fresh
<1>2. ASSUME NEW o \in Objects, Open(o) PROVE Held'
  BY <1>2 DEF Open, Held
<1>3. ASSUME NEW o \in Objects, Compile(o) PROVE Held'
  BY <1>3 DEF Compile, Held
<1>4. ASSUME NEW o \in Objects, Destroy(o) PROVE Held'
  BY <1>4 DEF Destroy, TakenBack, Held
<1>5. ASSUME NEW o \in Objects, NEW from \in Objects, MoveConstruct(o, from)
      PROVE Held'
  <2> SUFFICES ASSUME ~copied' PROVE Held'
    BY DEF Held
  <2>1. ~copied /\ M_sqlite_ptr[from] = Null /\ M_sqlite_stmt[from] = Null
    BY <1>5 DEF MoveConstruct
  <2>2. UNCHANGED <<M_sqlite_ptr, M_sqlite_stmt, conn, stmt, undefined>>
    BY <1>5, <2>1 DEF MoveConstruct, Fresh
  <2>3. M_sqlite_ptr[o] = Null /\ M_sqlite_stmt[o] = Null
    BY <1>5 DEF MoveConstruct, Fresh
  <2>4. \A p \in Objects : p # o => life'[p] = life[p]
    BY <1>5 DEF MoveConstruct
  <2> QED
    BY <2>1, <2>2, <2>3, <2>4 DEF Held
<1>6. ASSUME NEW o \in Objects, NEW from \in Objects, MoveAssign(o, from)
      PROVE Held'
  BY <1>6 DEF MoveAssign, MovesTo, Held
<1>7. CASE UNCHANGED vars
  BY <1>7 DEF vars, Held
<1> QED
  BY <1>1, <1>2, <1>3, <1>4, <1>5, <1>6, <1>7 DEF Next, Ended

(* Only objects that are alive get anything.                               *)
LEMMA FreshStep ==
  ASSUME Inv, [Next]_vars
  PROVE  Fresh'
<1> USE DEF TypeOK, Alive, Inv, Fresh
<1>1. ASSUME NEW o \in Objects, Construct(o) \/ Open(o) \/ Compile(o) \/ Destroy(o)
      PROVE  Fresh'
  BY <1>1 DEF Construct, Open, Compile, Destroy
<1>2. ASSUME NEW o \in Objects, NEW from \in Objects,
             MoveConstruct(o, from) \/ MoveAssign(o, from)
      PROVE  Fresh'
  BY <1>2 DEF MoveConstruct, MoveAssign, MovesTo
<1>3. CASE UNCHANGED vars
  BY <1>3 DEF vars
<1> QED
  BY <1>1, <1>2, <1>3 DEF Next, Ended

(* What a method lets go of is noted as dropped, and a move only hands     *)
(* things on. The destructor leaves a connection open only if a statement  *)
(* of another object, or a dropped one, is still compiled on it.           *)
LEMMA AccountedStep ==
  ASSUME Inv, [Next]_vars
  PROVE  Accounted'
<1> USE ConstantsAssumption DEF ConstantsAssumption, TypeOK, Inv
<1>1. ASSUME NEW o \in Objects, Construct(o) PROVE Accounted'
  BY <1>1 DEF Construct, Accounted, Fresh, Alive
<1>2. ASSUME NEW o \in Objects, Open(o) PROVE Accounted'
  BY <1>2 DEF Open, OpenConn, Accounted, Alive
<1>3. ASSUME NEW o \in Objects, Compile(o) PROVE Accounted'
  <2> USE DEF Accounted, Alive
  <2>1. /\ o \in Alive
        /\ M_sqlite_ptr[o] \in Conns
        /\ UNCHANGED <<M_sqlite_ptr, life, conn>>
    BY <1>3 DEF Compile
  <2>2. CASE UNCHANGED <<M_sqlite_stmt, stmt, owner, dropped>>
    BY <2>1, <2>2
  <2>3. CASE /\ M_sqlite_stmt' = [M_sqlite_stmt EXCEPT ![o] = Null]
             /\ UNCHANGED <<stmt, owner>>
             /\ dropped' = dropped \cup ConnOf(M_sqlite_stmt[o])
    BY <2>1, <2>3 DEF ConnOf
  <2>4. ASSUME NEW s \in Stmts,
               stmt[s] = "unused",
               stmt' = [stmt EXCEPT ![s] = "compiled"],
               owner' = [owner EXCEPT ![s] = M_sqlite_ptr[o]],
               M_sqlite_stmt' = [M_sqlite_stmt EXCEPT ![o] = s],
               conn[M_sqlite_ptr[o]] = "open",
               dropped' = dropped \cup ConnOf(M_sqlite_stmt[o])
        PROVE  Accounted'
    <3>1. ASSUME NEW t \in Stmts, stmt'[t] = "compiled"
          PROVE  /\ owner'[t] \in Conns
                 /\ conn'[owner'[t]] = "open"
                 /\ owner'[t] \in dropped' \/ \E p \in Alive' : M_sqlite_stmt'[p] = t
      <4>1. CASE t = s
        BY <2>1, <2>4, <4>1
      <4>2. CASE t # s
        BY <2>1, <2>4, <3>1, <4>2 DEF ConnOf
      <4> QED
        BY <4>1, <4>2
    <3>2. ASSUME NEW p \in Alive', NEW t \in Stmts,
                 M_sqlite_stmt'[p] = t, stmt'[t] = "compiled"
          PROVE  owner'[t] = M_sqlite_ptr'[p] \/ owner'[t] \in dropped'
      <4>1. CASE p = o
        BY <2>1, <2>4, <3>2, <4>1
      <4>2. CASE p # o
        BY <2>1, <2>4, <3>2, <4>2
      <4> QED
        BY <4>1, <4>2
    <3>3. ASSUME NEW d \in Conns, conn'[d] = "open"
          PROVE  d \in dropped' \/ \E p \in Alive' : M_sqlite_ptr'[p] = d
      BY <2>1, <2>4, <3>3
    <3>4. ASSUME NEW p \in Alive', M_sqlite_stmt'[p] # Null
          PROVE  stmt'[M_sqlite_stmt'[p]] # "unused"
      BY <2>1, <2>4, <3>4
    <3> QED
      BY <3>1, <3>2, <3>3, <3>4
  <2> QED
    BY <1>3, <2>2, <2>3, <2>4 DEF Compile
<1>4. ASSUME NEW o \in Objects, Destroy(o) PROVE Accounted'
  BY <1>4 DEF Destroy, CompiledOn, Accounted, Alive
<1>5. ASSUME NEW o \in Objects, NEW from \in Objects, MoveConstruct(o, from)
      PROVE Accounted'
  BY <1>5 DEF MoveConstruct, Accounted, Alive
<1>6. ASSUME NEW o \in Objects, NEW from \in Objects, MoveAssign(o, from)
      PROVE Accounted'
  BY <1>6 DEF MoveAssign, MovesTo, OpenConn, ConnOf, Accounted, Alive
<1>7. CASE UNCHANGED vars
  BY <1>7 DEF vars, Accounted, Alive
<1> QED
  BY <1>1, <1>2, <1>3, <1>4, <1>5, <1>6, <1>7 DEF Next, Ended

(* The invariant holds in every behaviour.                                 *)
LEMMA InvHolds == Spec => []Inv
<1>1. Inv /\ [Next]_vars => Inv'
  BY TypeStep, FreshStep, HeldStep, AccountedStep DEF Inv
<1> QED
  BY <1>1, InitInv, PTL DEF Spec

(* The variables keep their types.                                         *)
THEOREM TypeCorrect == Spec => []TypeOK
<1>1. Inv => TypeOK
  BY DEF Inv
<1> QED
  BY <1>1, InvHolds, PTL

(* A program that never uses the move constructor never has the library    *)
(* given something that it has taken back, however its objects are         *)
(* assigned to each other and destroyed.                                   *)
THEOREM MoveAssignmentIsSafe == Spec => []UndefinedOnlyByMoveConstructor
<1>1. Inv => UndefinedOnlyByMoveConstructor
  BY DEF Inv, TypeOK, Held, UndefinedOnlyByMoveConstructor
<1> QED
  BY <1>1, InvHolds, PTL

(* In such a program no two objects ever have the same connection or the   *)
(* same statement: an assignment takes both away from its source.          *)
THEOREM MoveAssignmentSharesNothing == Spec => []NothingShared
<1>1. Inv => NothingShared
  BY DEF Inv, Held, NothingShared
<1> QED
  BY <1>1, InvHolds, PTL

(* A connection outlives its object only if a method has dropped it or one *)
(* of its statements: no order of moves and destructors leaks another.     *)
THEOREM LeaksAreDropped == Spec => []OnlyDroppedLeak
<1>1. Inv => OnlyDroppedLeak
  BY DEF Inv, Accounted, OnlyDroppedLeak
<1> QED
  BY <1>1, InvHolds, PTL
=============================================================================
