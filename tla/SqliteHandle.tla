------------------------------ MODULE SqliteHandle ------------------------------
(***************************************************************************)
(* Several sql_database_sqlite3 objects and what each of them owns: the    *)
(* constructors, the move constructor, the move assignment, the destructor *)
(* and, of the other methods, only what they do to the two pointers.       *)
(*                                                                         *)
(* The library hands out connections and statements, takes them back in    *)
(* sqlite3_close and sqlite3_finalize, and must not be given one that it   *)
(* has taken back: what happens then is undefined, and the model stops.    *)
(***************************************************************************)
EXTENDS Naturals, FiniteSets

CONSTANTS
  Objects,   \* the objects a program can construct (a bound)
  Conns,     \* the connections that can be opened (a bound)
  Stmts,     \* the statements that can be compiled (a bound)
  Null       \* the null pointer

ASSUME ConstantsAssumption ==
  /\ Null \notin Conns
  /\ Null \notin Stmts

VARIABLES
  M_sqlite_ptr,    \* the connection of each object
  M_sqlite_stmt,   \* the statement of each object
  life,            \* of each object: "none", "alive" or "destroyed"
  conn,            \* the state of each connection inside the library
  stmt,            \* the state of each statement inside the library
  owner,           \* the connection on which each statement was compiled
  undefined,       \* the library was given something it had taken back
  copied,          \* history: a move constructor has copied a pointer
  dropped          \* history: the connections that a method has let go of,
                   \* or that have a statement which a method has let go of

vars == <<M_sqlite_ptr, M_sqlite_stmt, life, conn, stmt, owner, undefined,
          copied, dropped>>

TypeOK ==
  /\ M_sqlite_ptr \in [Objects -> Conns \cup {Null}]
  /\ M_sqlite_stmt \in [Objects -> Stmts \cup {Null}]
  /\ life \in [Objects -> {"none", "alive", "destroyed"}]
  /\ conn \in [Conns -> {"unused", "open", "closed"}]
  /\ stmt \in [Stmts -> {"unused", "compiled", "finalized"}]
  /\ owner \in [Stmts -> Conns \cup {Null}]
  /\ undefined \in BOOLEAN
  /\ copied \in BOOLEAN
  /\ dropped \in SUBSET Conns

Init ==
  /\ M_sqlite_ptr = [o \in Objects |-> Null]
  /\ M_sqlite_stmt = [o \in Objects |-> Null]
  /\ life = [o \in Objects |-> "none"]
  /\ conn = [d \in Conns |-> "unused"]
  /\ stmt = [s \in Stmts |-> "unused"]
  /\ owner = [s \in Stmts |-> Null]
  /\ undefined = FALSE
  /\ copied = FALSE
  /\ dropped = {}

Alive == {o \in Objects : life[o] = "alive"}

(* The connection of a statement that is still compiled.                   *)
ConnOf(s) == IF s = Null \/ stmt[s] # "compiled" THEN {} ELSE {owner[s]}

(* The connection itself, while it is open.                                *)
OpenConn(d) == IF d = Null \/ conn[d] # "open" THEN {} ELSE {d}

-----------------------------------------------------------------------------
Construct(o) ==
  /\ ~undefined
  /\ life[o] = "none"
  /\ life' = [life EXCEPT ![o] = "alive"]
  /\ UNCHANGED <<M_sqlite_ptr, M_sqlite_stmt, conn, stmt, owner, undefined,
                 copied, dropped>>

(* The move constructor: both pointers are copied, and stay in the source. *)
MoveConstruct(o, from) ==
  /\ ~undefined
  /\ life[o] = "none"
  /\ from \in Alive
  /\ life' = [life EXCEPT ![o] = "alive"]
  /\ M_sqlite_ptr' = [M_sqlite_ptr EXCEPT ![o] = M_sqlite_ptr[from]]
  /\ M_sqlite_stmt' = [M_sqlite_stmt EXCEPT ![o] = M_sqlite_stmt[from]]
  /\ copied' = (copied \/ M_sqlite_ptr[from] # Null \/ M_sqlite_stmt[from] # Null)
  /\ UNCHANGED <<conn, stmt, owner, undefined, dropped>>

(* Mutant of MovesTo: an object that is assigned to itself is moved, too.  *)
MovesAlways(o, from) ==
  /\ M_sqlite_ptr' = [M_sqlite_ptr EXCEPT ![o] = M_sqlite_ptr[from], ![from] = Null]
  /\ M_sqlite_stmt' = [M_sqlite_stmt EXCEPT ![o] = M_sqlite_stmt[from],
                                            ![from] = Null]
  /\ dropped' = IF o = from THEN dropped
                ELSE dropped \cup OpenConn(M_sqlite_ptr[o]) \cup ConnOf(M_sqlite_stmt[o])

(* Mutant of MovesTo: the source keeps its statement.                      *)
MovesConnection(o, from) ==
  /\ o # from
  /\ M_sqlite_ptr' = [M_sqlite_ptr EXCEPT ![o] = M_sqlite_ptr[from], ![from] = Null]
  /\ M_sqlite_stmt' = [M_sqlite_stmt EXCEPT ![o] = M_sqlite_stmt[from]]
  /\ dropped' = dropped \cup OpenConn(M_sqlite_ptr[o]) \cup ConnOf(M_sqlite_stmt[o])

(* What the target had is neither finalized nor closed.                    *)
MovesTo(o, from) ==
  \/ o = from /\ UNCHANGED <<M_sqlite_ptr, M_sqlite_stmt, dropped>>
  \/ /\ o # from
     /\ M_sqlite_ptr' = [M_sqlite_ptr EXCEPT ![o] = M_sqlite_ptr[from], ![from] = Null]
     /\ M_sqlite_stmt' = [M_sqlite_stmt EXCEPT ![o] = M_sqlite_stmt[from],
                                               ![from] = Null]
     /\ dropped' = dropped \cup OpenConn(M_sqlite_ptr[o]) \cup ConnOf(M_sqlite_stmt[o])

(* The move assignment.                                                    *)
MoveAssign(o, from) ==
  /\ ~undefined
  /\ o \in Alive /\ from \in Alive
  /\ MovesTo(o, from)
  /\ UNCHANGED <<life, conn, stmt, owner, undefined, copied>>

(* open_sqlite_database: whatever sqlite3_open_v2 stores replaces the      *)
(* connection that was there; without memory that is null.                 *)
Open(o) ==
  /\ ~undefined
  /\ o \in Alive
  /\ \/ M_sqlite_ptr' = [M_sqlite_ptr EXCEPT ![o] = Null] /\ UNCHANGED conn
     \/ \E d \in Conns :
          /\ conn[d] = "unused"
          /\ conn' = [conn EXCEPT ![d] = "open"]
          /\ M_sqlite_ptr' = [M_sqlite_ptr EXCEPT ![o] = d]
  /\ dropped' = dropped \cup OpenConn(M_sqlite_ptr[o])
  /\ UNCHANGED <<M_sqlite_stmt, life, stmt, owner, undefined, copied>>

(* execute_sqlite and execute_sqlite_select compile a statement, or store  *)
(* null when they fail, on the connection they have.                       *)
Compile(o) ==
  /\ ~undefined
  /\ o \in Alive
  /\ M_sqlite_ptr[o] # Null
  /\ \/ /\ conn[M_sqlite_ptr[o]] = "closed"
        /\ undefined' = TRUE
        /\ UNCHANGED <<M_sqlite_stmt, stmt, owner, dropped>>
     \/ /\ conn[M_sqlite_ptr[o]] = "open"
        /\ \/ M_sqlite_stmt' = [M_sqlite_stmt EXCEPT ![o] = Null]
              /\ UNCHANGED <<stmt, owner>>
           \/ \E s \in Stmts :
                /\ stmt[s] = "unused"
                /\ stmt' = [stmt EXCEPT ![s] = "compiled"]
                /\ owner' = [owner EXCEPT ![s] = M_sqlite_ptr[o]]
                /\ M_sqlite_stmt' = [M_sqlite_stmt EXCEPT ![o] = s]
        /\ dropped' = dropped \cup ConnOf(M_sqlite_stmt[o])
        /\ UNCHANGED undefined
  /\ UNCHANGED <<M_sqlite_ptr, life, conn, copied>>

-----------------------------------------------------------------------------
(* The destructor: finalize, then close, which the library refuses while   *)
(* the connection has compiled statements. Null is accepted by both.       *)

TakenBack(o) ==
  \/ M_sqlite_stmt[o] # Null /\ stmt[M_sqlite_stmt[o]] = "finalized"
  \/ M_sqlite_ptr[o] # Null /\ conn[M_sqlite_ptr[o]] = "closed"

CompiledOn(d) == {s \in Stmts : owner[s] = d /\ stmt[s] = "compiled"}

(* Mutant of Destroy: the connection is closed before the statement is     *)
(* finalized.                                                              *)
DestroyCloseFirst(o) ==
  /\ ~undefined
  /\ o \in Alive
  /\ life' = [life EXCEPT ![o] = "destroyed"]
  /\ undefined' = TakenBack(o)
  /\ stmt' = [s \in Stmts |-> IF s = M_sqlite_stmt[o] THEN "finalized" ELSE stmt[s]]
  /\ conn' = [d \in Conns |-> IF d = M_sqlite_ptr[o] /\ CompiledOn(d) = {}
                              THEN "closed" ELSE conn[d]]
  /\ UNCHANGED <<M_sqlite_ptr, M_sqlite_stmt, owner, copied, dropped>>

Destroy(o) ==
  /\ ~undefined
  /\ o \in Alive
  /\ life' = [life EXCEPT ![o] = "destroyed"]
  /\ undefined' = TakenBack(o)
  /\ stmt' = [s \in Stmts |-> IF s = M_sqlite_stmt[o] THEN "finalized" ELSE stmt[s]]
  /\ conn' = [d \in Conns |->
                IF d = M_sqlite_ptr[o] /\ CompiledOn(d) \subseteq {M_sqlite_stmt[o]}
                THEN "closed" ELSE conn[d]]
  /\ UNCHANGED <<M_sqlite_ptr, M_sqlite_stmt, owner, copied, dropped>>

(* The end of the program, or of what can be said about it.                *)
Ended ==
  /\ undefined \/ \A o \in Objects : life[o] = "destroyed"
  /\ UNCHANGED vars

Next ==
  \/ \E o \in Objects : Construct(o) \/ Open(o) \/ Compile(o) \/ Destroy(o)
  \/ \E o, from \in Objects : MoveConstruct(o, from) \/ MoveAssign(o, from)
  \/ Ended

Spec == Init /\ [][Next]_vars

-----------------------------------------------------------------------------
(* Properties.                                                             *)

(* Nothing is given back to the library twice, or used afterwards, unless  *)
(* an object was made by the move constructor.                             *)
UndefinedOnlyByMoveConstructor == undefined => copied

(* Without the move constructor no two objects share a connection or a     *)
(* statement, however they are assigned to each other.                     *)
NothingShared ==
  ~copied => \A o, p \in Alive : o # p =>
    /\ M_sqlite_ptr[o] = M_sqlite_ptr[p] => M_sqlite_ptr[o] = Null
    /\ M_sqlite_stmt[o] = M_sqlite_stmt[p] => M_sqlite_stmt[o] = Null

(* Every connection is closed in the end, but for those that were          *)
(* overwritten by a second open or by a move assignment, or had a          *)
(* statement overwritten: a move leaves no other behind.                   *)
OnlyDroppedLeak ==
  ~undefined => \A d \in Conns :
    conn[d] = "open" => d \in dropped \/ \E o \in Alive : M_sqlite_ptr[o] = d
=============================================================================
