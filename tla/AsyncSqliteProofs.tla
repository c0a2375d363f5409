--------------------------- MODULE AsyncSqliteProofs ---------------------------
(***************************************************************************)
(* Proofs about AsyncSqlite, for any number of calls, any pool and any     *)
(* errors: the life of the object, the callbacks, and what becomes of the  *)
(* calls of the database when each is made by the callback of the one      *)
(* before. Where methods overlap, nothing more is said.                    *)
(***************************************************************************)
EXTENDS AsyncSqlite, FiniteSetTheorems, TLAPS

DbProofs == INSTANCE SqliteDatabaseProofs WITH MaxActive <- 1

-----------------------------------------------------------------------------
(* The pool: every task is in one place, once.                             *)

PoolInv ==
  /\ Pool!TypeOK
  /\ \A i, j \in DOMAIN backlog : backlog[i] = backlog[j] => i = j
  /\ Pending \cap finished = {}
  /\ running \cap ToSet(backlog) = {}
  /\ phase = "closed" => Pending = {}

(* An empty pool.                                                          *)
LEMMA PoolInit == Pool!Init => PoolInv
BY DEF Pool!Init, PoolInv, Pool!TypeOK, Pending, ToSet

(* An accepted task is a new one, and pending.                             *)
LEMMA PoolAccept ==
  ASSUME PoolInv, NEW t \in Tasks, Pool!Accept(t)
  PROVE  /\ PoolInv'
         /\ Pending' = Pending \cup {t} /\ t \notin Pending /\ t \notin finished
         /\ UNCHANGED <<running, finished, phase>>
<1>1. /\ backlog \in Seq(Tasks) /\ backlog' = Append(backlog, t)
      /\ t \notin ToSet(backlog) /\ t \notin running /\ t \notin finished
      /\ UNCHANGED <<running, finished, phase>>
      /\ phase # "closed"
  BY DEF PoolInv, Pool!TypeOK, Pool!Accept, Pool!Known, Pool!ToSet, ToSet
<1>2. ToSet(backlog') = ToSet(backlog) \cup {t}
  BY <1>1 DEF ToSet
<1>3. \A i, j \in DOMAIN backlog' : backlog'[i] = backlog'[j] => i = j
  BY <1>1 DEF PoolInv, ToSet
<1>4. Pool!TypeOK'
  BY <1>1 DEF PoolInv, Pool!TypeOK
<1>5. Pending' = Pending \cup {t} /\ t \notin Pending
  BY <1>1, <1>2 DEF Pending
<1> QED
  BY <1>1, <1>2, <1>3, <1>4, <1>5 DEF PoolInv

(* A started task stays pending.                                           *)
LEMMA PoolStart ==
  ASSUME PoolInv, Pool!Start
  PROVE  PoolInv' /\ Pending' = Pending /\ UNCHANGED <<finished, phase>>
<1>1. /\ backlog \in Seq(Tasks) /\ backlog # <<>>
      /\ running' = running \cup {Head(backlog)} /\ backlog' = Tail(backlog)
      /\ UNCHANGED <<finished, phase>> /\ phase # "closed"
  BY DEF PoolInv, Pool!TypeOK, Pool!Start
<1>2. ToSet(backlog) = {Head(backlog)} \cup ToSet(Tail(backlog))
  <2>1. ASSUME NEW i \in DOMAIN backlog
        PROVE  backlog[i] \in {Head(backlog)} \cup ToSet(Tail(backlog))
    <3>1. CASE i = 1
      BY <1>1, <3>1
    <3>2. CASE i # 1
      <4>1. i - 1 \in DOMAIN Tail(backlog) /\ backlog[i] = Tail(backlog)[i - 1]
        BY <1>1, <3>2
      <4> QED
        BY <4>1 DEF ToSet
    <3> QED
      BY <3>1, <3>2
  <2>2. ASSUME NEW i \in DOMAIN Tail(backlog) PROVE Tail(backlog)[i] \in ToSet(backlog)
    <3>1. i + 1 \in DOMAIN backlog /\ Tail(backlog)[i] = backlog[i + 1]
      BY <1>1
    <3> QED
      BY <3>1 DEF ToSet
  <2>3. Head(backlog) \in ToSet(backlog)
    BY <1>1 DEF ToSet
  <2> QED
    BY <2>1, <2>2, <2>3 DEF ToSet
<1>3. Head(backlog) \notin ToSet(Tail(backlog))
  <2> SUFFICES ASSUME NEW i \in DOMAIN Tail(backlog), Tail(backlog)[i] = Head(backlog)
               PROVE  FALSE
    BY DEF ToSet
  <2>1. i + 1 \in DOMAIN backlog /\ backlog[i + 1] = backlog[1] /\ 1 \in DOMAIN backlog
    BY <1>1
  <2>2. i + 1 = 1
    BY <2>1 DEF PoolInv
  <2> QED
    BY <1>1, <2>2
<1>4. \A i, j \in DOMAIN backlog' : backlog'[i] = backlog'[j] => i = j
  <2> SUFFICES ASSUME NEW i \in DOMAIN backlog', NEW j \in DOMAIN backlog',
                      backlog'[i] = backlog'[j]
               PROVE  i = j
    OBVIOUS
  <2>1. /\ i + 1 \in DOMAIN backlog /\ j + 1 \in DOMAIN backlog
        /\ backlog[i + 1] = backlog[j + 1] /\ i \in Nat /\ j \in Nat
    BY <1>1
  <2>2. i + 1 = j + 1
    BY <2>1 DEF PoolInv
  <2> QED
    BY <2>1, <2>2
<1>5. Pool!TypeOK'
  BY <1>1 DEF PoolInv, Pool!TypeOK
<1>6. Pending' = Pending
  BY <1>1, <1>2 DEF Pending
<1> QED
  BY <1>1, <1>2, <1>3, <1>4, <1>5, <1>6 DEF PoolInv

(* A finished task is pending no longer.                                   *)
LEMMA PoolFinish ==
  ASSUME PoolInv, NEW t, Pool!Finish(t)
  PROVE  /\ PoolInv' /\ t \in Pending
         /\ Pending' = Pending \ {t} /\ finished' = finished \cup {t}
         /\ UNCHANGED phase
<1>1. /\ t \in running /\ running' = running \ {t} /\ finished' = finished \cup {t}
      /\ UNCHANGED <<backlog, phase>>
  BY DEF Pool!Finish
<1>2. Pool!TypeOK'
  BY <1>1 DEF PoolInv, Pool!TypeOK
<1>3. Pending' = Pending \ {t} /\ t \in Pending
  BY <1>1 DEF PoolInv, Pending
<1> QED
  BY <1>1, <1>2, <1>3 DEF PoolInv

-----------------------------------------------------------------------------
(* The database: its types, and what its steps do to the life of the       *)
(* object and to the calls.                                                *)

(* SqliteDatabase has two names here: Db, and that of its proofs.          *)
LEMMA SameTypes == Db!TypeOK <=> DbProofs!TypeOK
BY DEF Db!TypeOK, DbProofs!TypeOK, Db!Texts, DbProofs!Texts, Db!Results,
       DbProofs!Results, Db!SqlCodes, DbProofs!SqlCodes, Db!Origins,
       DbProofs!Origins, Db!Params, DbProofs!Params, Db!Locals, DbProofs!Locals

(* A call begins under both names ...                                      *)
LEMMA SameBegins == ASSUME NEW c, NEW o, Db!Begins(c, o) PROVE DbProofs!Begins(c, o)
<1>1. Db!Cardinality(Db!Active) = DbProofs!Cardinality(DbProofs!Active)
  BY DEF Db!Cardinality, DbProofs!Cardinality, Db!Active, DbProofs!Active
<1> QED
  BY <1>1 DEF Db!Begins, DbProofs!Begins

(* ... and so does each of its steps happen.                               *)
LEMMA SameStep == ASSUME NEW c \in Calls, Db!Step(c) PROVE DbProofs!Step(c)
<1>1. CASE Db!OpenRefused(c) \/ Db!Open(c) \/ Db!OpenOutOfMemory(c)
  BY <1>1, SameBegins
     DEF Db!OpenRefused, DbProofs!OpenRefused, Db!Open, DbProofs!Open,
         Db!OpenOutOfMemory, DbProofs!OpenOutOfMemory, Db!Returns,
         DbProofs!Returns, Db!Empty, DbProofs!Empty,
         Db!Unbound, DbProofs!Unbound, Db!library,
         DbProofs!library,
         DbProofs!Step
<1>2. ASSUME NEW o, Db!NotOpen(c, o) PROVE DbProofs!NotOpen(c, o)
  BY <1>2, SameBegins
     DEF Db!NotOpen, DbProofs!NotOpen, Db!Returns, DbProofs!Returns,
         Db!Empty, DbProofs!Empty,
         Db!Unbound, DbProofs!Unbound, Db!library, DbProofs!library
<1>3. ASSUME NEW o, Db!PrepareFails(c, o) PROVE DbProofs!PrepareFails(c, o)
  <2>1. \A ret : Db!M_get_sql_error_code(ret) = DbProofs!M_get_sql_error_code(ret)
    BY DEF Db!M_get_sql_error_code, DbProofs!M_get_sql_error_code, Db!Translated,
           DbProofs!Translated
  <2> QED
    BY <1>3, <2>1, SameBegins
       DEF Db!PrepareFails, DbProofs!PrepareFails, Db!Returns,
           DbProofs!Returns, Db!Empty, DbProofs!Empty,
         Db!Unbound, DbProofs!Unbound, Db!library,
           DbProofs!library
<1>4. ASSUME NEW o, NEW text, Db!Prepare(c, o, text) PROVE DbProofs!Prepare(c, o, text)
  BY <1>4, SameBegins DEF Db!Prepare, DbProofs!Prepare
<1>5. CASE Db!Bind(c) \/ Db!CountColumns(c)
  BY <1>5 DEF Db!Bind, DbProofs!Bind, Db!CountColumns, DbProofs!CountColumns,
     Db!AllBound, DbProofs!AllBound, Db!library, DbProofs!library, DbProofs!Step
<1>6. \A s, ret : Db!sqlite3_step(s, ret) => DbProofs!sqlite3_step(s, ret)
  BY Zenon DEF Db!sqlite3_step, DbProofs!sqlite3_step
<1>7. \A s : Db!StepReturns(s) = DbProofs!StepReturns(s)
  BY DEF Db!StepReturns, DbProofs!StepReturns
<1>8. CASE Db!SelectRow(c) \/ Db!ReadColumn(c) \/ Db!PushRow(c)
  BY <1>6, <1>7, <1>8
     DEF Db!SelectRow, DbProofs!SelectRow, Db!ReadColumn, DbProofs!ReadColumn,
         Db!PushRow, DbProofs!PushRow, Db!library, DbProofs!library, DbProofs!Step
<1>9. CASE Db!SelectEnd(c)
  BY <1>6, <1>7, <1>9
     DEF Db!SelectEnd, DbProofs!SelectEnd, Db!Returns, DbProofs!Returns,
         DbProofs!Step
<1>10. CASE Db!ExecuteStep(c)
  BY <1>6, <1>7, <1>10
     DEF Db!ExecuteStep, DbProofs!ExecuteStep, Db!AllBound, DbProofs!AllBound,
         Db!Unbound, DbProofs!Unbound, Db!Returns,
         DbProofs!Returns, Db!Succeeds, DbProofs!Succeeds,
         Db!M_get_sql_error_code, DbProofs!M_get_sql_error_code,
         Db!Translated, DbProofs!Translated,
         DbProofs!Step
<1>11. CASE Db!ReadChanges(c)
  BY <1>11
     DEF Db!ReadChanges, DbProofs!ReadChanges, Db!Returns,
         DbProofs!Returns, Db!library, DbProofs!library, DbProofs!Step
<1> QED
  BY <1>1, <1>2, <1>3, <1>4, <1>5, <1>8, <1>9, <1>10, <1>11
     DEF Db!Step, DbProofs!Step, Db!Executes, DbProofs!Executes,
         Db!Texts, DbProofs!Texts

(* The assumptions of SqliteDatabase.                                      *)
LEMMA DbAssumptions ==
  /\ NoCall \notin Calls /\ DbProofs!IsFiniteSet(Calls) /\ NoConn \notin Conns
  /\ 1 \in Nat \ {0} /\ MaxRows \in Nat /\ Args \in Nat /\ Columns \in Nat
  /\ PrepareErrors \subseteq DbProofs!SqliteCodes \ {"OK", "ROW", "DONE"}
  /\ StepErrors \subseteq DbProofs!SqliteCodes \ {"OK", "ROW", "DONE"}
<1>1. DbProofs!IsFiniteSet(Calls)
  BY ConstantsAssumption DEF ConstantsAssumption, DbProofs!IsFiniteSet, IsFiniteSet
<1>2. /\ PrepareErrors \subseteq DbProofs!SqliteCodes \ {"OK", "ROW", "DONE"}
      /\ StepErrors \subseteq DbProofs!SqliteCodes \ {"OK", "ROW", "DONE"}
  BY DatabaseAssumption DEF DatabaseAssumption, DbProofs!SqliteCodes, Db!SqliteCodes
<1> QED
  BY <1>1, <1>2, ConstantsAssumption, DatabaseAssumption
     DEF ConstantsAssumption, DatabaseAssumption

(* A step of a method keeps the types of the database ...                  *)
LEMMA DbTypes == ASSUME Db!TypeOK, NEW c \in Calls, Db!Step(c) PROVE Db!TypeOK'
<1>1. DbProofs!Step(c) /\ DbProofs!TypeOK
  BY SameStep, SameTypes
<1>2. [DbProofs!Next]_(DbProofs!vars)
  BY <1>1 DEF DbProofs!Next
<1>3. DbProofs!TypeOK'
  BY <1>1, <1>2, DbAssumptions, DbProofs!StepTypes
<1> QED
  BY <1>3 DEF Db!TypeOK, DbProofs!TypeOK, Db!Texts, DbProofs!Texts, Db!Results,
     DbProofs!Results, Db!SqlCodes, DbProofs!SqlCodes, Db!Origins,
     DbProofs!Origins, Db!Params, DbProofs!Params, Db!Locals, DbProofs!Locals

(* ... and gets one call on, which has not returned yet.                   *)
LEMMA DbStep ==
  ASSUME Db!TypeOK, NEW c \in Calls, Db!Step(c)
  PROVE  /\ UNCHANGED alive
         /\ pc[c] # "returned" /\ pc'[c] # "idle"
         /\ \A d \in Calls \ {c} : pc'[d] = pc[d]
<1>1. pc \in [Calls -> {"idle", "bind", "loop", "row", "changes", "returned"}]
  BY DEF Db!TypeOK
<1>2. CASE Db!OpenRefused(c) \/ Db!Open(c) \/ Db!OpenOutOfMemory(c)
  BY <1>1, <1>2 DEF Db!OpenRefused, Db!Open, Db!OpenOutOfMemory, Db!Begins, Db!Returns
<1>3. CASE \E o \in Db!Executes : Db!NotOpen(c, o) \/ Db!PrepareFails(c, o)
  BY <1>1, <1>3 DEF Db!NotOpen, Db!PrepareFails, Db!Begins, Db!Returns
<1>4. CASE \E o \in Db!Executes, text \in Db!Texts : Db!Prepare(c, o, text)
  BY <1>1, <1>4 DEF Db!Prepare, Db!Begins
<1>5. CASE Db!Bind(c) \/ Db!CountColumns(c)
  BY <1>1, <1>5 DEF Db!Bind, Db!CountColumns, Db!AllBound
<1>6. CASE Db!SelectRow(c) \/ Db!ReadColumn(c) \/ Db!PushRow(c) \/ Db!SelectEnd(c)
  BY <1>1, <1>6 DEF Db!SelectRow, Db!ReadColumn, Db!PushRow, Db!SelectEnd, Db!Returns
<1>7. CASE Db!ExecuteStep(c)
  <2>1. /\ pc[c] = "bind" /\ UNCHANGED alive
        /\ pc' = [pc EXCEPT ![c] = "changes"] \/ pc' = [pc EXCEPT ![c] = "returned"]
    BY <1>7, Zenon DEF Db!ExecuteStep, Db!AllBound, Db!Returns
  <2> QED
    BY <1>1, <2>1
<1>8. CASE Db!ReadChanges(c)
  BY <1>1, <1>8 DEF Db!ReadChanges, Db!Returns
<1> QED
  BY <1>2, <1>3, <1>4, <1>5, <1>6, <1>7, <1>8 DEF Db!Step

(* The end of the object, or nothing.                                      *)
LEMMA LeavesStep ==
  ASSUME Db!TypeOK, NEW h \in BOOLEAN, NEW tasks, Leaves(h, tasks)
  PROVE  /\ Db!TypeOK' /\ UNCHANGED <<pc, op, result>>
         /\ alive' <=> alive /\ (h \/ \E t \in tasks : Captures(t))
<1>1. CASE alive /\ ~h /\ ~\E t \in tasks : Captures(t)
  <2>1. Db!Destroy
    BY <1>1 DEF Leaves
  <2>2. Db!TypeOK'
    BY <2>1 DEF Db!Destroy, Db!TypeOK
  <2> QED
    BY <1>1, <2>1, <2>2 DEF Db!Destroy
<1>2. CASE ~(alive /\ ~h /\ ~\E t \in tasks : Captures(t))
  <2>1. UNCHANGED database
    BY <1>2 DEF Leaves
  <2>2. Db!TypeOK'
    BY <2>1 DEF database, Db!TypeOK
  <2> QED
    BY <1>2, <2>1, <2>2 DEF database
<1> QED
  BY <1>1, <1>2

(* What a call returns is a code, and never no outcome.                    *)
LEMMA EcType == ASSUME Db!TypeOK, NEW c \in Calls PROVE Ec(c) \in Db!SqlCodes
<1>1. result[c].code \in Db!SqlCodes
  BY DEF Db!TypeOK, Db!Results
<1> QED
  BY <1>1 DEF Ec, Db!SqlCodes

-----------------------------------------------------------------------------
(* The invariant.                                                          *)

(* What was posted for a call, and how far it is.                          *)
CallInv(c) ==
  /\ by[c] = NoCall => /\ Work(c) \notin Pending \cup finished
                       /\ given[c] = NoOutcome
                       /\ pc[c] = "idle"
                       /\ c \notin captured
  /\ by[c] # NoCall => Work(c) \in Pending \cup finished
  /\ Work(c) \in finished => given[c] # NoOutcome
  /\ given[c] = NoOutcome <=> Callback(c) \notin Pending \cup finished
  /\ given[c] # NoOutcome => pc[c] = "returned"
  /\ by[c] \in Calls => pc[by[c]] = "returned" /\ by[by[c]] # NoCall

(* The object is there as long as somebody holds a pointer to it.          *)
LifeInv ==
  /\ alive <=> held \/ \E t \in Pending : Captures(t)
  /\ phase # "open" => ~held

Childless(c) == by[c] # NoCall /\ \A d \in Calls : by[d] # c

(* If main has made one call, all others descend from it, and only the     *)
(* last of them has not been followed by another.                          *)
ChainInv ==
  /\ (\E c \in Calls : by[c] # NoCall) => \E c \in Calls : by[c] = Main
  /\ Chained => \A c, d \in Calls : Childless(c) /\ Childless(d) => c = d

Inv ==
  /\ TypeOK
  /\ PoolInv
  /\ \A c \in Calls : CallInv(c)
  /\ LifeInv
  /\ ChainInv

Promised == Async!Next \/ UNCHANGED Async!vars

(* Tasks and their parts.                                                  *)
LEMMA TaskFacts ==
  ASSUME NEW c, NEW d
  PROVE  /\ Work(c) # Callback(d)
         /\ Work(c) = Work(d) => c = d
         /\ Callback(c) = Callback(d) => c = d
         /\ Captures(Work(c))
         /\ Captures(Callback(c)) <=> c \in captured
         /\ c \in Calls => Work(c) \in Tasks /\ Callback(c) \in Tasks
         /\ Callback(c) \in Tasks => c \in Calls
BY DEF Work, Callback, Captures, Tasks

(* A pool without tasks, an object held by the main thread.                *)
LEMMA InitStep == Init => Inv
<1> SUFFICES ASSUME Init PROVE Inv
  OBVIOUS
<1>1. FirstConn \in Conns \cup {NoConn}
  BY ConstantsAssumption DEF ConstantsAssumption
<1>2. DbProofs!InitWith(FirstConn)
  BY DEF Init, Db!InitWith, DbProofs!InitWith, Db!Empty, DbProofs!Empty,
         Db!Unbound, DbProofs!Unbound, Db!NoLocals, DbProofs!NoLocals
<1>3. DbProofs!Inv
  BY <1>1, <1>2, DbAssumptions, DbProofs!InitInv
<1>4. Db!TypeOK
  BY <1>3, SameTypes DEF DbProofs!Inv
<1>5. PoolInv /\ Pool!TypeOK /\ Pending = {} /\ finished = {} /\ phase = "open"
  <2>1. Pool!Init
    BY DEF Init
  <2> QED
    BY <2>1, PoolInit DEF PoolInv, Pool!Init, Pending, ToSet
<1>6. TypeOK
  BY <1>4, <1>5 DEF Init, TypeOK
<1>7. \A c \in Calls : CallInv(c)
  BY <1>5, ConstantsAssumption DEF Init, Db!InitWith, CallInv, ConstantsAssumption
<1>8. LifeInv
  BY <1>5 DEF Init, Db!InitWith, LifeInv
<1>9. ChainInv
  BY DEF Init, ChainInv, Childless
<1> QED
  BY <1>5, <1>6, <1>7, <1>8, <1>9 DEF Inv

(* A step that is not about the tasks of a call leaves what is known of    *)
(* it, as long as the others only get on.                                  *)
LEMMA CallKept ==
  ASSUME Inv, NEW d \in Calls,
         by'[d] = by[d], given'[d] = given[d], pc'[d] = pc[d],
         d \in captured' <=> d \in captured,
         Work(d) \in (Pending \cup finished)' <=> Work(d) \in Pending \cup finished,
         Callback(d) \in (Pending \cup finished)'
           <=> Callback(d) \in Pending \cup finished,
         Work(d) \in finished' <=> Work(d) \in finished,
         \A p \in Calls : /\ pc[p] = "returned" => pc'[p] = "returned"
                          /\ by[p] # NoCall => by'[p] # NoCall
  PROVE  CallInv(d)'
<1>1. CallInv(d)
  BY DEF Inv
<1> QED
  BY <1>1 DEF CallInv

(* As long as nobody makes a call, the chain is what it is.                *)
LEMMA ChainKept == ASSUME Inv, UNCHANGED by PROVE ChainInv'
BY DEF Inv, ChainInv, Chained, Childless

(* The program, or a callback, makes a call: the abstract Accept.          *)
LEMMA PostWorkStep ==
  ASSUME Inv, NEW p \in Calls \cup {Main}, NEW c \in Calls, PostWork(p, c)
  PROVE  Inv' /\ Promised
<1> USE TaskFacts
<1>1. /\ by[c] = NoCall /\ by' = [by EXCEPT ![c] = p]
      /\ Pool!Accept(Work(c)) /\ Work(c) \in Tasks
      /\ captured' = captured \/ captured' = captured \cup {c}
      /\ UNCHANGED <<database, held, given>>
      /\ ~undefined /\ UNCHANGED undefined
      /\ p # NoCall /\ NoCall \notin Calls /\ Main \notin Calls \cup {NoCall}
  BY ConstantsAssumption DEF PostWork, Defined, ConstantsAssumption
<1>2. /\ PoolInv'
      /\ Pending' = Pending \cup {Work(c)} /\ Work(c) \notin Pending
      /\ Work(c) \notin finished
      /\ UNCHANGED <<running, finished, phase>>
  BY <1>1, PoolAccept DEF Inv
<1>3. Db!TypeOK' /\ UNCHANGED <<pc, alive>>
  BY <1>1 DEF Inv, TypeOK, Db!TypeOK, database
<1>4. TypeOK'
  BY <1>1, <1>2, <1>3 DEF Inv, TypeOK, PoolInv
<1>5. p \in Calls => /\ Callback(p) \in Pending /\ Callback(p) \notin finished
                     /\ p \in captured
                     /\ pc[p] = "returned" /\ by[p] # NoCall /\ p # c
                     /\ given[p] # NoOutcome
                     /\ \A d \in Calls : by[d] # p
  <2> SUFFICES ASSUME p \in Calls
               PROVE  /\ Callback(p) \in Pending /\ Callback(p) \notin finished
                      /\ p \in captured
                      /\ pc[p] = "returned" /\ by[p] # NoCall /\ p # c
                      /\ given[p] # NoOutcome
                      /\ \A d \in Calls : by[d] # p
    OBVIOUS
  <2>1. /\ Callback(p) \in running /\ p \in captured
        /\ \A d \in Calls : by[d] # p
    BY <1>1 DEF PostWork, MayCall
  <2>2. Callback(p) \in Pending /\ Callback(p) \notin finished
    BY <2>1 DEF Pending, Inv, PoolInv
  <2>3. given[p] # NoOutcome /\ pc[p] = "returned" /\ by[p] # NoCall
    BY <2>2 DEF Inv, CallInv
  <2> QED
    BY <1>1, <2>1, <2>2, <2>3
<1>6. p = Main => phase = "open" /\ held
  <2>1. Main \notin captured
    BY <1>1 DEF Inv, TypeOK
  <2> QED
    BY <2>1 DEF PostWork, MayCall
<1>7. ASSUME NEW d \in Calls PROVE CallInv(d)'
  <2>1. CASE d = c
    <3>1. CallInv(c)
      BY DEF Inv
    <3>2. by'[c] = p
      BY <1>1 DEF Inv, TypeOK
    <3>3. by'[p] = by[p] \/ p = Main
      BY <1>1, <1>5 DEF Inv, TypeOK
    <3> QED
      BY <1>1, <1>2, <1>3, <1>5, <2>1, <3>1, <3>2, <3>3 DEF CallInv
  <2>2. CASE d # c
    <3>1. by'[d] = by[d] /\ \A q \in Calls : by[q] # NoCall => by'[q] # NoCall
      BY <1>1, <2>2 DEF Inv, TypeOK
    <3> QED
      BY <1>1, <1>2, <1>3, <2>2, <3>1, CallKept
  <2> QED
    BY <2>1, <2>2
<1>8. LifeInv'
  <2>1. held \/ \E t \in Pending : Captures(t)
    BY <1>5, <1>6
  <2>2. alive
    BY <2>1 DEF Inv, LifeInv
  <2>3. Captures(Work(c))' /\ Work(c) \in Pending'
    BY <1>2 DEF Captures, Work
  <2> QED
    BY <1>1, <1>2, <1>3, <2>2, <2>3 DEF Inv, LifeInv
<1>9. ChainInv'
  <2>1. \A d \in Calls : by'[d] = IF d = c THEN p ELSE by[d]
    BY <1>1, Zenon DEF Inv, TypeOK
  <2>2. CASE p = Main
    <3>1. ASSUME Chained' PROVE \A d \in Calls : by[d] = NoCall
      <4> DEFINE M == {d \in Calls : by'[d] = Main}
      <4>1. IsFiniteSet(M) /\ Cardinality(M) <= 1
        BY <3>1, ConstantsAssumption, FS_Subset DEF Chained, ConstantsAssumption
      <4>2. c \in M
        BY <1>1, <2>1, <2>2
      <4>3. \A d \in M : d = c
        <5> HIDE DEF M
        <5>1. Cardinality(M) \in Nat /\ Cardinality(M) # 0
          BY <4>1, <4>2, FS_CardinalityType, FS_EmptySet
        <5>2. Cardinality(M) = 1
          BY <4>1, <5>1
        <5>3. \E x : M = {x}
          BY <4>1, <5>2, FS_Singleton
        <5> QED
          BY <4>2, <5>3
      <4>4. ASSUME NEW d \in Calls PROVE by[d] # Main
        <5>1. by'[d] = Main => d = c
          BY <4>3
        <5> QED
          BY <1>1, <2>1, <2>2, <5>1
      <4> QED
        BY <4>4 DEF Inv, ChainInv
    <3>2. by'[c] = Main
      BY <1>1, <2>1, <2>2
    <3>3. ASSUME Chained', NEW d \in Calls, Childless(d)' PROVE d = c
      BY <1>1, <2>1, <3>1, <3>3 DEF Childless
    <3> QED
      BY <3>2, <3>3 DEF ChainInv
  <2>3. CASE p \in Calls
    <3>1. {d \in Calls : by'[d] = Main} = {d \in Calls : by[d] = Main}
      BY <1>1, <2>1, <2>3
    <3>2. Chained' => Chained
      BY <3>1 DEF Chained
    <3>3. Childless(p)
      BY <1>5, <2>3 DEF Childless
    <3>4. ASSUME NEW d \in Calls, d # c, d # p, Childless(d)' PROVE Childless(d)
      BY <1>1, <2>1, <3>4 DEF Childless
    <3>5. ~Childless(p)'
      BY <1>1, <2>1, <2>3 DEF Childless
    <3>6. ASSUME Chained', NEW d \in Calls, Childless(d)' PROVE d = c
      BY <2>3, <3>2, <3>3, <3>4, <3>5, <3>6 DEF Inv, ChainInv
    <3>7. \E d \in Calls : by'[d] = Main
      <4>1. \E d \in Calls : by[d] = Main
        BY <1>5, <2>3 DEF Inv, ChainInv
      <4> QED
        BY <3>1, <4>1
    <3> QED
      BY <3>6, <3>7 DEF ChainInv
  <2> QED
    BY <2>2, <2>3
<1>10. Async!Accept(c)
  <2>1. /\ Accepted' = Accepted \cup {c} /\ c \notin Accepted
        /\ UNCHANGED <<Answered, Delivered>>
    BY <1>1, <1>2 DEF Inv, TypeOK, Accepted, Answered, Delivered
  <2>2. phase = "open" \/ (phase = "closing" /\ Answered \ Delivered # {})
    <3>1. phase = "open" \/ phase = "closing"
      BY <1>1 DEF Pool!Accept
    <3>2. p \in Calls => p \in Answered /\ p \notin Delivered
      BY <1>5 DEF Answered, Delivered
    <3> QED
      BY <1>6, <3>1, <3>2
  <2> QED
    BY <1>1, <1>2, <2>1, <2>2 DEF Async!Accept
<1> QED
  BY <1>2, <1>4, <1>7, <1>8, <1>9, <1>10 DEF Inv, Promised, Async!Next

(* A worker takes a task.                                                  *)
LEMMA StartStep == ASSUME Inv, Start PROVE Inv' /\ Promised
<1>1. PoolInv' /\ Pending' = Pending /\ UNCHANGED <<finished, phase>>
  BY PoolStart DEF Start, Inv
<1>2. UNCHANGED <<database, held, by, captured, given, undefined>>
  BY DEF Start, Defined
<1>3. UNCHANGED <<pc, alive>>
  BY <1>2 DEF database
<1>4. TypeOK'
  BY <1>1, <1>2 DEF Inv, TypeOK, PoolInv, database, Db!TypeOK
<1>5. \A c \in Calls : CallInv(c)'
  BY <1>1, <1>2, <1>3 DEF Inv, CallInv
<1>6. LifeInv' /\ ChainInv'
  BY <1>1, <1>2, <1>3, ChainKept DEF Inv, LifeInv, Captures
<1>7. UNCHANGED Async!vars
  BY <1>1, <1>2 DEF Async!vars, Accepted, Answered, Delivered
<1> QED
  BY <1>1, <1>4, <1>5, <1>6, <1>7 DEF Inv, Promised

(* A step of a method.                                                     *)
LEMMA RunWorkStep == ASSUME Inv, NEW c \in Calls, RunWork(c) PROVE Inv' /\ Promised
<1>1. /\ Work(c) \in Pending /\ Db!Step(c) /\ Db!TypeOK
      /\ UNCHANGED <<pool, held, by, captured, given, undefined>>
  BY DEF RunWork, Defined, Pending, Inv, TypeOK
<1>2. /\ UNCHANGED alive
      /\ pc[c] # "returned" /\ pc'[c] # "idle"
      /\ \A d \in Calls \ {c} : pc'[d] = pc[d]
  BY <1>1, DbStep
<1>3. Db!TypeOK'
  BY <1>1, DbTypes
<1>4. UNCHANGED <<Pending, backlog, running, finished, phase>>
  BY <1>1 DEF pool, Pending
<1>5. PoolInv' /\ TypeOK'
  BY <1>1, <1>3, <1>4 DEF Inv, PoolInv, TypeOK, Pool!TypeOK
<1>6. ASSUME NEW d \in Calls PROVE CallInv(d)'
  <2>1. \A p \in Calls : pc[p] = "returned" => pc'[p] = "returned"
    BY <1>2
  <2>2. CASE d # c
    BY <1>1, <1>2, <1>4, <2>1, <2>2, CallKept
  <2>3. CASE d = c
    BY <1>1, <1>2, <1>4, <2>1, <2>3 DEF Inv, CallInv
  <2> QED
    BY <2>2, <2>3
<1>7. LifeInv' /\ ChainInv'
  BY <1>1, <1>2, <1>4, ChainKept DEF Inv, LifeInv, Captures
<1>8. UNCHANGED Async!vars
  BY <1>1, <1>4 DEF Async!vars, Accepted, Answered, Delivered
<1> QED
  BY <1>5, <1>6, <1>7, <1>8 DEF Inv, Promised

(* The callback is posted, with its error_code: the abstract Answer.       *)
LEMMA PostCallbackStep ==
  ASSUME Inv, NEW c \in Calls, PostCallback(c) PROVE Inv' /\ Promised
<1> USE TaskFacts
<1>1. /\ Work(c) \in Pending /\ pc[c] = "returned" /\ given[c] = NoOutcome
      /\ given' = [given EXCEPT ![c] = Ec(c)]
      /\ Pool!Accept(Callback(c)) /\ Callback(c) \in Tasks
      /\ UNCHANGED <<database, held, by, captured>>
      /\ ~undefined /\ UNCHANGED undefined
  BY DEF PostCallback, Defined, Pending
<1>2. /\ PoolInv'
      /\ Pending' = Pending \cup {Callback(c)}
      /\ UNCHANGED <<running, finished, phase>>
  BY <1>1, PoolAccept DEF Inv
<1>3. UNCHANGED <<pc, alive>> /\ Db!TypeOK'
  BY <1>1 DEF database, Inv, TypeOK, Db!TypeOK
<1>4. Ec(c) \in Db!SqlCodes /\ Ec(c) # NoOutcome
  BY EcType, DatabaseAssumption DEF Inv, TypeOK, DatabaseAssumption
<1>5. given' \in [Calls -> Db!SqlCodes \cup {NoOutcome}] /\ given'[c] = Ec(c)
      /\ \A d \in Calls \ {c} : given'[d] = given[d]
  BY <1>1, <1>4 DEF Inv, TypeOK
<1>6. TypeOK'
  BY <1>1, <1>2, <1>3, <1>5 DEF Inv, TypeOK, PoolInv
<1>7. ASSUME NEW d \in Calls PROVE CallInv(d)'
  <2>1. CASE d # c
    BY <1>1, <1>2, <1>3, <1>5, <2>1, CallKept
  <2>2. CASE d = c
    BY <1>1, <1>2, <1>3, <1>4, <1>5, <2>2 DEF Inv, CallInv
  <2> QED
    BY <2>1, <2>2
<1>8. LifeInv' /\ ChainInv'
  <2>1. alive
    BY <1>1 DEF Inv, LifeInv
  <2>2. Work(c) \in Pending' /\ Captures(Work(c))'
    BY <1>1, <1>2 DEF Captures, Work
  <2> QED
    BY <1>1, <1>2, <1>3, <2>1, <2>2, ChainKept DEF Inv, LifeInv
<1>9. Async!Answer(c)
  <2>1. by[c] # NoCall
    BY <1>1 DEF Inv, CallInv
  <2>2. Answered' = Answered \cup {c} /\ c \in Accepted \ Answered
    BY <1>1, <1>4, <1>5, <2>1 DEF Accepted, Answered
  <2> QED
    BY <1>1, <1>2, <2>2 DEF Async!Answer, Accepted, Delivered
<1> QED
  BY <1>2, <1>6, <1>7, <1>8, <1>9 DEF Inv, Promised, Async!Next

(* A task ends, and with it its pointers.                                  *)
LEMMA FinishTypes ==
  ASSUME Inv, NEW t \in Tasks, Pool!Finish(t), Leaves(held, Pending \ {t}),
         UNCHANGED <<held, by, captured, given, undefined>>
  PROVE  /\ TypeOK' /\ PoolInv' /\ LifeInv' /\ ChainInv'
         /\ t \in Pending /\ t \notin finished
         /\ Pending' = Pending \ {t} /\ finished' = finished \cup {t}
         /\ UNCHANGED <<pc, phase>>
<1>1. /\ PoolInv' /\ t \in Pending
      /\ Pending' = Pending \ {t} /\ finished' = finished \cup {t}
      /\ UNCHANGED phase
  BY PoolFinish DEF Inv
<1>2. /\ Db!TypeOK' /\ UNCHANGED pc
      /\ alive' <=> alive /\ (held \/ \E u \in Pending \ {t} : Captures(u))
  BY LeavesStep DEF Inv, TypeOK
<1>3. TypeOK'
  BY <1>1, <1>2 DEF Inv, TypeOK, PoolInv
<1>4. LifeInv'
  BY <1>1, <1>2 DEF Inv, LifeInv, Captures
<1>5. t \notin finished
  BY <1>1 DEF Inv, PoolInv
<1> QED
  BY <1>1, <1>2, <1>3, <1>4, <1>5, ChainKept

(* The end of a work task, whose callback has been posted.                 *)
LEMMA FinishWorkStep == ASSUME Inv, NEW c \in Calls, FinishWork(c) PROVE Inv' /\ Promised
<1> USE TaskFacts
<1>1. /\ given[c] # NoOutcome /\ Work(c) \in Tasks
      /\ Pool!Finish(Work(c)) /\ Leaves(held, Pending \ {Work(c)})
      /\ UNCHANGED <<held, by, captured, given, undefined>>
  BY DEF FinishWork, Defined
<1>2. /\ TypeOK' /\ PoolInv' /\ LifeInv' /\ ChainInv'
      /\ Work(c) \in Pending
      /\ Pending' = Pending \ {Work(c)} /\ finished' = finished \cup {Work(c)}
      /\ UNCHANGED <<pc, phase>>
  BY <1>1, FinishTypes
<1>3. ASSUME NEW d \in Calls PROVE CallInv(d)'
  <2>1. CASE d # c
    BY <1>1, <1>2, <2>1, CallKept
  <2>2. CASE d = c
    BY <1>1, <1>2, <2>2 DEF Inv, CallInv
  <2> QED
    BY <2>1, <2>2
<1>4. UNCHANGED Async!vars
  BY <1>1, <1>2 DEF Async!vars, Accepted, Answered, Delivered
<1> QED
  BY <1>2, <1>3, <1>4 DEF Inv, Promised

(* The end of a callback is the abstract Deliver.                          *)
LEMMA FinishCallbackStep ==
  ASSUME Inv, NEW c \in Calls, FinishCallback(c) PROVE Inv' /\ Promised
<1> USE TaskFacts
<1>1. /\ Callback(c) \in Tasks
      /\ Pool!Finish(Callback(c)) /\ Leaves(held, Pending \ {Callback(c)})
      /\ UNCHANGED <<held, by, captured, given>>
      /\ ~undefined /\ UNCHANGED undefined
  BY DEF FinishCallback, Defined
<1>2. /\ TypeOK' /\ PoolInv' /\ LifeInv' /\ ChainInv'
      /\ Callback(c) \in Pending /\ Callback(c) \notin finished
      /\ Pending' = Pending \ {Callback(c)}
      /\ finished' = finished \cup {Callback(c)}
      /\ UNCHANGED <<pc, phase>>
  BY <1>1, FinishTypes
<1>3. ASSUME NEW d \in Calls PROVE CallInv(d)'
  <2>1. CASE d # c
    BY <1>1, <1>2, <2>1, CallKept
  <2>2. CASE d = c
    BY <1>1, <1>2, <2>2 DEF Inv, CallInv
  <2> QED
    BY <2>1, <2>2
<1>4. Async!Deliver(c)
  <2>1. given[c] # NoOutcome
    BY <1>2 DEF Inv, CallInv
  <2> QED
    BY <1>1, <1>2, <2>1 DEF Async!Deliver, Accepted, Answered, Delivered
<1> QED
  BY <1>2, <1>3, <1>4 DEF Inv, Promised, Async!Next

(* The main thread lets go of the object.                                  *)
LEMMA ReleaseStep == ASSUME Inv, Release PROVE Inv' /\ Promised
<1>1. /\ ~held' /\ Leaves(FALSE, Pending)
      /\ UNCHANGED <<pool, by, captured, given, undefined>>
  BY DEF Release, Defined
<1>2. /\ Db!TypeOK' /\ UNCHANGED pc
      /\ alive' <=> alive /\ \E u \in Pending : Captures(u)
  BY <1>1, LeavesStep DEF Inv, TypeOK
<1>3. UNCHANGED <<Pending, backlog, running, finished, phase>>
  BY <1>1 DEF pool, Pending
<1>4. TypeOK' /\ PoolInv'
  BY <1>1, <1>2, <1>3 DEF Inv, TypeOK, PoolInv, Pool!TypeOK, Release
<1>5. \A c \in Calls : CallInv(c)'
  BY <1>1, <1>2, <1>3 DEF Inv, CallInv
<1>6. LifeInv' /\ ChainInv'
  BY <1>1, <1>2, <1>3, ChainKept DEF Inv, LifeInv, Captures
<1>7. UNCHANGED Async!vars
  BY <1>1, <1>3 DEF Async!vars, Accepted, Answered, Delivered
<1> QED
  BY <1>4, <1>5, <1>6, <1>7 DEF Inv, Promised

(* The pool begins to close, and is closed: then all callbacks have run.   *)
LEMMA CloseStep == ASSUME Inv, Close \/ Closed PROVE Inv' /\ Promised
<1>1. /\ UNCHANGED <<database, held, by, captured, given, backlog, running, finished>>
      /\ ~undefined /\ UNCHANGED undefined
      /\ \/ phase = "open" /\ phase' = "closing" /\ ~held
         \/ phase = "closing" /\ phase' = "closed" /\ Pending = {}
  BY DEF Close, Closed, Defined, Pool!Close, Pool!Closed, Pending, ToSet
<1>2. UNCHANGED <<Pending, pc, alive>>
  BY <1>1 DEF Pending, database
<1>3. TypeOK' /\ PoolInv'
  BY <1>1, <1>2 DEF Inv, TypeOK, PoolInv, Pool!TypeOK, database, Db!TypeOK
<1>4. \A c \in Calls : CallInv(c)'
  BY <1>1, <1>2 DEF Inv, CallInv
<1>5. LifeInv' /\ ChainInv'
  BY <1>1, <1>2, ChainKept DEF Inv, LifeInv, Captures
<1>6. UNCHANGED <<Accepted, Answered, Delivered>>
  BY <1>1 DEF Accepted, Answered, Delivered
<1>7. Async!Close \/ Async!Closed
  <2>1. Pending = {} => Accepted = Delivered
    BY DEF Inv, CallInv, Accepted, Delivered
  <2> QED
    BY <1>1, <1>6, <2>1 DEF Async!Close, Async!Closed
<1> QED
  BY <1>3, <1>4, <1>5, <1>7 DEF Inv, Promised, Async!Next

(* Two methods run at the same time: neither call was answered yet.        *)
LEMMA OverlapStep ==
  ASSUME Inv, NEW c \in Calls, NEW d \in Calls, Overlap(c, d)
  PROVE  Inv' /\ Promised /\ UNCHANGED <<by, database>>
         /\ c # d /\ by[c] # NoCall /\ by[d] # NoCall
         /\ pc[c] # "returned" /\ pc[d] # "returned"
<1>1. /\ UNCHANGED <<database, held, by, captured, given, Pending, pc, alive>>
      /\ UNCHANGED <<backlog, running, finished, phase>>
      /\ ~undefined /\ undefined' = TRUE
      /\ c # d /\ Work(c) \in Pending /\ Work(d) \in Pending
      /\ pc[c] # "returned" /\ pc[d] # "returned"
  BY DEF Overlap, pool, database, Pending
<1>2. TypeOK' /\ PoolInv'
  BY <1>1 DEF Inv, TypeOK, PoolInv, Pool!TypeOK, database, Db!TypeOK
<1>3. \A e \in Calls : CallInv(e)'
  BY <1>1 DEF Inv, CallInv
<1>4. LifeInv' /\ ChainInv'
  BY <1>1, ChainKept DEF Inv, LifeInv, Captures
<1>5. \A e \in {c, d} : by[e] # NoCall /\ given[e] = NoOutcome
  BY <1>1 DEF Inv, CallInv
<1>6. UNCHANGED <<Accepted, Answered, Delivered>>
  BY <1>1 DEF Accepted, Answered, Delivered
<1>7. Async!Break
  BY <1>1, <1>5, <1>6 DEF Async!Break, Accepted, Answered
<1> QED
  BY <1>1, <1>2, <1>3, <1>4, <1>5, <1>7 DEF Inv, Promised, Async!Next

(* Nothing changes.                                                        *)
LEMMA StutterStep == ASSUME Inv, UNCHANGED vars PROVE Inv' /\ Promised
<1>1. /\ UNCHANGED <<database, held, by, captured, given, undefined>>
      /\ UNCHANGED <<Pending, pc, alive>>
      /\ UNCHANGED <<backlog, running, finished, phase>>
  BY DEF vars, pool, database, Pending
<1>2. TypeOK' /\ PoolInv'
  BY <1>1 DEF Inv, TypeOK, PoolInv, Pool!TypeOK, database, Db!TypeOK
<1>3. \A c \in Calls : CallInv(c)'
  BY <1>1 DEF Inv, CallInv
<1>4. LifeInv' /\ ChainInv'
  BY <1>1, ChainKept DEF Inv, LifeInv, Captures
<1>5. UNCHANGED Async!vars
  BY <1>1 DEF Async!vars, Accepted, Answered, Delivered
<1> QED
  BY <1>2, <1>3, <1>4, <1>5 DEF Inv, Promised

(* All of the steps together.                                              *)
LEMMA EveryStep == ASSUME Inv, [Next]_vars PROVE Inv' /\ Promised
<1>1. CASE UNCHANGED vars
  BY <1>1, StutterStep
<1>2. CASE Next
  BY <1>2, PostWorkStep, StartStep, RunWorkStep, PostCallbackStep, FinishWorkStep,
     FinishCallbackStep, ReleaseStep, OverlapStep, CloseStep, StutterStep
     DEF Next, Ended
<1> QED
  BY <1>1, <1>2

(* The invariant holds in every behaviour.                                 *)
LEMMA InvHolds == SafetySpec => []Inv
<1>1. Inv /\ [Next]_vars => Inv'
  BY EveryStep
<1> QED
  BY InitStep, <1>1, PTL DEF SafetySpec

-----------------------------------------------------------------------------
(* The types.                                                              *)
THEOREM TypeCorrect == SafetySpec => []TypeOK
<1>1. Inv => TypeOK
  BY DEF Inv
<1> QED
  BY InvHolds, <1>1, PTL

(* No task and no callback that was given a pointer to the object ever     *)
(* finds it destroyed.                                                     *)
THEOREM ObjectIsKept == SafetySpec => []ObjectOutlivesUse
<1>1. Inv => ObjectOutlivesUse
  BY TaskFacts DEF Inv, LifeInv, ObjectOutlivesUse
<1> QED
  BY InvHolds, <1>1, PTL

(* And when the pool is gone, so is the object.                            *)
THEOREM NothingIsLeaked == SafetySpec => []NothingLeaked
<1>1. Inv => NothingLeaked
  BY DEF Inv, PoolInv, LifeInv, NothingLeaked
<1> QED
  BY InvHolds, <1>1, PTL

(* The safety part of ImplementsAsyncCalls: no callback comes twice, none  *)
(* before its call has an outcome, and none is missing when the pool is    *)
(* gone; and only two unanswered calls can end what is promised.           *)
THEOREM KeepsItsPromise == SafetySpec => Async!SafetySpec
<1>1. Init => Async!Init
  BY DEF Init, Pool!Init, Async!Init, Accepted, Answered, Delivered
<1>2. Inv /\ [Next]_vars => [Async!Next]_(Async!vars)
  BY EveryStep DEF Promised
<1> QED
  BY InvHolds, <1>1, <1>2, PTL DEF SafetySpec, Async!SafetySpec

-----------------------------------------------------------------------------
(* The calls as SqliteDatabase sees them: one after the other, as long as  *)
(* they do not overlap, and in a chain they never do.                      *)

(* In a chain, no two calls have been made and not answered.               *)
LEMMA OneUnanswered ==
  ASSUME Inv, Chained, NEW c \in Calls, NEW d \in Calls,
         by[c] # NoCall, pc[c] # "returned", by[d] # NoCall, pc[d] # "returned"
  PROVE  c = d
<1>1. ASSUME NEW x \in Calls, by[x] # NoCall, pc[x] # "returned" PROVE Childless(x)
  BY <1>1 DEF Inv, CallInv, Childless
<1> QED
  BY <1>1 DEF Inv, ChainInv

(* A call is only ever added, so what is no chain never becomes one.       *)
LEMMA StaysUnchained == ASSUME Inv, [Next]_vars, Chained' PROVE Chained
<1>1. \A x \in Calls : by[x] = Main => by'[x] = Main
  <2>1. CASE UNCHANGED by
    BY <2>1
  <2>2. ASSUME NEW p \in Calls \cup {Main}, NEW c \in Calls, PostWork(p, c)
        PROVE  \A x \in Calls : by[x] = Main => by'[x] = Main
    BY <2>2, ConstantsAssumption DEF PostWork, Inv, TypeOK, ConstantsAssumption
  <2> QED
    BY <2>1, <2>2 DEF Next, Release, Start, RunWork, PostCallback, FinishWork,
       FinishCallback, Overlap, Close, Closed, Ended, vars
<1> DEFINE M == {x \in Calls : by[x] = Main}
           N == {x \in Calls : by'[x] = Main}
<1>2. M \subseteq N /\ N \subseteq Calls
  BY <1>1
<1>3. IsFiniteSet(N)
  BY <1>2, ConstantsAssumption, FS_Subset DEF ConstantsAssumption
<1> HIDE DEF M, N
<1>4. /\ Cardinality(M) <= Cardinality(N)
      /\ Cardinality(M) \in Nat /\ Cardinality(N) \in Nat
  BY <1>2, <1>3, FS_Subset, FS_CardinalityType
<1>5. Cardinality(N) <= 1
  BY DEF Chained, N
<1>6. Cardinality(M) <= 1
  BY <1>4, <1>5
<1> QED
  BY <1>6 DEF Chained, M

(* Every step is one of the database, or leaves it as it is.               *)
LEMMA DatabaseStep == ASSUME [Next]_vars PROVE [DbProofs!Next]_(DbProofs!vars)
<1>1. ASSUME NEW c \in Calls, RunWork(c) PROVE DbProofs!Next
  <2>1. Db!Step(c)
    BY <1>1 DEF RunWork
  <2> QED
    BY <2>1, SameStep DEF DbProofs!Next
<1>2. CASE UNCHANGED database
  BY <1>2 DEF database, DbProofs!vars, DbProofs!library
<1>3. ASSUME NEW h, NEW tasks, Leaves(h, tasks)
      PROVE  [DbProofs!Next]_(DbProofs!vars)
  <2>1. Db!Destroy => DbProofs!Destroy
    BY DEF Db!Destroy, DbProofs!Destroy, Db!Active, DbProofs!Active,
       Db!Compiled, DbProofs!Compiled
  <2> QED
    BY <1>2, <1>3, <2>1 DEF Leaves, DbProofs!Next
<1> QED
  BY <1>1, <1>2, <1>3 DEF Next, Release, PostWork, Start, PostCallback, FinishWork,
     FinishCallback, Overlap, Close, Closed, Ended, vars

(* So the invariant of one call after the other holds here.                *)
LEMMA DatabaseInv == SafetySpec => []DbProofs!Inv
<1>1. Init => DbProofs!Inv
  <2> SUFFICES ASSUME Init PROVE DbProofs!Inv
    OBVIOUS
  <2>1. FirstConn \in Conns \cup {NoConn}
    BY ConstantsAssumption DEF ConstantsAssumption
  <2>2. DbProofs!InitWith(FirstConn)
    BY DEF Init, Db!InitWith, DbProofs!InitWith, Db!Empty, DbProofs!Empty,
       Db!Unbound, DbProofs!Unbound, Db!NoLocals, DbProofs!NoLocals
  <2> QED
    BY <2>1, <2>2, DbAssumptions, DbProofs!InitInv
<1>2. DbProofs!Inv /\ [Next]_vars => DbProofs!Inv'
  BY DatabaseStep, DbAssumptions, DbProofs!InvStep
<1> QED
  BY <1>1, <1>2, PTL DEF SafetySpec

(* The methods of a chain of calls never overlap, although their tasks do, *)
(* so the behaviour of the program stays defined.                          *)
THEOREM ChainsDoNotOverlap == SafetySpec => []ChainIsSerial
<1>1. Init => ChainIsSerial
  BY DEF Init, ChainIsSerial
<1>2. Inv /\ ChainIsSerial /\ [Next]_vars => ChainIsSerial'
  <2> SUFFICES ASSUME Inv, ChainIsSerial, [Next]_vars, Chained' PROVE ~undefined'
    BY DEF ChainIsSerial
  <2>1. Chained /\ ~undefined
    BY StaysUnchained DEF ChainIsSerial
  <2>2. ASSUME NEW c \in Calls, NEW d \in Calls, Overlap(c, d) PROVE FALSE
    BY <2>1, <2>2, OverlapStep, OneUnanswered
  <2> QED
    BY <2>1, <2>2 DEF Next, Release, PostWork, Start, RunWork, PostCallback,
       FinishWork, FinishCallback, Defined, Close, Closed, Ended, vars
<1> QED
  BY <1>1, <1>2, InvHolds, PTL DEF SafetySpec

(* And their results are what they are of synchronous calls.               *)
THEOREM ChainsAreExact == SafetySpec => []ChainIsExact
<1>1. DbProofs!Inv => ChainIsExact
  <2> SUFFICES ASSUME DbProofs!Inv
               PROVE  Db!ExecuteStatusExact /\ Db!RowsOwn /\ Db!AffectedRowsOwn
    BY DEF ChainIsExact
  <2>1. \A c \in Calls : DbProofs!Answered(c)
    BY DEF DbProofs!Inv
  <2>2. Db!ExecuteStatusExact /\ Db!AffectedRowsOwn
    BY <2>1 DEF DbProofs!Answered, DbProofs!OwnParams, Db!ExecuteStatusExact,
       Db!AffectedRowsOwn, Db!Returned
  <2>3. ASSUME NEW c \in Db!Returned("select"), NEW i \in DOMAIN result[c].rows
        PROVE  result[c].rows[i] = [k \in 1..Columns |-> c]
    BY <2>1, <2>3 DEF DbProofs!Answered, DbProofs!OwnRow, Db!Returned
  <2>4. Db!RowsOwn
    BY <2>3 DEF Db!RowsOwn, Db!ToSet
  <2> QED
    BY <2>2, <2>4
<1> QED
  BY DatabaseInv, <1>1, PTL
=============================================================================
