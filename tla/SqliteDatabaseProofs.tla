-------------------------- MODULE SqliteDatabaseProofs --------------------------
(***************************************************************************)
(* Proofs about SqliteDatabase, for any number of calls, connections,      *)
(* arguments, columns and rows and any errors of the library: its types,   *)
(* and what a call returns when they are made one after the other. Nothing *)
(* is proved about calls that overlap, which the library does not allow.   *)
(***************************************************************************)
EXTENDS SqliteDatabase, FiniteSetTheorems, TLAPS

-----------------------------------------------------------------------------
(* Types.                                                                  *)

(* What is made of a result code is always an error code.                  *)
LEMMA CodeType == \A ret : M_get_sql_error_code(ret) \in SqlCodes
BY DEF M_get_sql_error_code, Translated, SqlCodes

(* A default result is a result.                                           *)
LEMMA EmptyType == Empty \in Results /\ Unbound \in Params
BY DEF Empty, Results, SqlCodes, Unbound, Params, Origins

(* A call begins without local values.                                     *)
LEMMA NoLocalsType == NoLocals \in Locals
BY ConstantsAssumption DEF NoLocals, Locals, ConstantsAssumption

(* What a step of the library does to the statements and connections.      *)
LEMMA StepType ==
  ASSUME TypeOK, NEW s \in Origins, NEW ret, sqlite3_step(s, ret)
  PROVE  /\ stmt' \in [Calls -> {"none", "ready", "row", "done", "error", "finalized"}]
         /\ completed' \in [Calls -> Nat]
         /\ changed' \in [Conns -> Origins]
         /\ UNCHANGED <<conn, owner, bound>>
<1>1. stmt' \in [Calls -> {"none", "ready", "row", "done", "error", "finalized"}]
  BY DEF TypeOK, sqlite3_step
<1>2. completed' \in [Calls -> Nat]
  BY DEF TypeOK, sqlite3_step
<1>3. changed' \in [Conns -> Origins]
  BY DEF TypeOK, sqlite3_step, Origins
<1> QED
  BY <1>1, <1>2, <1>3 DEF sqlite3_step

(* The end of a call.                                                      *)
LEMMA ReturnsType ==
  ASSUME TypeOK, NEW c \in Calls, NEW r \in Results, Returns(c, r)
  PROVE  /\ pc' \in [Calls -> {"idle", "bind", "loop", "row", "changes", "returned"}]
         /\ result' \in [Calls -> Results]
BY DEF TypeOK, Returns

(* The calls of open_sqlite_database.                                      *)
LEMMA OpenTypes ==
  ASSUME TypeOK, NEW c \in Calls, OpenRefused(c) \/ Open(c) \/ OpenOutOfMemory(c)
  PROVE  TypeOK'
<1>1. op' \in [Calls -> {"none", "open", "select", "execute"}]
  BY DEF TypeOK, OpenRefused, Open, OpenOutOfMemory, Begins
<1>2. CASE OpenRefused(c) \/ OpenOutOfMemory(c)
  BY <1>1, <1>2, EmptyType, ReturnsType
     DEF OpenRefused, OpenOutOfMemory, TypeOK, library
<1>3. CASE Open(c)
  <2>1. PICK d \in Conns, opened \in BOOLEAN :
          /\ conn' = [conn EXCEPT ![d] = IF opened THEN "open" ELSE "sick"]
          /\ M_sqlite_ptr' = d
          /\ Returns(c, [Empty EXCEPT !.status = opened])
    BY <1>3 DEF Open
  <2>2. [Empty EXCEPT !.status = opened] \in Results
    BY EmptyType, Zenon DEF Results
  <2>3. conn' \in [Conns -> {"unused", "open", "sick", "closed"}]
    BY <2>1 DEF TypeOK
  <2>4. /\ pc' \in [Calls -> {"idle", "bind", "loop", "row", "changes", "returned"}]
        /\ result' \in [Calls -> Results]
    BY <2>1, <2>2, ReturnsType
  <2> QED
    BY <1>1, <1>3, <2>1, <2>3, <2>4 DEF Open, TypeOK
<1> QED
  BY <1>2, <1>3

(* The begin of execute_sqlite_select or execute_sqlite.                   *)
LEMMA BeginTypes ==
  ASSUME TypeOK, NEW c \in Calls, NEW o \in Executes,
         \/ NotOpen(c, o) \/ PrepareFails(c, o)
         \/ \E text \in Texts : Prepare(c, o, text)
  PROVE  TypeOK'
<1>1. op' \in [Calls -> {"none", "open", "select", "execute"}]
  BY DEF TypeOK, NotOpen, PrepareFails, Prepare, Begins, Executes
<1>2. CASE NotOpen(c, o)
  <2>1. [Empty EXCEPT !.error = TRUE] \in Results
    BY EmptyType, Zenon DEF Results
  <2>2. /\ pc' \in [Calls -> {"idle", "bind", "loop", "row", "changes", "returned"}]
        /\ result' \in [Calls -> Results]
    BY <1>2, <2>1, ReturnsType DEF NotOpen
  <2> QED
    BY <1>1, <1>2, <2>2 DEF NotOpen, TypeOK, library
<1>3. CASE PrepareFails(c, o)
  <2>1. PICK ret :
          Returns(c, [Empty EXCEPT
                        !.error = TRUE,
                        !.code = IF o = "select" THEN M_get_sql_error_code(ret) ELSE @])
    BY <1>3 DEF PrepareFails
  <2> DEFINE code == IF o = "select" THEN M_get_sql_error_code(ret) ELSE Empty.code
  <2>2. code \in SqlCodes
    BY CodeType, EmptyType DEF Results
  <2> HIDE DEF code
  <2>3. [Empty EXCEPT !.error = TRUE, !.code = code] \in Results
    BY <2>2, EmptyType, Zenon DEF Results
  <2>4. /\ pc' \in [Calls -> {"idle", "bind", "loop", "row", "changes", "returned"}]
        /\ result' \in [Calls -> Results]
    BY <2>1, <2>3, ReturnsType DEF code
  <2>5. sql' \in [Calls -> Texts]
    BY <1>3 DEF PrepareFails, TypeOK, Texts
  <2> QED
    BY <1>1, <1>3, <2>4, <2>5 DEF PrepareFails, TypeOK, Origins, library
<1>4. ASSUME NEW text \in Texts, Prepare(c, o, text) PROVE TypeOK'
  BY <1>1, <1>4 DEF Prepare, TypeOK, Origins
<1> QED
  BY <1>2, <1>3, <1>4

(* Arguments are bound and columns counted.                                *)
LEMMA BindTypes ==
  ASSUME TypeOK, NEW c \in Calls, Bind(c) \/ CountColumns(c) PROVE TypeOK'
<1>1. local[c] \in Locals /\ Args \in Nat
  BY ConstantsAssumption DEF TypeOK, ConstantsAssumption
<1>2. CASE Bind(c)
  <2>1. local[c].args \in 0..Args /\ local[c].args < Args
    BY <1>1, <1>2 DEF Bind, Locals
  <2>2. local' = [local EXCEPT ![c] = [local[c] EXCEPT !.args = @ + 1]]
    BY <1>2 DEF Bind, TypeOK
  <2>3. [local[c] EXCEPT !.args = @ + 1] \in Locals
    BY <1>1, <2>1 DEF Locals
  <2>4. local' \in [Calls -> Locals]
    BY <2>2, <2>3 DEF TypeOK
  <2>5. \A s \in Calls : [bound[s] EXCEPT ![local[c].args + 1] = c] \in Params
    BY <1>1, <2>1 DEF TypeOK, Params, Origins
  <2>6. bound' \in [Calls -> Params]
    BY <1>2, <2>5 DEF Bind, TypeOK
  <2> QED
    BY <1>2, <2>4, <2>6 DEF Bind, TypeOK
<1>3. CASE CountColumns(c)
  <2> DEFINE n == IF M_sqlite_stmt # NoCall /\ sql[M_sqlite_stmt] = "select"
                  THEN Columns ELSE 0
  <2>1. n \in {0, Columns}
    OBVIOUS
  <2> HIDE DEF n
  <2>2. [local[c] EXCEPT !.columns = n] \in Locals
    BY <1>1, <2>1 DEF Locals
  <2>3. local' = [local EXCEPT ![c] = [local[c] EXCEPT !.columns = n]]
    BY <1>3 DEF CountColumns, TypeOK, n
  <2>4. local' \in [Calls -> Locals]
    BY <2>2, <2>3 DEF TypeOK
  <2> QED
    BY <1>3, <2>4 DEF CountColumns, TypeOK, library
<1> QED
  BY <1>2, <1>3

(* A row and its values, a result and its rows.                            *)
LEMMA RowType ==
  ASSUME NEW l \in Locals, NEW row \in Seq(Origins)
  PROVE  [l EXCEPT !.row = row] \in Locals
BY Zenon DEF Locals

LEMMA RowsType ==
  ASSUME NEW r \in Results, NEW row \in Seq(Origins)
  PROVE  [r EXCEPT !.rows = Append(@, row)] \in Results
<1> DEFINE rows == Append(r.rows, row)
<1>1. r.rows \in Seq(Seq(Origins))
  BY Zenon DEF Results
<1>2. rows \in Seq(Seq(Origins))
  BY <1>1
<1> HIDE DEF rows
<1>3. [r EXCEPT !.rows = rows] \in Results
  BY <1>2, Zenon DEF Results
<1> QED
  BY <1>3 DEF rows

(* The loop of execute_sqlite_select.                                      *)
LEMMA LoopTypes ==
  ASSUME TypeOK, NEW c \in Calls,
         SelectRow(c) \/ ReadColumn(c) \/ PushRow(c) \/ SelectEnd(c)
  PROVE  TypeOK'
<1>1. /\ local[c] \in Locals /\ result[c] \in Results
      /\ M_sqlite_stmt \in Origins
  BY DEF TypeOK
<1>2. CASE SelectRow(c)
  <2>1. [local[c] EXCEPT !.row = <<>>] \in Locals
    <3> DEFINE none == <<>>
    <3>1. none \in Seq(Origins)
      OBVIOUS
    <3> HIDE DEF none
    <3>2. [local[c] EXCEPT !.row = none] \in Locals
      BY <1>1, <3>1, RowType
    <3> QED
      BY <3>2 DEF none
  <2>2. local' = [local EXCEPT ![c] = [local[c] EXCEPT !.row = <<>>]]
    BY <1>2 DEF SelectRow, TypeOK
  <2>3. local' \in [Calls -> Locals]
    BY <2>1, <2>2 DEF TypeOK
  <2>4. sqlite3_step(M_sqlite_stmt, "ROW")
    BY <1>2 DEF SelectRow
  <2> QED
    BY <1>1, <1>2, <2>3, <2>4, StepType DEF SelectRow, TypeOK
<1>3. CASE ReadColumn(c)
  <2> DEFINE v == IF M_sqlite_stmt # NoCall /\ stmt[M_sqlite_stmt] = "row"
                  THEN M_sqlite_stmt ELSE NoCall
  <2>1. v \in Origins
    BY <1>1 DEF Origins
  <2> HIDE DEF v
  <2>2. [local[c] EXCEPT !.row = Append(@, v)] \in Locals
    <3>1. local[c].row \in Seq(Origins)
      BY <1>1, Zenon DEF Locals
    <3>2. Append(local[c].row, v) \in Seq(Origins)
      BY <2>1, <3>1
    <3> QED
      BY <1>1, <3>2, RowType
  <2>3. local' = [local EXCEPT ![c] = [local[c] EXCEPT !.row = Append(@, v)]]
    BY <1>3 DEF ReadColumn, TypeOK, v
  <2>4. local' \in [Calls -> Locals]
    BY <2>2, <2>3 DEF TypeOK
  <2> QED
    BY <1>3, <2>4 DEF ReadColumn, TypeOK, library
<1>4. CASE PushRow(c)
  <2>1. local[c].row \in Seq(Origins)
    BY <1>1 DEF Locals
  <2>2. [result[c] EXCEPT !.rows = Append(@, local[c].row)] \in Results
    BY <1>1, <2>1, RowsType
  <2>3. result' = [result EXCEPT
                     ![c] = [result[c] EXCEPT !.rows = Append(@, local[c].row)]]
    BY <1>4 DEF PushRow, TypeOK
  <2>4. result' \in [Calls -> Results]
    BY <2>2, <2>3 DEF TypeOK
  <2> QED
    BY <1>4, <2>4 DEF PushRow, TypeOK, library
<1>5. CASE SelectEnd(c)
  <2>1. [result[c] EXCEPT !.status = TRUE] \in Results
    BY <1>1, Zenon DEF Results
  <2>2. PICK ret : sqlite3_step(M_sqlite_stmt, ret)
    BY <1>5 DEF SelectEnd
  <2>3. Returns(c, [result[c] EXCEPT !.status = TRUE])
    BY <1>5 DEF SelectEnd
  <2> QED
    BY <1>1, <1>5, <2>1, <2>2, <2>3, StepType, ReturnsType DEF SelectEnd, TypeOK
<1> QED
  BY <1>2, <1>3, <1>4, <1>5

(* The single step of execute_sqlite and what follows it.                  *)
LEMMA ExecuteTypes ==
  ASSUME TypeOK, NEW c \in Calls, ExecuteStep(c) \/ ReadChanges(c) PROVE TypeOK'
<1>1. result[c] \in Results /\ M_sqlite_stmt \in Origins
  BY DEF TypeOK
<1>2. CASE ExecuteStep(c)
  <2> DEFINE params == IF M_sqlite_stmt = NoCall THEN Unbound ELSE bound[M_sqlite_stmt]
             ran == [result[c] EXCEPT !.stepped = M_sqlite_stmt, !.params = params]
  <2>1. PICK ret :
          /\ sqlite3_step(M_sqlite_stmt, ret)
          /\ \/ /\ pc' = [pc EXCEPT ![c] = "changes"]
                /\ result' = [result EXCEPT ![c] = [ran EXCEPT !.status = TRUE]]
             \/ Returns(c, [ran EXCEPT !.code = M_get_sql_error_code(ret),
                                       !.error = TRUE])
    BY <1>2 DEF ExecuteStep
  <2>2. params \in Params
    BY <1>1, EmptyType DEF TypeOK, Origins
  <2> HIDE DEF params
  <2>3. ran \in Results
    BY <1>1, <2>2 DEF Results
  <2> HIDE DEF ran
  <2>4. [ran EXCEPT !.status = TRUE] \in Results
    BY <2>3, Zenon DEF Results
  <2>5. M_get_sql_error_code(ret) \in SqlCodes
    BY CodeType
  <2>6. [ran EXCEPT !.code = M_get_sql_error_code(ret), !.error = TRUE] \in Results
    BY <2>3, <2>5, Zenon DEF Results
  <2>7. /\ pc' \in [Calls -> {"idle", "bind", "loop", "row", "changes", "returned"}]
        /\ result' \in [Calls -> Results]
    <3>1. CASE Returns(c, [ran EXCEPT !.code = M_get_sql_error_code(ret),
                                      !.error = TRUE])
      BY <2>6, <3>1, ReturnsType
    <3>2. CASE /\ pc' = [pc EXCEPT ![c] = "changes"]
               /\ result' = [result EXCEPT ![c] = [ran EXCEPT !.status = TRUE]]
      BY <2>4, <3>2 DEF TypeOK
    <3> QED
      BY <2>1, <3>1, <3>2
  <2> QED
    BY <1>1, <1>2, <2>1, <2>7, StepType DEF ExecuteStep, TypeOK
<1>3. CASE ReadChanges(c)
  <2> DEFINE affected == changed[M_sqlite_ptr]
  <2>1. affected \in Origins
    BY <1>3 DEF TypeOK, ReadChanges
  <2> HIDE DEF affected
  <2>2. [result[c] EXCEPT !.affected = affected] \in Results
    BY <1>1, <2>1 DEF Results
  <2>3. Returns(c, [result[c] EXCEPT !.affected = affected])
    BY <1>3 DEF ReadChanges, affected
  <2> QED
    BY <1>3, <2>2, <2>3, ReturnsType DEF ReadChanges, TypeOK, library
<1> QED
  BY <1>2, <1>3

(* Every step keeps the types, with any number of calls in progress.       *)
LEMMA StepTypes == ASSUME TypeOK, [Next]_vars PROVE TypeOK'
<1>1. ASSUME NEW c \in Calls, Step(c) PROVE TypeOK'
  BY <1>1, OpenTypes, BeginTypes, BindTypes, LoopTypes, ExecuteTypes DEF Step
<1>2. CASE Destroy
  BY <1>2 DEF Destroy, TypeOK
<1>3. CASE UNCHANGED vars
  BY <1>3 DEF vars, library, TypeOK
<1> QED
  BY <1>1, <1>2, <1>3 DEF Next, Destroyed

(* TypeOK is inductive on its own.                                         *)
THEOREM TypeCorrect == Spec => []TypeOK
<1>1. Init => TypeOK
  BY EmptyType, NoLocalsType DEF Init, InitWith, TypeOK, Texts, Origins
<1>2. TypeOK /\ [Next]_vars => TypeOK'
  BY StepTypes
<1> QED
  BY <1>1, <1>2, PTL DEF Spec

-----------------------------------------------------------------------------
(* One call after the other: the invariant, for each call by itself.       *)

Busy == {"bind", "loop", "row", "changes"}

(* A row, and parameters, that are all of the call itself.                 *)
OwnRow(c) == [i \in 1..Columns |-> c]
OwnParams(c) == [i \in 1..Args |-> c]

(* A call that was not made has left no trace.                             *)
Unmade(c) ==
  pc[c] = "idle" =>
    /\ stmt[c] = "none" /\ completed[c] = 0 /\ result[c] = Empty
    /\ local[c] = NoLocals /\ M_sqlite_stmt # c

(* A call in progress has both pointers of the object for itself.          *)
Underway(c) ==
  pc[c] \in Busy =>
    /\ op[c] \in Executes
    /\ M_sqlite_stmt = IF sql[c] = "empty" THEN NoCall ELSE c
    /\ M_sqlite_ptr # NoConn
    /\ result[c].code = "SQL_SUCCESS"
    /\ \A i \in DOMAIN result[c].rows : result[c].rows[i] = OwnRow(c)
    /\ pc[c] # "changes" => completed[c] = 0 /\ ~result[c].status
    /\ sql[c] = "empty" => stmt[c] = "none"
    /\ sql[c] # "empty" => owner[c] = M_sqlite_ptr
    /\ pc[c] = "bind" /\ sql[c] # "empty" =>
         stmt[c] = "ready" /\ \A i \in 1..local[c].args : bound[c][i] = c
    /\ pc[c] \in {"loop", "row"} =>
         op[c] = "select" /\ (sql[c] = "select" => local[c].columns = Columns)
    /\ pc[c] = "row" =>
         /\ sql[c] = "select" /\ stmt[c] = "row"
         /\ Len(local[c].row) <= Columns
         /\ \A i \in DOMAIN local[c].row : local[c].row[i] = c
    /\ pc[c] = "changes" =>
         /\ op[c] = "execute"
         /\ completed[c] = 1 /\ result[c].status
         /\ result[c].stepped = c /\ result[c].params = OwnParams(c)
         /\ sql[c] = "change" => changed[M_sqlite_ptr] = c

(* What a call has returned.                                               *)
Answered(c) ==
  pc[c] = "returned" =>
    /\ op[c] = "execute" =>
         /\ result[c].status <=> /\ result[c].stepped = c
                                 /\ result[c].params = OwnParams(c)
                                 /\ completed[c] = 1
         /\ result[c].status /\ sql[c] = "change" => result[c].affected = c
    /\ op[c] = "select" =>
         \A i \in DOMAIN result[c].rows : result[c].rows[i] = OwnRow(c)
    /\ result[c].code # "SQL_SUCCESS" => ~result[c].status /\ result[c].error
    /\ stmt[c] = "row" => op[c] = "execute"

(* No call is in progress.                                                 *)
Idle == \A d \in Calls : pc[d] \notin Busy

OneByOne == \A c, d \in Calls : pc[c] \in Busy /\ pc[d] \in Busy => c = d

Inv ==
  /\ TypeOK
  /\ OneByOne
  /\ \A c \in Calls : Unmade(c) /\ Underway(c) /\ Answered(c)

(* No call is made, whatever connection there already is.                  *)
LEMMA InitInv == ASSUME NEW d \in Conns \cup {NoConn}, InitWith(d) PROVE Inv
<1>1. TypeOK
  BY EmptyType, NoLocalsType DEF InitWith, TypeOK, Texts, Origins
<1> QED
  BY <1>1, ConstantsAssumption
     DEF InitWith, Inv, OneByOne, Unmade, Underway, Answered, Busy,
         ConstantsAssumption

(* A call begins when no other is in progress.                             *)
LEMMA Alone ==
  ASSUME MaxActive = 1, Inv, NEW c, NEW o, Begins(c, o)
  PROVE  Idle
<1>1. IsFiniteSet(Active) /\ Cardinality(Active) \in Nat
  BY ConstantsAssumption, FS_Subset, FS_CardinalityType DEF ConstantsAssumption, Active
<1>2. Cardinality(Active) = 0
  BY <1>1 DEF Begins
<1>3. Active = {}
  BY <1>1, <1>2, FS_EmptySet
<1> QED
  BY <1>3 DEF Idle, Active, Busy

(* The calls that a step is not about: nothing of theirs changes, and none *)
(* of them is in progress.                                                 *)
LEMMA Others ==
  ASSUME Inv, NEW c \in Calls, NEW d \in Calls, d # c,
         pc'[d] = pc[d], op'[d] = op[d], sql'[d] = sql[d], result'[d] = result[d],
         stmt'[d] = stmt[d], completed'[d] = completed[d], local'[d] = local[d],
         M_sqlite_stmt' \in {M_sqlite_stmt, c, NoCall},
         pc[d] \notin Busy
  PROVE  Unmade(d)' /\ Underway(d)' /\ Answered(d)'
<1>1. Unmade(d) /\ Answered(d)
  BY DEF Inv
<1>2. Unmade(d)'
  BY <1>1, ConstantsAssumption DEF Unmade, ConstantsAssumption
<1>3. Underway(d)'
  BY DEF Underway
<1>4. Answered(d)'
  BY <1>1 DEF Answered
<1> QED
  BY <1>2, <1>3, <1>4

(* The invariant after a step of one call.                                 *)
LEMMA Together ==
  ASSUME Inv, TypeOK', NEW c \in Calls,
         \A d \in Calls \ {c} :
           /\ pc'[d] = pc[d] /\ op'[d] = op[d] /\ sql'[d] = sql[d]
           /\ result'[d] = result[d] /\ local'[d] = local[d]
           /\ stmt'[d] = stmt[d] /\ completed'[d] = completed[d]
           /\ pc[d] \notin Busy,
         M_sqlite_stmt' \in {M_sqlite_stmt, c, NoCall},
         Unmade(c)' /\ Underway(c)' /\ Answered(c)'
  PROVE  Inv'
<1>1. ASSUME NEW d \in Calls PROVE Unmade(d)' /\ Underway(d)' /\ Answered(d)'
  BY Others
<1>2. OneByOne'
  BY DEF OneByOne
<1> QED
  BY <1>1, <1>2 DEF Inv

(* A call that returns at once, with nothing prepared.                     *)
LEMMA AtOnce ==
  ASSUME Idle, Inv, TypeOK', NEW c \in Calls, NEW o, NEW r,
         Begins(c, o), Returns(c, r),
         r.rows = <<>>, r.stepped = NoCall, o # "open" => ~r.status,
         r.code # "SQL_SUCCESS" => ~r.status /\ r.error,
         UNCHANGED <<stmt, completed, local>>, M_sqlite_stmt' \in {M_sqlite_stmt, NoCall},
         \A d \in Calls \ {c} : sql'[d] = sql[d]
  PROVE  Inv'
<1>1. \A d \in Calls \ {c} :
        /\ pc'[d] = pc[d] /\ op'[d] = op[d] /\ result'[d] = result[d]
        /\ pc[d] \notin Busy
  BY DEF Idle, Begins, Returns, Inv, TypeOK
<1>2. /\ pc[c] = "idle" /\ pc'[c] = "returned"
      /\ op'[c] = o /\ result'[c] = r
  BY DEF Begins, Returns, Inv, TypeOK
<1>3. stmt[c] = "none" /\ completed[c] = 0
  BY <1>2 DEF Inv, Unmade
<1>4. Unmade(c)' /\ Underway(c)'
  BY <1>2 DEF Unmade, Underway, Busy
<1>5. UNCHANGED <<stmt, completed, local>> /\ NoCall # c
  BY ConstantsAssumption DEF ConstantsAssumption
<1>6. o = "execute" => ~r.status /\ r.stepped # c
  BY <1>5
<1>7. \A i \in DOMAIN r.rows : r.rows[i] = OwnRow(c)
  OBVIOUS
<1>8. Answered(c)'
  BY <1>2, <1>3, <1>5, <1>6, <1>7 DEF Answered
<1> QED
  BY <1>1, <1>4, <1>5, <1>8, Together

(* open_sqlite_database, a call without a connection, one that does not    *)
(* compile.                                                                *)
LEMMA BeginsAndEnds ==
  ASSUME Idle, Inv, TypeOK', NEW c \in Calls,
         \/ OpenRefused(c) \/ Open(c) \/ OpenOutOfMemory(c)
         \/ \E o \in Executes : NotOpen(c, o) \/ PrepareFails(c, o)
  PROVE  Inv'
<1>1. CASE OpenRefused(c) \/ OpenOutOfMemory(c)
  <2>1. /\ Begins(c, "open") /\ Returns(c, Empty)
        /\ UNCHANGED <<stmt, completed, local, M_sqlite_stmt, sql>>
    BY <1>1 DEF OpenRefused, OpenOutOfMemory, library
  <2> QED
    BY <2>1, AtOnce DEF Empty
<1>2. CASE Open(c)
  <2>1. PICK opened : Returns(c, [Empty EXCEPT !.status = opened])
    BY <1>2 DEF Open
  <2>2. Begins(c, "open") /\ UNCHANGED <<stmt, completed, local, M_sqlite_stmt, sql>>
    BY <1>2 DEF Open
  <2> DEFINE r == [Empty EXCEPT !.status = opened]
  <2>3. r.rows = <<>> /\ r.stepped = NoCall /\ r.code = "SQL_SUCCESS"
    BY Zenon DEF Empty
  <2> HIDE DEF r
  <2>4. Returns(c, r)
    BY <2>1 DEF r
  <2> QED
    BY <2>2, <2>3, <2>4, AtOnce
<1>3. ASSUME NEW o \in Executes, NotOpen(c, o) PROVE Inv'
  <2> DEFINE r == [Empty EXCEPT !.error = TRUE]
  <2>1. r.rows = <<>> /\ r.stepped = NoCall /\ r.code = "SQL_SUCCESS" /\ ~r.status
    BY Zenon DEF Empty
  <2>2. Returns(c, r)
    BY <1>3 DEF NotOpen
  <2>3. Begins(c, o) /\ UNCHANGED <<stmt, completed, local, M_sqlite_stmt, sql>>
    BY <1>3 DEF NotOpen, library
  <2> HIDE DEF r
  <2> QED
    BY <2>1, <2>2, <2>3, AtOnce
<1>4. ASSUME NEW o \in Executes, PrepareFails(c, o) PROVE Inv'
  <2>1. PICK ret :
          Returns(c, [Empty EXCEPT
                        !.error = TRUE,
                        !.code = IF o = "select" THEN M_get_sql_error_code(ret) ELSE @])
    BY <1>4 DEF PrepareFails
  <2> DEFINE code == IF o = "select" THEN M_get_sql_error_code(ret) ELSE Empty.code
             r == [Empty EXCEPT !.error = TRUE, !.code = code]
  <2>2. Returns(c, r)
    BY <2>1
  <2> HIDE DEF code
  <2>3. r.rows = <<>> /\ r.stepped = NoCall /\ ~r.status /\ r.error
    BY Zenon DEF Empty
  <2> HIDE DEF r
  <2>4. /\ Begins(c, o) /\ UNCHANGED <<stmt, completed, local>>
        /\ M_sqlite_stmt' = NoCall
        /\ \A d \in Calls \ {c} : sql'[d] = sql[d]
    BY <1>4 DEF PrepareFails, library, Inv, TypeOK
  <2> QED
    BY <2>2, <2>3, <2>4, AtOnce
<1> QED
  BY <1>1, <1>2, <1>3, <1>4

(* A call that has compiled its statement.                                 *)
LEMMA PrepareStep ==
  ASSUME Idle, Inv, TypeOK', NEW c \in Calls, NEW o \in Executes,
         NEW text \in Texts, Prepare(c, o, text)
  PROVE  Inv'
<1>1. \A d \in Calls : pc[d] \notin Busy
  BY DEF Idle
<1>2. \A d \in Calls \ {c} :
        /\ pc'[d] = pc[d] /\ op'[d] = op[d] /\ sql'[d] = sql[d]
        /\ result'[d] = result[d] /\ local'[d] = local[d]
        /\ stmt'[d] = stmt[d] /\ completed'[d] = completed[d]
        /\ pc[d] \notin Busy
  BY <1>1 DEF Prepare, Begins, Inv, TypeOK
<1>3. /\ pc[c] = "idle" /\ pc'[c] = "bind" /\ op'[c] = o /\ sql'[c] = text
      /\ result'[c] = result[c] /\ completed' = completed /\ local' = local
      /\ M_sqlite_ptr # NoConn /\ M_sqlite_ptr' = M_sqlite_ptr
      /\ M_sqlite_stmt' = IF text = "empty" THEN NoCall ELSE c
      /\ text # "empty" => stmt'[c] = "ready" /\ owner'[c] = M_sqlite_ptr
  BY DEF Prepare, Begins, Inv, TypeOK
<1>4. completed[c] = 0 /\ result[c] = Empty /\ local[c].args = 0
  BY <1>3 DEF Inv, Unmade, NoLocals
<1>5. Unmade(c)' /\ Answered(c)'
  BY <1>3 DEF Unmade, Answered
<1>6. Underway(c)'
  <2>1. text = "empty" => stmt'[c] = "none"
    BY <1>3 DEF Prepare, Inv, Unmade
  <2> QED
    BY <1>3, <1>4, <2>1 DEF Underway, Empty
<1> QED
  BY <1>2, <1>3, <1>5, <1>6, Together

(* The other calls, while one is in progress.                              *)
LEMMA OthersRest ==
  ASSUME Inv, NEW c \in Calls, pc[c] \in Busy
  PROVE  \A d \in Calls \ {c} : pc[d] \notin Busy
BY DEF Inv, OneByOne

(* An argument is bound to the call's own statement, or to none.           *)
LEMMA BindStep == ASSUME Inv, TypeOK', NEW c \in Calls, Bind(c) PROVE Inv'
<1>1. pc[c] = "bind" /\ pc[c] \in Busy /\ Underway(c) /\ TypeOK
  BY DEF Bind, Busy, Inv
<1>2. \A d \in Calls \ {c} :
        /\ pc'[d] = pc[d] /\ op'[d] = op[d] /\ sql'[d] = sql[d]
        /\ result'[d] = result[d] /\ local'[d] = local[d]
        /\ stmt'[d] = stmt[d] /\ completed'[d] = completed[d]
        /\ pc[d] \notin Busy
  BY <1>1, OthersRest DEF Bind, TypeOK
<1>3. UNCHANGED <<pc, op, sql, result, stmt, completed, owner, M_sqlite_ptr,
                  M_sqlite_stmt>>
  BY DEF Bind
<1>4. Unmade(c)' /\ Answered(c)'
  BY <1>1, <1>3 DEF Unmade, Answered
<1>5. local[c] \in Locals /\ local[c].args \in 0..Args /\ local[c].args < Args
  BY <1>1 DEF TypeOK, Locals, Bind
<1>6. local'[c].args = local[c].args + 1
  BY <1>1, <1>5 DEF Bind, TypeOK, Locals
<1>7. ASSUME sql[c] # "empty", NEW i \in 1..local'[c].args PROVE bound'[c][i] = c
  <2>1. M_sqlite_stmt = c /\ stmt[c] = "ready"
        /\ \A k \in 1..local[c].args : bound[c][k] = c
    BY <1>1, <1>7 DEF Underway, Busy
  <2>2. bound'[c] = [bound[c] EXCEPT ![local[c].args + 1] = c]
    BY <2>1 DEF Bind
  <2>3. bound[c] \in [1..Args -> Origins] /\ Args \in Nat
    BY <1>1, ConstantsAssumption DEF TypeOK, Params, ConstantsAssumption
  <2>4. i \in 1..local[c].args \/ i = local[c].args + 1
    BY <1>5, <1>6, <1>7
  <2> QED
    BY <1>5, <2>1, <2>2, <2>3, <2>4
<1>8. Underway(c)'
  BY <1>1, <1>3, <1>7 DEF Underway, Busy
<1> QED
  BY <1>2, <1>3, <1>4, <1>8, Together

(* The columns are those of the call's own query.                          *)
LEMMA CountColumnsStep ==
  ASSUME Inv, TypeOK', NEW c \in Calls, CountColumns(c) PROVE Inv'
<1>1. /\ pc[c] = "bind" /\ op[c] = "select"
      /\ pc[c] \in Busy /\ Underway(c) /\ TypeOK
  BY DEF CountColumns, AllBound, Busy, Inv
<1>2. \A d \in Calls \ {c} :
        /\ pc'[d] = pc[d] /\ op'[d] = op[d] /\ sql'[d] = sql[d]
        /\ result'[d] = result[d] /\ local'[d] = local[d]
        /\ stmt'[d] = stmt[d] /\ completed'[d] = completed[d]
        /\ pc[d] \notin Busy
  BY <1>1, OthersRest DEF CountColumns, TypeOK, library
<1>3. UNCHANGED <<op, sql, result, stmt, completed, owner, M_sqlite_ptr,
                  M_sqlite_stmt>>
  BY DEF CountColumns, library
<1>4. pc'[c] = "loop"
  BY <1>1 DEF CountColumns, TypeOK
<1>5. Unmade(c)' /\ Answered(c)'
  BY <1>4 DEF Unmade, Answered
<1>6. sql[c] = "select" => local'[c].columns = Columns
  <2> SUFFICES ASSUME sql[c] = "select" PROVE local'[c].columns = Columns
    OBVIOUS
  <2>1. M_sqlite_stmt = c /\ c # NoCall
    BY <1>1, ConstantsAssumption DEF Underway, Busy, ConstantsAssumption
  <2>2. local[c] \in Locals
    BY <1>1 DEF TypeOK
  <2> QED
    BY <1>1, <2>1, <2>2 DEF CountColumns, TypeOK, Locals
<1>7. Underway(c)'
  BY <1>1, <1>3, <1>4, <1>6 DEF Underway, Busy
<1> QED
  BY <1>2, <1>3, <1>5, <1>7, Together

(* A step of the library is one of the call's own statement, or of none.   *)
LEMMA OwnStep ==
  ASSUME Inv, NEW c \in Calls, pc[c] \in {"bind", "loop"}, NEW ret,
         ret \in StepReturns(M_sqlite_stmt), sqlite3_step(M_sqlite_stmt, ret)
  PROVE  /\ \A d \in Calls \ {c} : stmt'[d] = stmt[d] /\ completed'[d] = completed[d]
         /\ \/ /\ sql[c] = "empty" /\ M_sqlite_stmt = NoCall /\ ret = "MISUSE"
               /\ stmt'[c] = stmt[c] /\ completed'[c] = 0
            \/ /\ sql[c] # "empty" /\ M_sqlite_stmt = c /\ M_sqlite_ptr \in Conns
               /\ completed'[c] = IF ret = "DONE" THEN 1 ELSE 0
               /\ stmt'[c] = "row" <=> ret = "ROW"
               /\ ret = "ROW" => sql[c] = "select"
               /\ sql[c] = "change" /\ ret = "DONE" => changed'[M_sqlite_ptr] = c
<1>1. Underway(c) /\ TypeOK /\ completed[c] = 0 /\ M_sqlite_ptr # NoConn
  BY DEF Inv, Underway, Busy
<1>2. M_sqlite_stmt = IF sql[c] = "empty" THEN NoCall ELSE c
  BY <1>1 DEF Underway, Busy
<1>3. \A d \in Calls \ {c} : stmt'[d] = stmt[d] /\ completed'[d] = completed[d]
  BY <1>2, ConstantsAssumption DEF sqlite3_step, ConstantsAssumption
<1>4. CASE sql[c] = "empty"
  BY <1>1, <1>2, <1>3, <1>4, ConstantsAssumption
     DEF sqlite3_step, StepReturns, ConstantsAssumption
<1>5. CASE sql[c] # "empty"
  <2>1. M_sqlite_stmt = c /\ owner[c] = M_sqlite_ptr /\ M_sqlite_ptr \in Conns
    BY <1>1, <1>2, <1>5 DEF Underway, Busy, TypeOK
  <2>2. completed'[c] = IF ret = "DONE" THEN 1 ELSE 0
    BY <1>1, <2>1 DEF sqlite3_step
  <2>3. stmt'[c] = "row" <=> ret = "ROW"
    BY <2>1 DEF sqlite3_step
  <2>4. sql[c] = "change" /\ ret = "DONE" => changed'[M_sqlite_ptr] = c
    BY <2>1, ConstantsAssumption DEF sqlite3_step, ConstantsAssumption
  <2>5. ret = "ROW" => sql[c] = "select"
    BY <2>1, ConstantsAssumption DEF StepReturns, ConstantsAssumption
  <2> QED
    BY <1>3, <1>5, <2>1, <2>2, <2>3, <2>4, <2>5
<1> QED
  BY <1>4, <1>5

(* The next row of the call's own query.                                   *)
LEMMA SelectRowStep ==
  ASSUME Inv, TypeOK', NEW c \in Calls, SelectRow(c) PROVE Inv'
<1>1. pc[c] = "loop" /\ pc[c] \in Busy /\ Underway(c) /\ TypeOK
  BY DEF SelectRow, Busy, Inv
<1>2. /\ \A d \in Calls \ {c} : stmt'[d] = stmt[d] /\ completed'[d] = completed[d]
      /\ sql[c] = "select" /\ M_sqlite_stmt = c /\ completed'[c] = 0
      /\ stmt'[c] = "row"
  BY <1>1, OwnStep DEF SelectRow
<1>3. \A d \in Calls \ {c} :
        /\ pc'[d] = pc[d] /\ op'[d] = op[d] /\ sql'[d] = sql[d]
        /\ result'[d] = result[d] /\ local'[d] = local[d]
        /\ stmt'[d] = stmt[d] /\ completed'[d] = completed[d]
        /\ pc[d] \notin Busy
  BY <1>1, <1>2, OthersRest DEF SelectRow, TypeOK
<1>4. UNCHANGED <<op, sql, result, M_sqlite_stmt, M_sqlite_ptr, owner>>
  BY DEF SelectRow, sqlite3_step
<1>5. pc'[c] = "row"
  BY <1>1 DEF SelectRow, TypeOK
<1>6. local[c] \in Locals
  BY <1>1 DEF TypeOK
<1>7. local'[c].row = <<>> /\ local'[c].columns = local[c].columns
  BY <1>1, <1>6 DEF SelectRow, TypeOK, Locals
<1>8. Unmade(c)' /\ Answered(c)'
  BY <1>5 DEF Unmade, Answered
<1>9. Columns \in Nat
  BY ConstantsAssumption DEF ConstantsAssumption
<1>10. Underway(c)'
  BY <1>1, <1>2, <1>4, <1>5, <1>7, <1>9 DEF Underway, Busy
<1> QED
  BY <1>3, <1>4, <1>8, <1>10, Together

(* A column of the row of the call's own query.                            *)
LEMMA ReadColumnStep ==
  ASSUME Inv, TypeOK', NEW c \in Calls, ReadColumn(c) PROVE Inv'
<1>1. pc[c] = "row" /\ pc[c] \in Busy /\ Underway(c) /\ TypeOK
  BY DEF ReadColumn, Busy, Inv
<1>2. \A d \in Calls \ {c} :
        /\ pc'[d] = pc[d] /\ op'[d] = op[d] /\ sql'[d] = sql[d]
        /\ result'[d] = result[d] /\ local'[d] = local[d]
        /\ stmt'[d] = stmt[d] /\ completed'[d] = completed[d]
        /\ pc[d] \notin Busy
  BY <1>1, OthersRest DEF ReadColumn, TypeOK, library
<1>3. UNCHANGED <<pc, op, sql, result, stmt, completed, owner, M_sqlite_ptr,
                  M_sqlite_stmt>>
  BY DEF ReadColumn, library
<1>4. Unmade(c)' /\ Answered(c)'
  BY <1>1, <1>3 DEF Unmade, Answered
<1>5. /\ M_sqlite_stmt = c /\ stmt[c] = "row" /\ c # NoCall
      /\ local[c].columns = Columns
      /\ \A i \in DOMAIN local[c].row : local[c].row[i] = c
  BY <1>1, ConstantsAssumption DEF Underway, Busy, ConstantsAssumption
<1>6. local[c] \in Locals /\ local[c].row \in Seq(Origins) /\ Columns \in Nat
  BY <1>1, ConstantsAssumption DEF TypeOK, Locals, ConstantsAssumption
<1>7. /\ local'[c].row = Append(local[c].row, c)
      /\ local'[c].columns = local[c].columns
  BY <1>5, <1>6 DEF ReadColumn, TypeOK, Locals
<1>8. Len(local[c].row) < Columns
  BY <1>5 DEF ReadColumn
<1>9. /\ Len(local'[c].row) <= Columns
      /\ \A i \in DOMAIN local'[c].row : local'[c].row[i] = c
  BY <1>5, <1>6, <1>7, <1>8
<1>10. Underway(c)'
  BY <1>1, <1>3, <1>5, <1>7, <1>9 DEF Underway, Busy
<1> QED
  BY <1>2, <1>3, <1>4, <1>10, Together

(* The row is complete and the call's own.                                 *)
LEMMA PushRowStep ==
  ASSUME Inv, TypeOK', NEW c \in Calls, PushRow(c) PROVE Inv'
<1>1. pc[c] = "row" /\ pc[c] \in Busy /\ Underway(c) /\ TypeOK
  BY DEF PushRow, Busy, Inv
<1>2. \A d \in Calls \ {c} :
        /\ pc'[d] = pc[d] /\ op'[d] = op[d] /\ sql'[d] = sql[d]
        /\ result'[d] = result[d] /\ local'[d] = local[d]
        /\ stmt'[d] = stmt[d] /\ completed'[d] = completed[d]
        /\ pc[d] \notin Busy
  BY <1>1, OthersRest DEF PushRow, TypeOK, library
<1>3. UNCHANGED <<op, sql, local, stmt, completed, owner, M_sqlite_ptr,
                  M_sqlite_stmt>>
  BY DEF PushRow, library
<1>4. pc'[c] = "loop"
  BY <1>1 DEF PushRow, TypeOK
<1>5. Unmade(c)' /\ Answered(c)'
  BY <1>4 DEF Unmade, Answered
<1>6. result[c] \in Results /\ local[c] \in Locals
  BY <1>1 DEF TypeOK
<1>7. local[c].row = OwnRow(c)
  <2>1. /\ local[c].row \in Seq(Origins)
        /\ Len(local[c].row) = Columns
        /\ \A i \in DOMAIN local[c].row : local[c].row[i] = c
    BY <1>1, <1>6 DEF Underway, Busy, PushRow, Locals
  <2> QED
    BY <2>1 DEF OwnRow
<1>8. result'[c] = [result[c] EXCEPT !.rows = Append(@, OwnRow(c))]
  BY <1>1, <1>7 DEF PushRow, TypeOK
<1>9. /\ result'[c].code = result[c].code
      /\ result'[c].status = result[c].status
      /\ result'[c].rows = Append(result[c].rows, OwnRow(c))
  BY <1>6, <1>8, Zenon DEF Results
<1>10. \A i \in DOMAIN result'[c].rows : result'[c].rows[i] = OwnRow(c)
  <2>1. result[c].rows \in Seq(Seq(Origins))
    BY <1>6 DEF Results
  <2>2. \A i \in DOMAIN result[c].rows : result[c].rows[i] = OwnRow(c)
    BY <1>1 DEF Underway, Busy
  <2> QED
    BY <1>9, <2>1, <2>2
<1>11. Underway(c)'
  BY <1>1, <1>3, <1>4, <1>9, <1>10 DEF Underway, Busy
<1> QED
  BY <1>2, <1>3, <1>5, <1>11, Together

(* The rows are at their end, or an error is taken for it.                 *)
LEMMA SelectEndStep ==
  ASSUME Inv, TypeOK', NEW c \in Calls, SelectEnd(c) PROVE Inv'
<1>1. pc[c] = "loop" /\ pc[c] \in Busy /\ Underway(c) /\ TypeOK /\ op[c] = "select"
  BY DEF SelectEnd, Busy, Inv, Underway
<1>2. PICK ret \in StepReturns(M_sqlite_stmt) \ {"ROW"} :
        /\ sqlite3_step(M_sqlite_stmt, ret)
        /\ Returns(c, [result[c] EXCEPT !.status = TRUE])
  BY DEF SelectEnd
<1>3. \A d \in Calls \ {c} :
        /\ pc'[d] = pc[d] /\ op'[d] = op[d] /\ sql'[d] = sql[d]
        /\ result'[d] = result[d] /\ local'[d] = local[d]
        /\ stmt'[d] = stmt[d] /\ completed'[d] = completed[d]
        /\ pc[d] \notin Busy
  BY <1>1, <1>2, OwnStep, OthersRest DEF SelectEnd, Returns
<1>4. pc'[c] = "returned" /\ result'[c] = [result[c] EXCEPT !.status = TRUE]
  BY <1>1, <1>2 DEF Returns, TypeOK
<1>5. result[c] \in Results
  BY <1>1 DEF TypeOK
<1>6. result'[c].code = result[c].code /\ result'[c].rows = result[c].rows
  BY <1>4, <1>5, Zenon DEF Results
<1>7. UNCHANGED <<op, sql, M_sqlite_stmt>>
  BY DEF SelectEnd
<1>8. stmt'[c] # "row"
  BY <1>1, <1>2, OwnStep DEF Underway, Busy
<1>9. Unmade(c)' /\ Underway(c)'
  BY <1>4 DEF Unmade, Underway, Busy
<1>10. Answered(c)'
  BY <1>1, <1>4, <1>6, <1>7, <1>8 DEF Answered, Underway, Busy
<1> QED
  BY <1>3, <1>7, <1>9, <1>10, Together

(* The one step of execute_sqlite.                                         *)
LEMMA ExecuteStepStep ==
  ASSUME Inv, TypeOK', NEW c \in Calls, ExecuteStep(c) PROVE Inv'
<1>1. pc[c] = "bind" /\ pc[c] \in Busy /\ Underway(c) /\ TypeOK /\ op[c] = "execute"
  BY DEF ExecuteStep, AllBound, Busy, Inv
<1> DEFINE params == IF M_sqlite_stmt = NoCall THEN Unbound ELSE bound[M_sqlite_stmt]
           ran == [result[c] EXCEPT !.stepped = M_sqlite_stmt, !.params = params]
<1>2. PICK ret \in StepReturns(M_sqlite_stmt) :
        /\ sqlite3_step(M_sqlite_stmt, ret)
        /\ \/ /\ Succeeds(ret)
              /\ pc' = [pc EXCEPT ![c] = "changes"]
              /\ result' = [result EXCEPT ![c] = [ran EXCEPT !.status = TRUE]]
           \/ /\ ~Succeeds(ret)
              /\ Returns(c, [ran EXCEPT !.code = M_get_sql_error_code(ret),
                                        !.error = TRUE])
  BY DEF ExecuteStep
<1> HIDE DEF params
<1>3. \A d \in Calls \ {c} : stmt'[d] = stmt[d] /\ completed'[d] = completed[d]
  BY <1>1, <1>2, OwnStep
<1>4. \A d \in Calls \ {c} :
        /\ pc'[d] = pc[d] /\ op'[d] = op[d] /\ sql'[d] = sql[d]
        /\ result'[d] = result[d] /\ local'[d] = local[d]
        /\ stmt'[d] = stmt[d] /\ completed'[d] = completed[d]
        /\ pc[d] \notin Busy
  <2>1. \E r, q : result' = [result EXCEPT ![c] = r] /\ pc' = [pc EXCEPT ![c] = q]
    BY <1>2, Zenon DEF Returns
  <2>2. UNCHANGED <<op, sql, local>>
    BY DEF ExecuteStep
  <2> QED
    BY <1>1, <1>3, <2>1, <2>2, OthersRest
<1>5. result[c] \in Results
  BY <1>1 DEF TypeOK
<1>6. UNCHANGED <<op, sql, M_sqlite_stmt, M_sqlite_ptr, owner, bound>>
  BY <1>2 DEF ExecuteStep, sqlite3_step
<1>7. sql[c] # "empty" => params = OwnParams(c)
  <2> SUFFICES ASSUME sql[c] # "empty" PROVE params = OwnParams(c)
    OBVIOUS
  <2>1. M_sqlite_stmt = c /\ c # NoCall
    BY <1>1, ConstantsAssumption DEF Underway, Busy, ConstantsAssumption
  <2>2. local[c].args = Args /\ \A i \in 1..local[c].args : bound[c][i] = c
    BY <1>1 DEF Underway, Busy, ExecuteStep, AllBound
  <2>3. bound[c] \in [1..Args -> Origins]
    BY <1>1 DEF TypeOK, Params
  <2> QED
    BY <2>1, <2>2, <2>3 DEF params, OwnParams
<1>8. \/ /\ sql[c] = "empty" /\ M_sqlite_stmt = NoCall /\ ret = "MISUSE"
         /\ stmt'[c] = stmt[c] /\ completed'[c] = 0
      \/ /\ sql[c] # "empty" /\ M_sqlite_stmt = c
         /\ completed'[c] = IF ret = "DONE" THEN 1 ELSE 0
         /\ stmt'[c] = "row" <=> ret = "ROW"
         /\ sql[c] = "change" /\ ret = "DONE" => changed'[M_sqlite_ptr] = c
  BY <1>1, <1>2, OwnStep
<1>9. CASE Succeeds(ret)
  <2>1. pc'[c] = "changes" /\ result'[c] = [ran EXCEPT !.status = TRUE]
    BY <1>1, <1>2, <1>9 DEF TypeOK
  <2>2. /\ result'[c].code = result[c].code /\ result'[c].rows = result[c].rows
        /\ result'[c].status /\ result'[c].params = params
        /\ result'[c].stepped = M_sqlite_stmt
    BY <1>5, <2>1, Zenon DEF Results
  <2>3. Unmade(c)' /\ Answered(c)'
    BY <2>1 DEF Unmade, Answered
  <2>4. sql[c] # "empty" /\ ret = "DONE"
    BY <1>8, <1>9 DEF Succeeds
  <2>5. Underway(c)'
    BY <1>1, <1>6, <1>7, <1>8, <2>1, <2>2, <2>4 DEF Underway, Busy
  <2> QED
    BY <1>4, <1>6, <2>3, <2>5, Together
<1>10. CASE ~Succeeds(ret)
  <2>1. /\ pc'[c] = "returned"
        /\ result'[c] = [ran EXCEPT !.code = M_get_sql_error_code(ret), !.error = TRUE]
    BY <1>1, <1>2, <1>10 DEF TypeOK, Returns
  <2>2. result'[c].error /\ result'[c].status = result[c].status
    BY <1>5, <2>1, Zenon DEF Results
  <2>3. ~result[c].status
    BY <1>1 DEF Underway, Busy
  <2>4. Unmade(c)' /\ Underway(c)'
    BY <2>1 DEF Unmade, Underway, Busy
  <2>5. completed'[c] = 0
    BY <1>8, <1>10 DEF Succeeds
  <2>6. Answered(c)'
    BY <1>1, <1>6, <2>1, <2>2, <2>3, <2>5 DEF Answered
  <2> QED
    BY <1>4, <1>6, <2>4, <2>6, Together
<1> QED
  BY <1>9, <1>10

(* sqlite3_changes.                                                        *)
LEMMA ReadChangesStep ==
  ASSUME Inv, TypeOK', NEW c \in Calls, ReadChanges(c) PROVE Inv'
<1>1. pc[c] = "changes" /\ pc[c] \in Busy /\ Underway(c) /\ TypeOK
  BY DEF ReadChanges, Busy, Inv
<1> DEFINE affected == changed[M_sqlite_ptr]
<1>2. Returns(c, [result[c] EXCEPT !.affected = affected])
  BY DEF ReadChanges
<1>3. sql[c] = "change" => affected = c
  BY <1>1 DEF Underway, Busy
<1> HIDE DEF affected
<1>4. UNCHANGED <<op, sql, local, M_sqlite_stmt, stmt, completed>>
  BY DEF ReadChanges, library
<1>5. \A d \in Calls \ {c} :
        /\ pc'[d] = pc[d] /\ op'[d] = op[d] /\ sql'[d] = sql[d]
        /\ result'[d] = result[d] /\ local'[d] = local[d]
        /\ stmt'[d] = stmt[d] /\ completed'[d] = completed[d]
        /\ pc[d] \notin Busy
  BY <1>1, <1>2, <1>4, OthersRest DEF Returns
<1>6. pc'[c] = "returned" /\ result'[c] = [result[c] EXCEPT !.affected = affected]
  BY <1>1, <1>2 DEF Returns, TypeOK
<1>7. result[c] \in Results
  BY <1>1 DEF TypeOK
<1>8. /\ result'[c].affected = affected /\ result'[c].code = result[c].code
      /\ result'[c].status = result[c].status
      /\ result'[c].stepped = result[c].stepped
      /\ result'[c].params = result[c].params
  BY <1>6, <1>7, Zenon DEF Results
<1>9. Unmade(c)' /\ Underway(c)'
  BY <1>6 DEF Unmade, Underway, Busy
<1>10. Answered(c)'
  BY <1>1, <1>3, <1>4, <1>6, <1>8 DEF Answered, Underway, Busy
<1> QED
  BY <1>4, <1>5, <1>9, <1>10, Together

(* The destructor: no call is in progress.                                 *)
LEMMA DestroyStep == ASSUME Inv, TypeOK', Destroy PROVE Inv'
<1>1. UNCHANGED <<pc, op, sql, result, local, completed, M_sqlite_stmt>>
  BY DEF Destroy
<1>2. \A c \in Calls : pc[c] \notin Busy
  BY DEF Destroy, Active, Busy
<1>3. ASSUME NEW c \in Calls PROVE Unmade(c)' /\ Underway(c)' /\ Answered(c)'
  <2>1. Unmade(c) /\ Answered(c)
    BY DEF Inv
  <2>2. stmt'[c] = IF c = M_sqlite_stmt THEN "finalized" ELSE stmt[c]
    BY DEF Destroy
  <2>3. Unmade(c)'
    BY <1>1, <2>1, <2>2 DEF Unmade
  <2>4. Underway(c)'
    BY <1>1, <1>2 DEF Underway
  <2>5. Answered(c)'
    BY <1>1, <2>1, <2>2 DEF Answered
  <2> QED
    BY <2>3, <2>4, <2>5
<1>4. OneByOne'
  BY <1>1, <1>2 DEF OneByOne
<1> QED
  BY <1>3, <1>4 DEF Inv

(* A step of a call that has begun alone.                                  *)
LEMMA SerialStep ==
  ASSUME Inv, NEW c \in Calls, Step(c), pc[c] = "idle" => Idle PROVE Inv'
<1>1. TypeOK'
  <2>1. [Next]_vars
    BY DEF Next
  <2> QED
    BY <2>1, StepTypes DEF Inv
<1>2. CASE \/ OpenRefused(c) \/ Open(c) \/ OpenOutOfMemory(c)
           \/ \E o \in Executes : NotOpen(c, o) \/ PrepareFails(c, o)
  <2>1. Idle
    BY <1>2 DEF OpenRefused, Open, OpenOutOfMemory, NotOpen, PrepareFails, Begins
  <2> QED
    BY <1>1, <1>2, <2>1, BeginsAndEnds
<1>3. ASSUME NEW o \in Executes, NEW text \in Texts, Prepare(c, o, text) PROVE Inv'
  <2>1. Idle
    BY <1>3 DEF Prepare, Begins
  <2> QED
    BY <1>1, <1>3, <2>1, PrepareStep
<1> QED
  BY <1>1, <1>2, <1>3, BindStep, CountColumnsStep, SelectRowStep, ReadColumnStep,
     PushRowStep, SelectEndStep, ExecuteStepStep, ReadChangesStep DEF Step

(* Only a call that is alone begins.                                       *)
LEMMA BeginsAlone ==
  ASSUME MaxActive = 1, Inv, NEW c \in Calls, Step(c), pc[c] = "idle" PROVE Idle
<1>1. \E o : Begins(c, o)
  BY DEF Step, OpenRefused, Open, OpenOutOfMemory, NotOpen, PrepareFails, Prepare,
         Bind, CountColumns, AllBound, SelectRow, ReadColumn, PushRow, SelectEnd,
         ExecuteStep, ReadChanges
<1> QED
  BY <1>1, Alone

(* All of the steps together.                                              *)
LEMMA InvStep == ASSUME MaxActive = 1, Inv, [Next]_vars PROVE Inv'
<1>1. ASSUME NEW c \in Calls, Step(c) PROVE Inv'
  BY <1>1, SerialStep, BeginsAlone
<1>2. CASE Destroy
  <2>1. [Next]_vars
    BY <1>2 DEF Next
  <2>2. TypeOK'
    BY <2>1, StepTypes DEF Inv
  <2> QED
    BY <1>2, <2>2, DestroyStep
<1>3. CASE UNCHANGED vars
  BY <1>3 DEF vars, library, Inv, OneByOne, Unmade, Underway, Answered, TypeOK
<1> QED
  BY <1>1, <1>2, <1>3 DEF Next, Destroyed

(* The invariant of one call after the other.                              *)
LEMMA InvHolds == ASSUME MaxActive = 1 PROVE Spec => []Inv
<1>1. Init => Inv
  BY InitInv DEF Init
<1>2. Inv /\ [Next]_vars => Inv'
  BY InvStep
<1> QED
  BY <1>1, <1>2, PTL DEF Spec

-----------------------------------------------------------------------------
(* Without overlapping calls, the status of execute_sqlite is the truth    *)
(* about its own statement and its own arguments.                          *)
THEOREM SerialStatusIsExact == ASSUME MaxActive = 1 PROVE Spec => []ExecuteStatusExact
<1>1. Inv => ExecuteStatusExact
  BY DEF Inv, Answered, OwnParams, ExecuteStatusExact, Returned
<1> QED
  BY InvHolds, <1>1, PTL

(* Without overlapping calls, a query returns complete rows of its own.    *)
THEOREM SerialRowsAreOwn == ASSUME MaxActive = 1 PROVE Spec => []RowsOwn
<1>1. Inv => RowsOwn
  <2> SUFFICES ASSUME Inv, NEW c \in Returned("select"), NEW i \in DOMAIN result[c].rows
               PROVE  result[c].rows[i] = [k \in 1..Columns |-> c]
    BY DEF RowsOwn, ToSet
  <2> QED
    BY DEF Inv, Answered, OwnRow, Returned
<1> QED
  BY InvHolds, <1>1, PTL

(* Without overlapping calls, the number of affected rows is the call's    *)
(* own.                                                                    *)
THEOREM SerialAffectedIsOwn == ASSUME MaxActive = 1 PROVE Spec => []AffectedRowsOwn
<1>1. Inv => AffectedRowsOwn
  BY DEF Inv, Answered, AffectedRowsOwn, Returned
<1> QED
  BY InvHolds, <1>1, PTL

(* Without overlapping calls, execute_sqlite_select never leaves a read    *)
(* lock behind.                                                            *)
THEOREM SerialSelectEndsReading ==
  ASSUME MaxActive = 1 PROVE Spec => []OnlyExecuteLeavesReader
<1>1. Inv => OnlyExecuteLeavesReader
  BY DEF Inv, TypeOK, Unmade, Answered, OnlyExecuteLeavesReader, Active
<1> QED
  BY InvHolds, <1>1, PTL

(* Without overlapping calls, an error code is never a false alarm: the    *)
(* call failed and has the text that says why.                             *)
THEOREM SerialCodeIsNoFalseAlarm ==
  ASSUME MaxActive = 1 PROVE Spec => []CodeOnlyOnFailure
<1>1. Inv => CodeOnlyOnFailure
  BY DEF Inv, Answered, CodeOnlyOnFailure
<1> QED
  BY InvHolds, <1>1, PTL
=============================================================================
