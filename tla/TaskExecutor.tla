---------------------------- MODULE TaskExecutor ----------------------------
(***************************************************************************)
(* What a task executor that is shut down by its destructor promises to    *)
(* the code that posts to it, with no threads, locks, counters or          *)
(* condition variables in sight:                                           *)
(*                                                                         *)
(*   - a posted task is started at most once, in the order of posting;     *)
(*   - no more tasks run at once than the executor has threads;            *)
(*   - while the executor closes, only a task that is still running can    *)
(*     post another one (a completion callback, in this library);          *)
(*   - the executor is closed only when nothing is waiting or running, and *)
(*     once it starts to close it is eventually closed.                    *)
(*                                                                         *)
(* SqlThread implements this specification.                                *)
(***************************************************************************)
EXTENDS Naturals, Sequences, FiniteSets, SequencesExt

CONSTANTS
  Tasks,           \* the tasks that can be posted
  Size             \* how many threads there are to run them

VARIABLES
  backlog,         \* the accepted tasks not yet started, oldest first
  running,         \* the tasks being executed
  finished,        \* the tasks whose execution has returned
  phase            \* "open", "closing" (destructor entered) or "closed"

vars == <<backlog, running, finished, phase>>

TypeOK ==
  /\ backlog \in Seq(Tasks)
  /\ running \in SUBSET Tasks
  /\ finished \in SUBSET Tasks
  /\ phase \in {"open", "closing", "closed"}

Init ==
  /\ backlog = <<>>
  /\ running = {}
  /\ finished = {}
  /\ phase = "open"

Known == ToSet(backlog) \cup running \cup finished

Accept(t) ==
  /\ \/ phase = "open"
     \/ phase = "closing" /\ running # {}
  /\ t \notin Known
  /\ backlog' = Append(backlog, t)
  /\ UNCHANGED <<running, finished, phase>>

Start ==
  /\ phase # "closed"
  /\ backlog # <<>>
  /\ Cardinality(running) < Size
  /\ running' = running \cup {Head(backlog)}
  /\ backlog' = Tail(backlog)
  /\ UNCHANGED <<finished, phase>>

Finish(t) ==
  /\ t \in running
  /\ running' = running \ {t}
  /\ finished' = finished \cup {t}
  /\ UNCHANGED <<backlog, phase>>

Close ==
  /\ phase = "open"
  /\ phase' = "closing"
  /\ UNCHANGED <<backlog, running, finished>>

Closed ==
  /\ phase = "closing"
  /\ backlog = <<>>
  /\ running = {}
  /\ phase' = "closed"
  /\ UNCHANGED <<backlog, running, finished>>

Next ==
  \/ \E t \in Tasks : Accept(t) \/ Finish(t)
  \/ Start
  \/ Close
  \/ Closed

(* The safety part, on its own so that a refinement of it can be stated.   *)
SafetySpec == Init /\ [][Next]_vars

(* A closing executor works until it is closed. Nothing is promised about  *)
(* an open one: sql_thread may leave its whole backlog to the destructor.  *)
Spec ==
  /\ SafetySpec
  /\ WF_vars(phase = "closing" /\ Start)
  /\ \A t \in Tasks : WF_vars(Finish(t))
  /\ WF_vars(Closed)
=============================================================================
