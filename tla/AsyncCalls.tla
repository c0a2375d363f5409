------------------------------ MODULE AsyncCalls ------------------------------
(***************************************************************************)
(* What the asynchronous operations promise to a program that calls them:  *)
(* every accepted call is answered, its callback runs exactly once, and    *)
(* has returned before the program's pool is gone; after the end of the    *)
(* program has begun, only a callback can start another call. All of this  *)
(* is promised only until two calls that nobody has answered yet run into  *)
(* each other. Then anything may happen, and the specification stops.      *)
(***************************************************************************)
CONSTANT Calls     \* the calls that a program can make

VARIABLES
  accepted,        \* the calls that were made
  answered,        \* the calls whose outcome is known
  delivered,       \* the calls whose callback has returned
  phase,           \* of the pool: "open", "closing" or "closed"
  broken           \* two calls have overlapped

vars == <<accepted, answered, delivered, phase, broken>>

Init ==
  /\ accepted = {}
  /\ answered = {}
  /\ delivered = {}
  /\ phase = "open"
  /\ broken = FALSE

Accept(c) ==
  /\ ~broken
  /\ phase = "open" \/ (phase = "closing" /\ answered \ delivered # {})
  /\ c \notin accepted
  /\ accepted' = accepted \cup {c}
  /\ UNCHANGED <<answered, delivered, phase, broken>>

Answer(c) ==
  /\ ~broken
  /\ c \in accepted \ answered
  /\ answered' = answered \cup {c}
  /\ UNCHANGED <<accepted, delivered, phase, broken>>

Deliver(c) ==
  /\ ~broken
  /\ c \in answered \ delivered
  /\ delivered' = delivered \cup {c}
  /\ UNCHANGED <<accepted, answered, phase, broken>>

Break ==
  /\ ~broken
  /\ \E c, d \in accepted \ answered : c # d
  /\ broken' = TRUE
  /\ UNCHANGED <<accepted, answered, delivered, phase>>

Close ==
  /\ ~broken
  /\ phase = "open"
  /\ phase' = "closing"
  /\ UNCHANGED <<accepted, answered, delivered, broken>>

Closed ==
  /\ ~broken
  /\ phase = "closing"
  /\ accepted = delivered
  /\ phase' = "closed"
  /\ UNCHANGED <<accepted, answered, delivered, broken>>

Next ==
  \/ \E c \in Calls : Accept(c) \/ Answer(c) \/ Deliver(c)
  \/ Break
  \/ Close
  \/ Closed

SafetySpec == Init /\ [][Next]_vars

(* A program that ends gets all its answers, and then its end.             *)
Spec ==
  /\ SafetySpec
  /\ \A c \in Calls : WF_vars(phase = "closing" /\ (Answer(c) \/ Deliver(c)))
  /\ WF_vars(Closed)
=============================================================================
