------------------------------- MODULE Connector -------------------------------
(***************************************************************************)
(* What mysql_connect_database promises to a program, with no structures,  *)
(* options, retries or pauses in sight:                                    *)
(*                                                                         *)
(*   - a call begins by giving up the connection of the call before;       *)
(*   - it makes at most one connection, and answers whether it has;        *)
(*   - it is answered, unless the program dies first, which it can only    *)
(*     while it has no connection;                                         *)
(*   - the connection is there until the next call, or the object's end.   *)
(***************************************************************************)
VARIABLES
  phase,    \* "idle", "calling", "dead" (the program) or "gone" (the object)
  up,       \* there is a connection
  answer    \* what the last call has returned: "none", "true" or "false"

vars == <<phase, up, answer>>

Init ==
  /\ phase = "idle"
  /\ up = FALSE
  /\ answer = "none"

Call ==
  /\ phase = "idle"
  /\ phase' = "calling"
  /\ up' = FALSE
  /\ answer' = "none"

Establish ==
  /\ phase = "calling"
  /\ ~up
  /\ up' = TRUE
  /\ UNCHANGED <<phase, answer>>

Answer ==
  /\ phase = "calling"
  /\ phase' = "idle"
  /\ answer' = IF up THEN "true" ELSE "false"
  /\ UNCHANGED up

Die ==
  /\ phase = "calling"
  /\ ~up
  /\ phase' = "dead"
  /\ UNCHANGED <<up, answer>>

Drop ==
  /\ phase = "idle"
  /\ phase' = "gone"
  /\ up' = FALSE
  /\ UNCHANGED answer

Next == Call \/ Establish \/ Answer \/ Die \/ Drop

SafetySpec == Init /\ [][Next]_vars

(* No call goes on for ever.                                               *)
Spec == SafetySpec /\ WF_vars(Answer)
=============================================================================
