-------------------------------- MODULE Backoff --------------------------------
(***************************************************************************)
(* The pause before a retry in mysql_connect_to_service_retry: doubled     *)
(* from one retry to the next and spread by half of itself to either side, *)
(* all in the int of the code, whose overflow wraps around as compilers    *)
(* for two's complement machines have it. No operator here leaves that     *)
(* range on the way to its result.                                         *)
(***************************************************************************)
EXTENDS Integers, Sequences

Quarter == 2 ^ 30
IntMax == Quarter - 1 + Quarter
IntMin == -Quarter - Quarter
Int32 == IntMin .. IntMax

(* 2 * x and x + y modulo 2^32, x \div 2 rounded towards zero.             *)
Doubled(x) ==
  IF x >= Quarter THEN 2 * (x - Quarter - Quarter)
  ELSE IF x < -Quarter THEN 2 * (x + Quarter + Quarter)
  ELSE 2 * x

Plus(x, y) ==
  IF x > 0 /\ y > IntMax - x THEN (x - Quarter - Quarter) + (y - Quarter - Quarter)
  ELSE IF x < 0 /\ y < IntMin - x THEN (x + Quarter + Quarter) + (y + Quarter + Quarter)
  ELSE x + y

Halved(x) == IF x >= 0 THEN x \div 2 ELSE (x + 1) \div 2

(* delay_ms for an attempt of at least 1: 100 * (1 << (attempt - 1)). The  *)
(* shift itself is defined up to 31.                                       *)
delay_ms[attempt \in 1 .. 32] ==
  IF attempt = 1 THEN 100 ELSE Doubled(delay_ms[attempt - 1])

(* Mutant of Pauses: the random pause starts at nothing.                   *)
PausesFromZero(attempt) ==
  {0, Halved(Plus(delay_ms[attempt], Doubled(delay_ms[attempt])))}

(* The ends of the range that the jittered pause is drawn from. A range    *)
(* with its ends swapped is drawn from all the same.                       *)
Pauses(attempt) ==
  {Halved(delay_ms[attempt]),
   Halved(Plus(delay_ms[attempt], Doubled(delay_ms[attempt])))}

(* The last retry whose pause is computed without an overflow.             *)
LastExact == 23
=============================================================================
