---------------------------- MODULE BackoffProofs ----------------------------
(***************************************************************************)
(* Proofs about the pauses. Numbers of this size are for the SMT solver    *)
(* alone.                                                                  *)
(***************************************************************************)
EXTENDS Backoff, TLAPS

(* The table of delay_ms, which shows that the recursion has a solution.   *)
(* From the 26th value on the int has wrapped around.                      *)
DelayTable ==
  <<100, 200, 400, 800, 1600, 3200,
    6400, 12800, 25600, 51200, 102400, 204800,
    409600, 819200, 1638400, 3276800, 6553600, 13107200,
    26214400, 52428800, 104857600, 209715200, 419430400, 838860800,
    1677721600, -939524096, -1879048192, 536870912, 1073741824, -2147483648,
    0, 0>>

(* The table solves the equation of delay_ms.                              *)
LEMMA TableSolves ==
  DelayTable = [a \in 1 .. 32 |-> IF a = 1 THEN 100 ELSE Doubled(DelayTable[a - 1])]
<1>1. \A a \in 2 .. 32 : DelayTable[a] = Doubled(DelayTable[a - 1])
  BY SMT DEF DelayTable, Doubled, Quarter
<1>2. DelayTable[1] = 100
  BY SMT DEF DelayTable
<1>3. DelayTable = [a \in 1 .. 32 |-> DelayTable[a]]
  BY SMT DEF DelayTable
<1> QED
  BY SMT, <1>1, <1>2, <1>3

(* Each delay is twice the one before, as the int has it.                  *)
LEMMA DelayEquation ==
  /\ delay_ms[1] = 100
  /\ \A a \in 2 .. 32 : delay_ms[a] = Doubled(delay_ms[a - 1])
<1>1. PICK f : f = [a \in 1 .. 32 |-> IF a = 1 THEN 100 ELSE Doubled(f[a - 1])]
  BY Zenon, TableSolves
<1>2. delay_ms = [a \in 1 .. 32 |-> IF a = 1 THEN 100 ELSE Doubled(delay_ms[a - 1])]
  BY Zenon, <1>1 DEF delay_ms
<1> QED
  BY SMT, <1>2

(* The delays are those of the table.                                      *)
LEMMA DelayValues == \A a \in 1 .. 32 : delay_ms[a] = DelayTable[a]
<1> DEFINE d(a) == delay_ms[a]
<1>1. d(1) = 100 /\ \A a \in 2 .. 32 : d(a) = Doubled(d(a - 1))
  BY SMT, DelayEquation
<1> HIDE DEF d
<1>2. /\ d(2) = 200 /\ d(3) = 400 /\ d(4) = 800 /\ d(5) = 1600 /\ d(6) = 3200
      /\ d(7) = 6400 /\ d(8) = 12800
  BY SMT, <1>1 DEF Doubled, Quarter
<1>3. /\ d(9) = 25600 /\ d(10) = 51200 /\ d(11) = 102400 /\ d(12) = 204800
      /\ d(13) = 409600 /\ d(14) = 819200 /\ d(15) = 1638400 /\ d(16) = 3276800
  BY SMT, <1>1, <1>2 DEF Doubled, Quarter
<1>4. /\ d(17) = 6553600 /\ d(18) = 13107200 /\ d(19) = 26214400
      /\ d(20) = 52428800 /\ d(21) = 104857600 /\ d(22) = 209715200
      /\ d(23) = 419430400 /\ d(24) = 838860800
  BY SMT, <1>1, <1>3 DEF Doubled, Quarter
<1>5. /\ d(25) = 1677721600 /\ d(26) = -939524096 /\ d(27) = -1879048192
      /\ d(28) = 536870912 /\ d(29) = 1073741824 /\ d(30) = -2147483648
      /\ d(31) = 0 /\ d(32) = 0
  BY SMT, <1>1, <1>4 DEF Doubled, Quarter
<1>6. \A a \in 1 .. 32 : d(a) = DelayTable[a]
  BY SMT, <1>1, <1>2, <1>3, <1>4, <1>5 DEF DelayTable
<1> QED
  BY SMT, <1>6 DEF d

(* Every delay is an int.                                                  *)
LEMMA DelayType == \A a \in 1 .. 32 : delay_ms[a] \in Int32
<1>1. \A a \in 1 .. 32 : DelayTable[a] \in Int32
  BY SMT DEF DelayTable, Int32, IntMin, IntMax, Quarter
<1> QED
  BY SMT, <1>1, DelayValues

(* Whatever is computed with integers stays one.                           *)
LEMMA PausesType == \A a \in 1 .. 32 : Pauses(a) \subseteq Int
<1> SUFFICES ASSUME NEW a \in 1 .. 32 PROVE Pauses(a) \subseteq Int
  OBVIOUS
<1>1. delay_ms[a] \in Int
  BY SMT, DelayType DEF Int32, IntMin, IntMax, Quarter
<1>2. \A x \in Int : Doubled(x) \in Int /\ Halved(x) \in Int
  BY SMT DEF Doubled, Halved, Quarter
<1>3. \A x, y \in Int : Plus(x, y) \in Int
  BY SMT DEF Plus, Quarter, IntMax, IntMin
<1>4. Halved(delay_ms[a]) \in Int
  BY Zenon, <1>1, <1>2
<1>5. Halved(Plus(delay_ms[a], Doubled(delay_ms[a]))) \in Int
  BY Zenon, <1>1, <1>2, <1>3
<1> QED
  BY Zenon, <1>4, <1>5 DEF Pauses

(* Without an overflow the arithmetic is that of the integers.             *)
LEMMA SmallIsExact ==
  ASSUME NEW d \in Nat, d <= 419430400, NEW h \in Nat, d = 2 * h
  PROVE  Halved(d) = h /\ Halved(Plus(d, Doubled(d))) = 3 * h
<1>1. IntMax = 2147483647 /\ Quarter = 1073741824
  BY SMT DEF IntMax, Quarter
<1>2. Doubled(d) = 4 * h
  BY SMT, <1>1 DEF Doubled
<1>3. Plus(d, 4 * h) = 6 * h
  BY SMT, <1>1 DEF Plus
<1>4. Halved(d) = h /\ Halved(6 * h) = 3 * h
  BY SMT DEF Halved
<1> QED
  BY SMT, <1>2, <1>3, <1>4

(* The part of the table that no overflow is near to.                      *)
LEMMA TableShape ==
  /\ \A a \in 1 .. 23 : DelayTable[a] \in Nat
  /\ \A a \in 1 .. 23 : DelayTable[a] >= 100
  /\ \A a \in 1 .. 23 : DelayTable[a] <= 419430400
  /\ \A a \in 3 .. 23 : DelayTable[a] = 4 * DelayTable[a - 2]
<1>1. \A a \in 1 .. 23 : DelayTable[a] \in Nat
  BY SMT DEF DelayTable
<1>2. \A a \in 1 .. 23 : DelayTable[a] >= 100
  BY SMT DEF DelayTable
<1>3. \A a \in 1 .. 23 : DelayTable[a] <= 419430400
  BY SMT DEF DelayTable
<1>4. \A a \in 3 .. 23 : DelayTable[a] = 4 * DelayTable[a - 2]
  BY SMT DEF DelayTable
<1> QED
  BY SMT, <1>1, <1>2, <1>3, <1>4

(* Up to LastExact no delay overflows when it is tripled: each one is      *)
(* twice the one before, from 100 on, and its pause is drawn between a     *)
(* half and three halves of it.                                            *)
THEOREM PausesExact ==
  \A a \in 1 .. LastExact :
    /\ delay_ms[a] \in Nat /\ delay_ms[a] >= 100
    /\ a > 2 => delay_ms[a] = 4 * delay_ms[a - 2]
    /\ \A p \in Pauses(a) : delay_ms[a] <= 2 * p /\ 2 * p <= 3 * delay_ms[a]
<1> SUFFICES ASSUME NEW a \in 1 .. LastExact
             PROVE  /\ delay_ms[a] \in Nat /\ delay_ms[a] >= 100
                    /\ a > 2 => delay_ms[a] = 4 * delay_ms[a - 2]
                    /\ \A p \in Pauses(a) :
                         delay_ms[a] <= 2 * p /\ 2 * p <= 3 * delay_ms[a]
  OBVIOUS
<1>1. a \in 1 .. 23
  BY SMT DEF LastExact
<1>2. /\ DelayTable[a] \in Nat /\ DelayTable[a] >= 100
      /\ DelayTable[a] <= 419430400
      /\ a > 2 => DelayTable[a] = 4 * DelayTable[a - 2]
  BY SMT, <1>1, TableShape
<1>3. \E h \in Nat : DelayTable[a] = 2 * h
  <2>1. \/ DelayTable[a] = 100
        \/ a - 1 \in 1 .. 22 /\ DelayTable[a] = 2 * DelayTable[a - 1]
                             /\ DelayTable[a - 1] \in Nat
    BY SMT, <1>1 DEF DelayTable
  <2>2. 100 = 2 * 50 /\ 50 \in Nat
    BY SMT
  <2> QED
    BY Zenon, <2>1, <2>2
<1>4. /\ delay_ms[a] = DelayTable[a]
      /\ a > 2 => delay_ms[a - 2] = DelayTable[a - 2]
  BY SMT, <1>1, DelayValues
<1>5. PICK h \in Nat : delay_ms[a] = 2 * h
  BY Zenon, <1>3, <1>4
<1>6. delay_ms[a] \in Nat /\ delay_ms[a] <= 419430400 /\ delay_ms[a] >= 100
  BY SMT, <1>2, <1>4
<1>7. Pauses(a) = {h, 3 * h}
  <2> DEFINE d == delay_ms[a]
  <2>1. d \in Nat /\ d <= 419430400 /\ d = 2 * h
    BY SMT, <1>5, <1>6
  <2> HIDE DEF d
  <2>2. Halved(d) = h /\ Halved(Plus(d, Doubled(d))) = 3 * h
    BY SMT, <2>1, SmallIsExact
  <2> QED
    BY Zenon, <2>2 DEF Pauses, d
<1>8. \A p \in Pauses(a) : delay_ms[a] <= 2 * p /\ 2 * p <= 3 * delay_ms[a]
  BY SMT, <1>5, <1>7
<1> QED
  BY SMT, <1>2, <1>4, <1>6, <1>8

(* The first delay that overflows when it is tripled.                      *)
LEMMA TripledOverflows ==
  ASSUME NEW d \in Nat, d = 838860800
  PROVE  Halved(Plus(d, Doubled(d))) < 0 /\ Halved(d) >= 0
<1>1. IntMax = 2147483647 /\ Quarter = 1073741824
  BY SMT DEF IntMax, Quarter
<1>2. Doubled(d) = 1677721600
  BY SMT, <1>1 DEF Doubled
<1>3. Plus(d, 1677721600) = -1778384896
  BY SMT, <1>1 DEF Plus
<1>4. Halved(-1778384896) < 0 /\ Halved(d) >= 0
  BY SMT DEF Halved
<1> QED
  BY SMT, <1>2, <1>3, <1>4

(* LastExact is the last one: the pause of the next retry may be drawn     *)
(* from a range that has one end below zero, and its ends swapped.         *)
THEOREM NoPauseIsExactBeyond ==
  LET a == LastExact + 1 IN \E p \in Pauses(a) : p < 0 /\ p < Halved(delay_ms[a])
<1> DEFINE a == LastExact + 1
           d == delay_ms[a]
           p == Halved(Plus(d, Doubled(d)))
<1>1. d \in Nat /\ d = 838860800
  <2>1. a = 24 /\ DelayTable[24] = 838860800
    BY SMT DEF LastExact, DelayTable
  <2> QED
    BY SMT, <2>1, DelayValues
<1>2. p \in Pauses(a)
  BY Zenon DEF Pauses
<1> HIDE DEF d
<1>3. p < 0 /\ Halved(d) >= 0
  BY SMT, <1>1, TripledOverflows
<1>4. p \in Int /\ Halved(d) \in Int
  BY SMT, <1>1 DEF Halved, Plus, Doubled, IntMax, IntMin, Quarter
<1> HIDE DEF p
<1>5. p < 0 /\ p < Halved(d)
  BY SMT, <1>3, <1>4
<1> QED
  BY Zenon, <1>2, <1>5 DEF d
=============================================================================
