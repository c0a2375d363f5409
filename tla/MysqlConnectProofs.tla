-------------------------- MODULE MysqlConnectProofs --------------------------
(***************************************************************************)
(* Proofs about MysqlConnect, for any structures, any settings and any     *)
(* numbers of retries that the shift of the pause is defined for.          *)
(***************************************************************************)
EXTENDS MysqlConnect, BackoffProofs, TLAPS

-----------------------------------------------------------------------------
(* The strengthening of the properties.                                    *)

Calling == {"first", "random", "try"}

(* Where a connect can be, with which structure, and that nothing is       *)
(* connected or answered behind its back. M_connectd is never set.         *)
Progress ==
  /\ ~M_connectd
  /\ ~held => pc = "idle" /\ answer = "none"
  /\ answer # "none" => M_mysql_handler # Null
  /\ pc \in Calling => answer = "none" /\ (Connected => call.was)
  /\ pc \in {"random", "try"} => call.retry /\ M_mysql_handler # Null

(* How many calls of mysql_real_connect were made.                         *)
Counted ==
  /\ pc \in {"first", "crashed"} => call.attempts = 0
  /\ pc = "random" => call.attempts = 1
  /\ pc = "try" => call.attempts = attempt + 1 /\ attempt <= call.max

(* While the retries go on, the timeout is there until a failure forgets   *)
(* it.                                                                     *)
TimeoutKept ==
  /\ pc = "first" /\ call.retry =>
       /\ ~call.bare
       /\ M_mysql_handler # Null
       /\ Timeout \in given[M_mysql_handler]
  /\ pc = "random" => ~call.bare
  /\ pc \in {"random", "try"} /\ call.remember =>
       ~call.bare /\ Timeout \in given[M_mysql_handler]

(* The pauses that the properties look back on.                            *)
PausesRecent ==
  pc = "try" => \A i \in 1 .. 3 : attempt >= i => recent[i] \in Pauses(attempt + 1 - i)

Inv ==
  /\ TypeOK /\ Progress /\ Counted /\ TimeoutKept /\ PausesRecent
  /\ AnswerExact /\ NoHandleLost /\ RetriesNotCutShort /\ TimeoutForgottenByFailure

(* An object that has just been constructed, or not yet.                   *)
LEMMA InitInv == ASSUME NEW c \in BOOLEAN, InitWith(c) PROVE Inv
<1> USE DEF InitWith, NewCall
<1>1. TypeOK
  <2>1. call \in CallRecords
    <3>1. /\ FALSE \in BOOLEAN /\ 0 \in Nat /\ 0 \in MaxRetries \cup {0}
      OBVIOUS
    <3> QED
      BY <3>1, Zenon DEF CallRecords
  <2>2. option \in OptionSettings
    BY Zenon DEF OptionSettings, NoOption
  <2>4. recent \in [1 .. 3 -> Int]
    <3>1. recent = [i \in 1 .. 3 |-> 0]
      BY DEF NoPauses
    <3>2. 0 \in Int
      OBVIOUS
    <3> QED
      BY <3>1, <3>2, Zenon
  <2>3. handle \in [Handles -> {"unused", "ready", "connected", "closed"}]
        /\ given \in [Handles -> SUBSET LibraryOptions]
    OBVIOUS
  <2>5. M_connectd \in BOOLEAN /\ held \in BOOLEAN /\ pooled \in BOOLEAN
        /\ reconfigured \in BOOLEAN
    BY Zenon
  <2>6. attempt \in 0 .. 32
    OBVIOUS
  <2> QED
    BY <2>1, <2>2, <2>3, <2>4, <2>5, <2>6, Zenon DEF TypeOK
<1>2. Progress /\ Counted /\ TimeoutKept /\ PausesRecent
  BY DEF Progress, Counted, TimeoutKept, PausesRecent, Calling, Connected
<1>3. AnswerExact /\ NoHandleLost /\ RetriesNotCutShort /\ TimeoutForgottenByFailure
  BY DEF AnswerExact, NoHandleLost, RetriesNotCutShort, TimeoutForgottenByFailure
<1> QED
  BY <1>1, <1>2, <1>3 DEF Inv

(* The records of calls.                                                   *)
LEMMA NewCallType ==
  ASSUME NEW r \in BOOLEAN, NEW m \in MaxRetries \cup {0}, NEW e \in BOOLEAN,
         NEW w \in BOOLEAN
  PROVE  NewCall(r, m, e, w) \in CallRecords
BY DEF NewCall, CallRecords

(* What an attempt notes in the record of its call.                        *)
LEMMA DialledType ==
  ASSUME call \in CallRecords
  PROVE  /\ Dialled(call) \in CallRecords
         /\ Dialled(call).retry = call.retry
         /\ Dialled(call).max = call.max
         /\ Dialled(call).remember = call.remember
         /\ Dialled(call).was = call.was
         /\ Dialled(call).attempts = call.attempts + 1
         /\ Dialled(call).norandom = call.norandom
         /\ Dialled(call).bare =
              (call.bare \/ Timeout \notin given[M_mysql_handler])
<1> DEFINE b == call.bare \/ Timeout \notin given[M_mysql_handler]
<1>1. Dialled(call) = [call EXCEPT !.attempts = call.attempts + 1, !.bare = b]
  BY DEF Dialled
<1>2. b \in BOOLEAN
  BY Zenon
<1> HIDE DEF b
<1>3. call.attempts + 1 \in Nat
  BY DEF CallRecords
<1>4. Dialled(call) \in CallRecords
  BY <1>1, <1>2, <1>3, Zenon DEF CallRecords
<1>5. call = [retry |-> call.retry, max |-> call.max, remember |-> call.remember,
              was |-> call.was, attempts |-> call.attempts, bare |-> call.bare,
              norandom |-> call.norandom]
  BY DEF CallRecords
<1>6. /\ Dialled(call).retry = call.retry
      /\ Dialled(call).max = call.max
      /\ Dialled(call).remember = call.remember
      /\ Dialled(call).was = call.was
      /\ Dialled(call).attempts = call.attempts + 1
      /\ Dialled(call).norandom = call.norandom
      /\ Dialled(call).bare = b
  BY <1>1, <1>5
<1> QED
  BY <1>4, <1>6 DEF b

(* The number of retries fits the loop variable.                           *)
LEMMA MaxType ==
  ASSUME NEW c \in CallRecords PROVE c.max \in -1 .. 31
<1>1. c.max \in MaxRetries \cup {0}
  BY DEF CallRecords
<1>2. MaxRetries \subseteq -1 .. 31
  BY Zenon, ConstantsAssumption DEF ConstantsAssumption
<1>3. 0 \in -1 .. 31
  OBVIOUS
<1>4. ASSUME NEW m \in MaxRetries \cup {0} PROVE m \in -1 .. 31
  BY <1>2, <1>3, Zenon
<1> QED
  BY <1>1, <1>4, Zenon

-----------------------------------------------------------------------------
(* Each operation keeps the invariant.                                     *)

(* Whatever sets options before a connect.                                 *)
LEMMA SetsOptionsStep ==
  ASSUME Inv, NEW o \in OptionSettings, SetsOptions(o) PROVE Inv'
<1> USE DEF SetsOptions, library, progress, Inv
<1>1. TypeOK'
  BY DEF TypeOK
<1>2. (Progress /\ Counted /\ TimeoutKept /\ PausesRecent)'
  BY DEF Progress, Counted, TimeoutKept, PausesRecent, Calling, Connected
<1>3. (AnswerExact /\ NoHandleLost /\ RetriesNotCutShort /\ TimeoutForgottenByFailure)'
  BY DEF AnswerExact, NoHandleLost, RetriesNotCutShort, TimeoutForgottenByFailure,
         Connected
<1> QED
  BY <1>1, <1>2, <1>3

(* mysql_options_set, set_tls_custom_creat and set_tls_custom_key.         *)
LEMMA OptionsSetStep ==
  ASSUME Inv,
         (\E s \in Settings : mysql_options_set(s))
           \/ set_tls_custom_creat \/ set_tls_custom_key
  PROVE  Inv'
<1>1. option \in OptionSettings
  BY DEF Inv, TypeOK
<1>2. ASSUME NEW s \in Settings, mysql_options_set(s) PROVE Inv'
  <2>1. s.tls \in BOOLEAN /\ s.creat \in BOOLEAN /\ s.key \in BOOLEAN
    BY ConstantsAssumption DEF ConstantsAssumption
  <2>2. [option EXCEPT !.tls = s.tls, !.creat = s.creat, !.key = s.key]
          \in OptionSettings
    BY <1>1, <2>1, Zenon DEF OptionSettings
  <2> QED
    BY <1>2, <2>2, SetsOptionsStep DEF mysql_options_set
<1>3. CASE set_tls_custom_creat
  <2>1. [option EXCEPT !.custom_creat_path = "path"] \in OptionSettings
    BY <1>1 DEF OptionSettings
  <2> QED
    BY <1>3, <2>1, SetsOptionsStep DEF set_tls_custom_creat
<1>4. CASE set_tls_custom_key
  <2>1. [option EXCEPT !.custom_key = "key"] \in OptionSettings
    BY <1>1 DEF OptionSettings
  <2> QED
    BY <1>4, <2>1, SetsOptionsStep DEF set_tls_custom_key
<1> QED
  BY <1>2, <1>3, <1>4

(* options_configure, which loses a structure only if there is one.        *)
LEMMA OptionsConfigureStep ==
  ASSUME Inv, options_configure PROVE Inv'
<1> USE DEF options_configure, Inv
<1>1. TypeOK'
  <2>1. TlsOptions \subseteq LibraryOptions
    BY DEF TypeOK, OptionSettings, TlsOptions, LibraryOptions
  <2> QED
    BY <2>1 DEF TypeOK, library, Configured
<1>2. (Progress /\ Counted /\ TimeoutKept /\ PausesRecent)'
  BY DEF Progress, Counted, TimeoutKept, PausesRecent, Calling, TypeOK
<1>3. NoHandleLost'
  BY ConstantsAssumption
     DEF NoHandleLost, Configured, library, TypeOK, ConstantsAssumption
<1>4. (AnswerExact /\ RetriesNotCutShort /\ TimeoutForgottenByFailure)'
  BY DEF AnswerExact, RetriesNotCutShort, TimeoutForgottenByFailure
<1> QED
  BY <1>1, <1>2, <1>3, <1>4

(* The beginning of the connect with retries.                              *)
LEMMA ConnectRetryStep ==
  ASSUME Inv, NEW max \in MaxRetries \cup {0}, NEW remember \in BOOLEAN,
         mysql_connect_to_service_retry(max, remember)
  PROVE  Inv'
<1> DEFINE c == NewCall(TRUE, max, remember, Connected)
<1> USE DEF mysql_connect_to_service_retry, Inv
<1>1. /\ c \in CallRecords
      /\ c.retry /\ c.attempts = 0 /\ ~c.bare /\ (c.was <=> Connected)
  <2>1. Connected \in BOOLEAN
    BY DEF Connected
  <2> QED
    BY <2>1, NewCallType DEF NewCall
<1> HIDE DEF c
<1>2. /\ pc = "idle" /\ held /\ ~is_connectd
      /\ UNCHANGED <<M_mysql_handler, M_connectd, option, held, pooled, handle,
                     reconfigured, attempt, recent>>
      /\ call' = c
      /\ \/ /\ M_mysql_handler = Null
            /\ pc' = "crashed"
            /\ UNCHANGED <<given, answer>>
         \/ /\ M_mysql_handler # Null
            /\ SetsTimeout
            /\ pc' = "first"
            /\ answer' = "none"
  BY DEF Progress, is_connectd, Crashes, GoesTo, c
<1> HIDE DEF mysql_connect_to_service_retry
<1>3. M_mysql_handler # Null => Timeout \in given'[M_mysql_handler]
  BY <1>2 DEF SetsTimeout, TypeOK
<1>4. given' \in [Handles -> SUBSET LibraryOptions]
  <2>1. Timeout \in LibraryOptions
    BY DEF LibraryOptions
  <2> QED
    BY <1>2, <2>1 DEF SetsTimeout, TypeOK
<1>5. TypeOK'
  BY <1>1, <1>2, <1>4 DEF TypeOK
<1>6. Connected' <=> Connected
  BY <1>2 DEF Connected
<1>7. (Progress /\ Counted /\ TimeoutKept /\ PausesRecent)'
  BY <1>1, <1>2, <1>3, <1>6
     DEF Progress, Counted, TimeoutKept, PausesRecent, Calling
<1>8. AnswerExact'
  BY <1>1, <1>2, <1>6 DEF AnswerExact, Connected
<1>9. (NoHandleLost /\ TimeoutForgottenByFailure)'
  BY <1>1, <1>2 DEF NoHandleLost, TimeoutForgottenByFailure
<1>10. RetriesNotCutShort'
  <2>1. answer' # "false" /\ c.max \in Int
    BY <1>1, <1>2, MaxType DEF Progress, TypeOK
  <2> QED
    BY <1>1, <1>2, <2>1 DEF RetriesNotCutShort
<1> QED
  BY <1>5, <1>7, <1>8, <1>9, <1>10

(* The beginning of the plain connect.                                     *)
LEMMA ConnectStep ==
  ASSUME Inv, NEW remember \in BOOLEAN, mysql_connect_to_service(remember)
  PROVE  Inv'
<1> DEFINE c == NewCall(FALSE, 0, remember, Connected)
<1> USE DEF mysql_connect_to_service, Inv
<1>1. /\ c \in CallRecords
      /\ ~c.retry /\ c.attempts = 0 /\ (c.was <=> Connected)
  <2>1. Connected \in BOOLEAN
    BY DEF Connected
  <2> QED
    BY <2>1, NewCallType DEF NewCall
<1> HIDE DEF c
<1>2. /\ pc = "idle" /\ held
      /\ UNCHANGED <<M_mysql_handler, M_connectd, option, held, pooled, handle,
                     given, reconfigured, attempt, recent>>
      /\ call' = c
      /\ pc' = "first"
      /\ answer' = "none"
  BY DEF Progress, is_connectd, GoesTo, c, library
<1> HIDE DEF mysql_connect_to_service
<1>3. TypeOK'
  BY <1>1, <1>2 DEF TypeOK
<1>4. Connected' <=> Connected
  BY <1>2 DEF Connected
<1>5. (Progress /\ Counted /\ TimeoutKept /\ PausesRecent)'
  BY <1>1, <1>2, <1>4 DEF Progress, Counted, TimeoutKept, PausesRecent, Calling
<1>6. (AnswerExact /\ NoHandleLost /\ RetriesNotCutShort /\ TimeoutForgottenByFailure)'
  BY <1>1, <1>2
     DEF AnswerExact, NoHandleLost, RetriesNotCutShort, TimeoutForgottenByFailure
<1> QED
  BY <1>3, <1>5, <1>6

(* mysql_real_connect: what it does to a structure that is there.          *)
LEMMA RealConnect ==
  ASSUME TypeOK, M_mysql_handler # Null, NEW success \in BOOLEAN,
         mysql_real_connect(success)
  PROVE  /\ handle' \in [Handles -> {"unused", "ready", "connected", "closed"}]
         /\ given' \in [Handles -> SUBSET LibraryOptions]
         /\ success => handle[M_mysql_handler] = "ready"
         /\ ~success /\ handle'[M_mysql_handler] = "connected"
              => handle[M_mysql_handler] = "connected"
         /\ success => handle'[M_mysql_handler] = "connected"
         /\ call.remember => given' = given
         /\ \A h \in Handles : h # M_mysql_handler => handle'[h] = handle[h]
<1>1. M_mysql_handler \in Handles
  BY DEF TypeOK
<1> QED
  BY <1>1 DEF mysql_real_connect, TypeOK, library

(* The loop from one attempt to the next, or to the end of them.           *)
LEMMA LoopStep ==
  ASSUME Inv, NEW c \in CallRecords, NEW a \in 0 .. 32,
         (pc = "random" /\ a = 0) \/ (pc = "try" /\ a = attempt + 1),
         c.retry, c.max = call.max, c.attempts = a + 1, a <= c.max + 1 \/ a = 0,
         EntersLoop(a, c)
  PROVE  /\ call' = c
         /\ attempt' \in 0 .. 32
         /\ recent' \in [1 .. 3 -> Int]
         /\ \/ pc' = "idle" /\ answer' = "false"
            \/ pc' = "try" /\ UNCHANGED answer
         /\ (Counted /\ PausesRecent /\ RetriesNotCutShort)'
<1> USE DEF Inv
<1>1. c.max \in Int /\ c.max <= 31
  BY MaxType
<1>2. attempt \in 0 .. 32 /\ recent \in [1 .. 3 -> Int]
  BY DEF TypeOK
<1>3. CASE ~MayTry(a) /\ Returns("false", c)
  BY <1>1, <1>2, <1>3
     DEF MayTry, Returns, NoPauses, Counted, PausesRecent, RetriesNotCutShort
<1>4. CASE /\ MayTry(a)
           /\ pc' = "try" /\ call' = c /\ attempt' = a
           /\ a = 0 /\ UNCHANGED recent
           /\ UNCHANGED answer
  BY <1>1, <1>2, <1>4 DEF MayTry, Progress, Calling, Counted, PausesRecent, RetriesNotCutShort
<1>5. ASSUME MayTry(a), pc' = "try", call' = c, attempt' = a, a > 0,
             NEW p \in Pauses(a),
             recent' = [i \in 1 .. 3 |-> IF i = 1 THEN p ELSE recent[i - 1]],
             UNCHANGED answer
      PROVE  /\ recent' \in [1 .. 3 -> Int]
             /\ (Counted /\ PausesRecent /\ RetriesNotCutShort)'
  <2>1. p \in Int
    BY <1>5, PausesType
  <2>2. recent' \in [1 .. 3 -> Int]
    BY <1>2, <1>5, <2>1
  <2>3. pc = "try" /\ a = attempt + 1
    BY <1>5
  <2>4. PausesRecent'
    <3> SUFFICES ASSUME NEW i \in 1 .. 3, attempt' >= i
                 PROVE  recent'[i] \in Pauses(attempt' + 1 - i)
      BY <1>5 DEF PausesRecent
    <3>1. CASE i = 1
      <4>1. attempt' + 1 - i = a
        BY <1>5, <3>1
      <4> QED
        BY <1>5, <3>1, <4>1
    <3>2. CASE i # 1
      <4>1. i - 1 \in 1 .. 3 /\ attempt >= i - 1
        BY <1>2, <1>5, <2>3, <3>2
      <4>2. recent[i - 1] \in Pauses(attempt + 1 - (i - 1))
        BY <2>3, <4>1 DEF PausesRecent
      <4>3. attempt + 1 - (i - 1) = attempt' + 1 - i
        BY <1>2, <1>5, <2>3
      <4> QED
        BY <1>5, <3>2, <4>2, <4>3
    <3> QED
      BY <3>1, <3>2
  <2>5. (Counted /\ RetriesNotCutShort)'
    BY <1>1, <1>2, <1>5, <2>3 DEF MayTry, Counted, RetriesNotCutShort, Progress, Calling
  <2> QED
    BY <2>2, <2>4, <2>5
<1> QED
  BY <1>3, <1>4, <1>5 DEF EntersLoop

(* The first attempt with a null structure.                                *)
LEMMA FirstCrashesStep == ASSUME Inv, FirstCrashes PROVE Inv'
<1> USE DEF FirstCrashes, Crashes, library, Inv
<1>1. TypeOK'
  BY DEF TypeOK
<1>2. (Progress /\ Counted /\ TimeoutKept /\ PausesRecent)'
  BY DEF Progress, Counted, TimeoutKept, PausesRecent, Calling
<1>3. (AnswerExact /\ NoHandleLost /\ RetriesNotCutShort /\ TimeoutForgottenByFailure)'
  BY DEF AnswerExact, NoHandleLost, RetriesNotCutShort, TimeoutForgottenByFailure,
         Progress, Calling, Connected
<1> QED
  BY <1>1, <1>2, <1>3

(* The first attempt: its end is that of the call, or the retries begin.   *)
LEMMA FirstStep == ASSUME Inv, First PROVE Inv'
<1> DEFINE c == Dialled(call)
<1> USE DEF Inv
<1>1. /\ pc = "first" /\ M_mysql_handler # Null
      /\ UNCHANGED <<M_mysql_handler, M_connectd, option, held, pooled, reconfigured>>
      /\ answer = "none" /\ call.attempts = 0 /\ held
  BY DEF First, Progress, Calling, Counted
<1>2. /\ c \in CallRecords
      /\ c.retry = call.retry /\ c.max = call.max /\ c.remember = call.remember
      /\ c.was = call.was /\ c.attempts = 1
      /\ c.bare = (call.bare \/ Timeout \notin given[M_mysql_handler])
  BY <1>1, DialledType DEF TypeOK, CallRecords
<1> HIDE DEF c
<1>3. PICK success \in BOOLEAN :
        /\ mysql_real_connect(success)
        /\ \/ success /\ Returns("true", c)
           \/ ~success /\ call.retry /\ GoesTo("random", c)
           \/ ~success /\ ~call.retry /\ Returns("false", c)
  BY DEF First, c
<1>4. /\ handle' \in [Handles -> {"unused", "ready", "connected", "closed"}]
      /\ given' \in [Handles -> SUBSET LibraryOptions]
      /\ ~success /\ handle'[M_mysql_handler] = "connected"
           => handle[M_mysql_handler] = "connected"
      /\ success => handle'[M_mysql_handler] = "connected"
      /\ call.remember => given' = given
      /\ \A h \in Handles : h # M_mysql_handler => handle'[h] = handle[h]
  BY <1>1, <1>3, RealConnect
<1>5. /\ ~success => (Connected' => call.was)
      /\ success => Connected'
  BY <1>1, <1>4 DEF Connected, Progress, Calling
<1>6. TypeOK'
  BY <1>1, <1>2, <1>3, <1>4 DEF TypeOK, Returns, GoesTo, NoPauses
<1>7. (Progress /\ Counted /\ TimeoutKept /\ PausesRecent)'
  BY <1>1, <1>2, <1>3, <1>4, <1>5
     DEF Progress, Counted, TimeoutKept, PausesRecent, Calling, Returns, GoesTo
<1>8. (AnswerExact /\ NoHandleLost)'
  BY <1>1, <1>2, <1>3, <1>4, <1>5 DEF AnswerExact, NoHandleLost, Returns, GoesTo
<1>9. (RetriesNotCutShort /\ TimeoutForgottenByFailure)'
  <2>1. c.max \in Int
    BY <1>2, MaxType
  <2>2. c.retry => ~c.bare
    BY <1>1, <1>2 DEF TimeoutKept
  <2> QED
    BY <1>2, <1>3, <2>1, <2>2
       DEF RetriesNotCutShort, TimeoutForgottenByFailure, Returns, GoesTo
<1> QED
  BY <1>6, <1>7, <1>8, <1>9

(* The random_device, and the first round of the loop.                     *)
LEMMA RandomDeviceStep == ASSUME Inv, RandomDevice PROVE Inv'
<1> USE DEF Inv
<1>1. /\ pc = "random" /\ call.retry /\ call.attempts = 1 /\ ~call.bare
      /\ call \in CallRecords
      /\ answer = "none" /\ held /\ (Connected => call.was)
      /\ UNCHANGED <<M_mysql_handler, M_connectd, option, held, pooled, handle,
                     given, reconfigured>>
  BY DEF RandomDevice, Progress, Calling, Counted, TimeoutKept, TypeOK, library
<1>2. Connected' <=> Connected
  BY <1>1 DEF Connected
<1>3. CASE Returns("false", [call EXCEPT !.norandom = TRUE])
  <2> DEFINE c == [call EXCEPT !.norandom = TRUE]
  <2>4. /\ c \in CallRecords
        /\ c.retry /\ c.norandom /\ ~c.bare /\ c.was = call.was
    BY <1>1 DEF CallRecords
  <2> HIDE DEF c
  <2>5. Returns("false", c)
    BY <1>3 DEF c
  <2>1. TypeOK'
    BY <1>1, <2>4, <2>5 DEF TypeOK, Returns, NoPauses
  <2>2. (Progress /\ Counted /\ TimeoutKept /\ PausesRecent)'
    BY <1>1, <2>5 DEF Progress, Counted, TimeoutKept, PausesRecent, Calling, Returns
  <2>3. (AnswerExact /\ NoHandleLost /\ RetriesNotCutShort /\ TimeoutForgottenByFailure)'
    BY <1>1, <1>2, <2>4, <2>5 DEF AnswerExact, NoHandleLost, RetriesNotCutShort,
       TimeoutForgottenByFailure, Returns
  <2> QED
    BY <2>1, <2>2, <2>3
<1>4. CASE EntersLoop(0, call)
  <2>1. /\ call' = call
        /\ attempt' \in 0 .. 32
        /\ recent' \in [1 .. 3 -> Int]
        /\ \/ pc' = "idle" /\ answer' = "false"
           \/ pc' = "try" /\ UNCHANGED answer
        /\ (Counted /\ PausesRecent /\ RetriesNotCutShort)'
    BY <1>1, <1>4, LoopStep
  <2>2. TypeOK'
    BY <1>1, <2>1 DEF TypeOK
  <2>3. (Progress /\ TimeoutKept)'
    BY <1>1, <1>2, <2>1 DEF Progress, TimeoutKept, Calling
  <2>4. (AnswerExact /\ NoHandleLost /\ TimeoutForgottenByFailure)'
    BY <1>1, <1>2, <2>1 DEF AnswerExact, NoHandleLost, TimeoutForgottenByFailure
  <2> QED
    BY <2>1, <2>2, <2>3, <2>4
<1> QED
  BY <1>3, <1>4 DEF RandomDevice

(* An attempt in the loop: it ends the call, or the next round begins.     *)
LEMMA RetryStep == ASSUME Inv, Retry PROVE Inv'
<1> DEFINE c == Dialled(call)
<1> USE DEF Inv
<1>1. /\ pc = "try" /\ call.retry /\ M_mysql_handler # Null
      /\ UNCHANGED <<M_mysql_handler, M_connectd, option, held, pooled, reconfigured>>
      /\ answer = "none" /\ held /\ (Connected => call.was)
      /\ attempt \in 0 .. 32 /\ call \in CallRecords
      /\ call.attempts = attempt + 1 /\ attempt <= call.max
  BY DEF Retry, Progress, Calling, Counted, TypeOK
<1>2. call.max \in Int /\ call.max <= 31
  BY <1>1, MaxType
<1>3. /\ c \in CallRecords
      /\ c.retry /\ c.max = call.max /\ c.remember = call.remember
      /\ c.was = call.was /\ c.attempts = attempt + 2
      /\ c.bare => ~c.remember
  <2>1. call.remember => Timeout \in given[M_mysql_handler] /\ ~call.bare
    BY <1>1 DEF TimeoutKept
  <2>2. c.bare = (call.bare \/ Timeout \notin given[M_mysql_handler])
    BY <1>1, DialledType
  <2>3. c.remember = call.remember
    BY <1>1, DialledType
  <2>4. c.bare => ~c.remember
    BY <2>1, <2>2, <2>3
  <2>5. (attempt + 1) + 1 = attempt + 2
    BY <1>1
  <2> QED
    BY <1>1, <2>4, <2>5, DialledType
<1> HIDE DEF c
<1>4. PICK success \in BOOLEAN :
        /\ mysql_real_connect(success)
        /\ \/ success /\ Returns("true", c)
           \/ ~success /\ EntersLoop(attempt + 1, c)
  BY DEF Retry, c
<1>5. /\ handle' \in [Handles -> {"unused", "ready", "connected", "closed"}]
      /\ given' \in [Handles -> SUBSET LibraryOptions]
      /\ ~success /\ handle'[M_mysql_handler] = "connected"
           => handle[M_mysql_handler] = "connected"
      /\ success => handle'[M_mysql_handler] = "connected"
      /\ call.remember => given' = given
      /\ \A h \in Handles : h # M_mysql_handler => handle'[h] = handle[h]
  BY <1>1, <1>4, RealConnect
<1>6. /\ ~success => (Connected' => call.was)
      /\ success => Connected'
  BY <1>1, <1>5 DEF Connected
<1>7. NoHandleLost'
  BY <1>1, <1>5 DEF NoHandleLost
<1>8. c.attempts > 1
  BY <1>1, <1>3
<1>9. CASE success /\ Returns("true", c)
  <2>1. TypeOK'
    BY <1>1, <1>3, <1>5, <1>9 DEF TypeOK, Returns, NoPauses
  <2>2. (Progress /\ Counted /\ TimeoutKept /\ PausesRecent)'
    BY <1>1, <1>9 DEF Progress, Counted, TimeoutKept, PausesRecent, Calling, Returns
  <2>3. (AnswerExact /\ RetriesNotCutShort /\ TimeoutForgottenByFailure)'
    BY <1>1, <1>2, <1>3, <1>6, <1>8, <1>9
       DEF AnswerExact, RetriesNotCutShort, TimeoutForgottenByFailure, Returns
  <2> QED
    BY <1>7, <2>1, <2>2, <2>3
<1>10. CASE ~success /\ EntersLoop(attempt + 1, c)
  <2>1. attempt + 1 \in 0 .. 32 /\ c.attempts = (attempt + 1) + 1
        /\ attempt + 1 <= c.max + 1
    BY <1>1, <1>2, <1>3
  <2>2. /\ call' = c
        /\ attempt' \in 0 .. 32
        /\ recent' \in [1 .. 3 -> Int]
        /\ \/ pc' = "idle" /\ answer' = "false"
           \/ pc' = "try" /\ UNCHANGED answer
        /\ (Counted /\ PausesRecent /\ RetriesNotCutShort)'
    <3> DEFINE a == attempt + 1
    <3>1. a \in 0 .. 32 /\ a = attempt + 1 /\ c.attempts = a + 1 /\ a <= c.max + 1
          /\ EntersLoop(a, c)
      BY <1>10, <2>1
    <3> HIDE DEF a
    <3> QED
      BY <1>1, <1>3, <3>1, LoopStep
  <2>3. TypeOK'
    BY <1>1, <1>3, <1>5, <2>2 DEF TypeOK
  <2>4. (Progress /\ TimeoutKept)'
    BY <1>1, <1>3, <1>5, <1>6, <1>10, <2>2 DEF Progress, TimeoutKept, Calling
  <2>5. (AnswerExact /\ TimeoutForgottenByFailure)'
    BY <1>1, <1>3, <1>6, <1>8, <1>10, <2>2 DEF AnswerExact, TimeoutForgottenByFailure
  <2> QED
    BY <1>7, <2>2, <2>3, <2>4, <2>5
<1> QED
  BY <1>4, <1>9, <1>10

(* All steps of a connect in progress.                                     *)
LEMMA ConnectingStep == ASSUME Inv, Step PROVE Inv'
BY FirstCrashesStep, FirstStep, RandomDeviceStep, RetryStep DEF Step

(* push_new_connect.                                                       *)
LEMMA PushStep == ASSUME Inv, push_new_connect PROVE Inv'
<1> USE DEF push_new_connect, library, progress, Inv
<1>1. TypeOK'
  BY DEF TypeOK
<1>2. (Progress /\ Counted /\ TimeoutKept /\ PausesRecent)'
  BY DEF Progress, Counted, TimeoutKept, PausesRecent, Calling, Connected
<1>3. (AnswerExact /\ NoHandleLost /\ RetriesNotCutShort /\ TimeoutForgottenByFailure)'
  BY DEF AnswerExact, NoHandleLost, RetriesNotCutShort, TimeoutForgottenByFailure,
         Connected
<1> QED
  BY <1>1, <1>2, <1>3

(* The destructor closes what the object has.                              *)
LEMMA ClosesStep ==
  ASSUME TypeOK, NoHandleLost, Closes, UNCHANGED reconfigured
  PROVE  /\ M_mysql_handler' = Null /\ ~M_connectd' /\ ~Connected'
         /\ handle' \in [Handles -> {"unused", "ready", "connected", "closed"}]
         /\ given' \in [Handles -> SUBSET LibraryOptions]
         /\ NoHandleLost'
BY DEF TypeOK, NoHandleLost, Closes, Connected

(* The program lets go of the object.                                      *)
LEMMA ReleaseStep == ASSUME Inv, Release PROVE Inv'
<1> USE DEF Release, Inv
<1>1. CASE pooled
  <2>1. TypeOK'
    BY <1>1 DEF TypeOK, Keeps, library
  <2>2. (Progress /\ Counted /\ TimeoutKept /\ PausesRecent)'
    BY <1>1 DEF Progress, Counted, TimeoutKept, PausesRecent, Calling, Keeps
  <2>3. (AnswerExact /\ NoHandleLost /\ RetriesNotCutShort /\ TimeoutForgottenByFailure)'
    BY <1>1 DEF AnswerExact, NoHandleLost, RetriesNotCutShort,
                TimeoutForgottenByFailure, Keeps, library
  <2> QED
    BY <2>1, <2>2, <2>3
<1>2. CASE ~pooled
  <2>1. /\ M_mysql_handler' = Null /\ ~M_connectd' /\ ~Connected'
        /\ handle' \in [Handles -> {"unused", "ready", "connected", "closed"}]
        /\ given' \in [Handles -> SUBSET LibraryOptions]
        /\ NoHandleLost'
    BY <1>2, ClosesStep
  <2>2. TypeOK'
    BY <1>2, <2>1 DEF TypeOK, Closes
  <2>3. (Progress /\ Counted /\ TimeoutKept /\ PausesRecent)'
    BY <1>2, <2>1 DEF Progress, Counted, TimeoutKept, PausesRecent, Calling
  <2>4. (AnswerExact /\ RetriesNotCutShort /\ TimeoutForgottenByFailure)'
    BY <1>2 DEF AnswerExact, RetriesNotCutShort, TimeoutForgottenByFailure
  <2> QED
    BY <2>1, <2>2, <2>3, <2>4
<1> QED
  BY <1>1, <1>2

(* The pool of connections lets go of it.                                  *)
LEMMA ExitStep == ASSUME Inv, Exit PROVE Inv'
<1> USE DEF Exit, progress, Inv
<1>1. /\ M_mysql_handler' = Null /\ ~M_connectd' /\ ~Connected'
      /\ handle' \in [Handles -> {"unused", "ready", "connected", "closed"}]
      /\ given' \in [Handles -> SUBSET LibraryOptions]
      /\ NoHandleLost'
  BY ClosesStep
<1>2. TypeOK'
  BY <1>1 DEF TypeOK, Closes
<1>3. (Progress /\ Counted /\ TimeoutKept /\ PausesRecent)'
  BY <1>1 DEF Progress, Counted, TimeoutKept, PausesRecent, Calling
<1>4. (AnswerExact /\ RetriesNotCutShort /\ TimeoutForgottenByFailure)'
  BY DEF AnswerExact, RetriesNotCutShort, TimeoutForgottenByFailure, Progress
<1> QED
  BY <1>1, <1>2, <1>3, <1>4

(* Nothing moves.                                                          *)
LEMMA UnchangedStep == ASSUME Inv, UNCHANGED vars PROVE Inv'
<1>1. UNCHANGED Connected
  BY DEF vars, library, Connected
<1> QED
  BY <1>1 DEF vars, library, progress, Inv, TypeOK, Progress, Counted,
     TimeoutKept, PausesRecent, Calling, AnswerExact, NoHandleLost,
     RetriesNotCutShort, TimeoutForgottenByFailure

(* The invariant holds in every behaviour.                                 *)
LEMMA InvHolds == Spec => []Inv
<1>1. Init => Inv
  BY InitInv DEF Init
<1>2. Inv /\ [Next]_vars => Inv'
  BY UnchangedStep, OptionsSetStep, OptionsConfigureStep, ConnectRetryStep,
     ConnectStep, ConnectingStep, PushStep, ReleaseStep, ExitStep DEF Next, Ended
<1> QED
  BY <1>1, <1>2, PTL DEF Spec

-----------------------------------------------------------------------------
(* The variables keep their types: no pause is anything but an integer.    *)
THEOREM TypeCorrect == Spec => []TypeOK
<1>1. Inv => TypeOK
  BY DEF Inv
<1> QED
  BY <1>1, InvHolds, PTL

(* A connect that answers true has a connection in hand. One that answers  *)
(* false has made none: if the object has a connection then, it had it     *)
(* before the call, which did not see it and answered wrongly.             *)
THEOREM AnswersAreExact == Spec => []AnswerExact
<1>1. Inv => AnswerExact
  BY DEF Inv
<1> QED
  BY <1>1, InvHolds, PTL

(* A structure is only ever lost by a second options_configure.            *)
THEOREM OnlyConfiguringLoses == Spec => []NoHandleLost
<1>1. Inv => NoHandleLost
  BY DEF Inv
<1> QED
  BY <1>1, InvHolds, PTL

(* For any maximum up to 31: no connect gives up before the retries it was *)
(* asked for, as long as there is a random_device, and a plain one makes   *)
(* one attempt.                                                            *)
THEOREM RetriesAreMade == Spec => []RetriesNotCutShort
<1>1. Inv => RetriesNotCutShort
  BY DEF Inv
<1> QED
  BY <1>1, InvHolds, PTL

(* It takes a failure, and no CLIENT_REMEMBER_OPTIONS, for the connect with *)
(* retries to try without its timeout.                                     *)
THEOREM TimeoutLastsToTheFirstFailure == Spec => []TimeoutForgottenByFailure
<1>1. Inv => TimeoutForgottenByFailure
  BY DEF Inv
<1> QED
  BY <1>1, InvHolds, PTL

(* As long as a pause can be computed in an int, it is longer than the one *)
(* before the last, for every outcome of the dice.                         *)
THEOREM RetriesBackOff == Spec => []PausesBackOff
<1>1. Inv => PausesBackOff
  <2> SUFFICES ASSUME Inv, pc = "try", attempt \in 1 .. LastExact
               PROVE  /\ recent[1] >= 50
                      /\ attempt > 2 => recent[1] > recent[3]
    BY DEF PausesBackOff
  <2>1. attempt \in Nat /\ recent[1] \in Int /\ recent[3] \in Int
    BY DEF Inv, TypeOK
  <2>2. recent[1] \in Pauses(attempt)
    <3>1. attempt + 1 - 1 = attempt /\ attempt >= 1
      BY <2>1 DEF LastExact
    <3> QED
      BY <3>1 DEF Inv, PausesRecent
  <2>3. recent[1] >= 50
    BY <2>1, <2>2, PausesExact, SMT
  <2>4. ASSUME attempt > 2 PROVE recent[1] > recent[3]
    <3>1. attempt - 2 \in 1 .. LastExact
      BY <2>1, <2>4, SMT DEF LastExact
    <3>2. recent[3] \in Pauses(attempt - 2)
      <4>1. attempt + 1 - 3 = attempt - 2 /\ attempt >= 3
        BY <2>1, <2>4
      <4> QED
        BY <4>1 DEF Inv, PausesRecent
    <3>3. 2 * recent[3] <= 3 * delay_ms[attempt - 2]
          /\ delay_ms[attempt - 2] \in Nat /\ delay_ms[attempt - 2] >= 100
      BY <3>1, <3>2, PausesExact, SMT
    <3>4. delay_ms[attempt] <= 2 * recent[1]
          /\ delay_ms[attempt] = 4 * delay_ms[attempt - 2]
      BY <2>2, <2>4, PausesExact, SMT
    <3> QED
      BY <2>1, <3>3, <3>4, SMT
  <2> QED
    BY <2>3, <2>4
<1> QED
  BY <1>1, InvHolds, PTL
=============================================================================
