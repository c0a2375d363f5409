-------------------------- MODULE MysqlDatabaseProofs --------------------------
(***************************************************************************)
(* Proofs about MysqlDatabase, for any structures, any numbers of retries  *)
(* and any number of calls: what becomes of the structures and of the      *)
(* options, how often the server is tried, and that every step is one of   *)
(* Connector or none at all.                                               *)
(***************************************************************************)
EXTENDS MysqlDatabase, TLAPS

(* The part of the types that the proofs need.                             *)
Types ==
  /\ M_mysql_handler \in Handles \cup {Null}
  /\ handle \in [Handles -> {"unused", "ready", "connected", "closed"}]
  /\ DOMAIN given = Handles

(* Where a call is, and what there is of a connection.                     *)
Stage ==
  /\ ~M_connectd
  /\ at # "connecting" => pc = "idle"
  /\ at = "configure" => M_mysql_handler = Null
  /\ at \in {"configure", "connect"} => ~Up
  /\ at = "connecting" =>
       /\ pc \in {"idle", "first", "random", "try", "crashed"}
       /\ pc # "idle" => ~Up
       /\ pc \in {"random", "try"} => M_mysql_handler # Null
       /\ pc = "idle" => answer = IF Up THEN "true" ELSE "false"

(* The options on their way from the caller to the connection object.      *)
OptionsPassed ==
  at = "configure" => option = Passed(request)

Inv == Types /\ OneHandle /\ Stage /\ OptionsPassed

(* There is no connection object and no structure at first.                *)
LEMMA InitInv == Init => Inv
<1> SUFFICES ASSUME Init PROVE Inv
  OBVIOUS
<1> USE DEF Init, Conn!InitWith
<1>1. Types /\ OneHandle /\ ~Up
  BY DEF Types, OneHandle, Up
<1> QED
  BY <1>1 DEF Inv, Stage, OptionsPassed

(* The end of a connection object.                                         *)
LEMMA ClosesStep ==
  ASSUME Types, OneHandle, Conn!Closes
  PROVE  /\ Types' /\ M_mysql_handler' = Null /\ ~M_connectd' /\ ~Up'
         /\ \A h \in Handles : handle'[h] \notin {"ready", "connected"}
BY DEF Types, OneHandle, Conn!Closes, Up

(* mysql_real_connect: a success makes a connection of a structure that    *)
(* had none, and only the current structure is touched.                    *)
LEMMA RealConnect ==
  ASSUME Types, OneHandle, ~Up, at = "connecting", M_mysql_handler # Null,
         NEW success \in BOOLEAN, Conn!mysql_real_connect(success),
         UNCHANGED M_mysql_handler, UNCHANGED at
  PROVE  /\ Types' /\ OneHandle'
         /\ Up' <=> success
<1>1. M_mysql_handler \in Handles /\ handle[M_mysql_handler] # "connected"
  BY DEF Types, Up
<1>2. \/ /\ success
         /\ handle' = [handle EXCEPT ![M_mysql_handler] = "connected"]
         /\ given' = given
      \/ /\ ~success
         /\ handle' = [handle EXCEPT ![M_mysql_handler] = "ready"]
         /\ given' = [given EXCEPT ![M_mysql_handler] =
                        IF call.remember THEN given[M_mysql_handler] ELSE {}]
  BY <1>1 DEF Conn!mysql_real_connect
<1>3. Types' /\ OneHandle'
  BY <1>1, <1>2 DEF Types, OneHandle
<1>4. Up' <=> success
  BY <1>1, <1>2 DEF Types, Up
<1> QED
  BY <1>3, <1>4

-----------------------------------------------------------------------------
(* Each step keeps the invariant, and is a step of Connector or none.      *)

Promised == Promise!Next \/ UNCHANGED Promise!vars

(* A step that leaves what Connector speaks of; Up is a formula.           *)
LEMMA Stutter ==
  ASSUME UNCHANGED <<Phase, reply>>, Up' <=> Up PROVE UNCHANGED Promise!vars
<1>1. UNCHANGED Up
  BY Zenon DEF Up
<1> QED
  BY <1>1, Zenon DEF Promise!vars

(* The program dies in the middle of a call, without a connection.         *)
LEMMA Dies ==
  ASSUME Phase = "calling", Phase' = "dead", ~Up, ~Up', UNCHANGED reply
  PROVE  Promise!Die
<1>1. UNCHANGED Up
  BY Zenon DEF Up
<1> QED
  BY <1>1, Zenon DEF Promise!Die

(* Renew is the abstract Call.                                             *)
LEMMA RenewStep ==
  ASSUME Inv, NEW r \in Requests, Renew(r) PROVE Inv' /\ Promised
<1> USE DEF Inv, Renew
<1>1. /\ Types' /\ M_mysql_handler' = Null /\ ~M_connectd' /\ ~Up'
      /\ \A h \in Handles : handle'[h] \notin {"ready", "connected"}
  BY ClosesStep
<1>2. Inv'
  BY <1>1 DEF OneHandle, Stage, OptionsPassed
<1>3. Promise!Call
  BY <1>1 DEF Promise!Call, Phase, Stage
<1> QED
  BY <1>2, <1>3 DEF Promised, Promise!Next

(* options_configure changes nothing that Connector speaks of.             *)
LEMMA ConfigureStep == ASSUME Inv, Configure PROVE Inv' /\ Promised
<1> USE DEF Inv, Configure, Conn!options_configure, Conn!Configured, Conn!library
<1>1. M_mysql_handler = Null /\ ~Up /\ at' = "connect" /\ pc = "idle" /\ pc' = pc
      /\ ~M_connectd' /\ UNCHANGED <<request, reply>>
  BY DEF Stage
<1>2. \A h \in Handles : handle[h] \notin {"ready", "connected"}
  BY <1>1, ConstantsAssumption DEF OneHandle, ConstantsAssumption
<1>3. Types'
  BY DEF Types
<1>4. OneHandle' /\ ~Up'
  BY <1>1, <1>2 DEF OneHandle, Up, Types
<1>5. OptionsPassed'
  BY <1>1 DEF OptionsPassed
<1>6. Stage'
  BY <1>1, <1>4 DEF Stage
<1>7. UNCHANGED Promise!vars
  BY <1>1, <1>4 DEF Promise!vars, Phase, Up
<1> QED
  BY <1>3, <1>4, <1>5, <1>6, <1>7 DEF Promised

(* The connect begins, or the program dies of a null structure.            *)
LEMMA ConnectBegins == ASSUME Inv, Connect PROVE Inv' /\ Promised
<1> USE DEF Inv, Connect
<1>1. /\ at = "connect" /\ at' = "connecting" /\ pc = "idle" /\ ~Up
      /\ UNCHANGED <<M_mysql_handler, M_connectd, option, handle, request, reply>>
      /\ \/ pc' = "first"
         \/ pc' = "crashed"
      /\ \/ UNCHANGED given
         \/ given' = [given EXCEPT ![M_mysql_handler] = @ \cup {Conn!Timeout}]
  <2>1. CASE request.retry /\ Conn!mysql_connect_to_service_retry(request.max,
                                                                  request.remember)
    BY <2>1 DEF Stage, Conn!mysql_connect_to_service_retry, Conn!Crashes,
       Conn!GoesTo, Conn!is_connectd, Conn!SetsTimeout
  <2>2. CASE ~request.retry /\ Conn!mysql_connect_to_service(request.remember)
    BY <2>2 DEF Stage, Conn!mysql_connect_to_service, Conn!GoesTo,
       Conn!is_connectd, Conn!library
  <2> QED
    BY <2>1, <2>2
<1>2. Types' /\ OneHandle' /\ (Up' <=> Up)
  BY <1>1 DEF Types, OneHandle, Up
<1>3. Stage'
  BY <1>1, <1>2 DEF Stage
<1>4. OptionsPassed'
  BY <1>1 DEF OptionsPassed
<1>5. CASE pc' = "first"
  <2>1. UNCHANGED Promise!vars
    BY <1>1, <1>2, <1>5, Stutter DEF Phase
  <2> QED
    BY <1>2, <1>3, <1>4, <2>1 DEF Promised
<1>6. CASE pc' = "crashed"
  <2>1. Promise!Die
    BY <1>1, <1>2, <1>6, Dies DEF Phase
  <2> QED
    BY <1>2, <1>3, <1>4, <2>1 DEF Promised, Promise!Next
<1> QED
  BY <1>1, <1>5, <1>6

(* An attempt that succeeds is the abstract Establish.                     *)
LEMMA ConnectGoesOn == ASSUME Inv, ConnectStep PROVE Inv' /\ Promised
<1> USE DEF Inv
<1>1. at = "connecting" /\ UNCHANGED <<at, request, reply>> /\ Conn!Step
  BY DEF ConnectStep
<1>2. CASE Conn!FirstCrashes
  <2>1. /\ pc = "first" /\ pc' = "crashed" /\ ~Up
        /\ UNCHANGED <<M_mysql_handler, M_connectd, option, handle, given>>
    BY <1>1, <1>2 DEF Conn!FirstCrashes, Conn!Crashes, Conn!library, Stage
  <2>2. ~Up' /\ Inv'
    BY <1>1, <2>1 DEF Types, OneHandle, Stage, OptionsPassed, Up
  <2>3. Promise!Die
    BY <1>1, <2>1, <2>2, Dies DEF Phase
  <2> QED
    BY <2>2, <2>3 DEF Promised, Promise!Next
<1>3. CASE Conn!RandomDevice
  <2>1. /\ pc = "random" /\ ~Up
        /\ UNCHANGED <<M_mysql_handler, M_connectd, option, handle, given>>
        /\ \/ pc' = "idle" /\ answer' = "false"
           \/ pc' = "try"
    BY <1>1, <1>3 DEF Conn!RandomDevice, Conn!Returns, Conn!EntersLoop,
       Conn!library, Stage
  <2>2. ~Up' /\ Inv'
    BY <1>1, <2>1 DEF Types, OneHandle, Stage, OptionsPassed, Up
  <2>3. UNCHANGED Promise!vars
    BY <1>1, <2>1, <2>2, Stutter DEF Phase
  <2> QED
    BY <2>2, <2>3 DEF Promised
<1>4. CASE Conn!First \/ Conn!Retry
  <2>1. PICK success \in BOOLEAN :
          /\ M_mysql_handler # Null /\ ~Up /\ pc \in {"first", "try"}
          /\ Conn!mysql_real_connect(success)
          /\ UNCHANGED <<M_mysql_handler, M_connectd, option>>
          /\ success => pc' = "idle" /\ answer' = "true"
          /\ ~success => \/ pc' = "idle" /\ answer' = "false"
                         \/ pc' \in {"random", "try"}
    <3>1. CASE Conn!First
      BY <1>1, <3>1 DEF Conn!First, Conn!Returns, Conn!GoesTo, Stage
    <3>2. CASE Conn!Retry
      BY <1>1, <3>2 DEF Conn!Retry, Conn!Returns, Conn!EntersLoop, Stage
    <3> QED
      BY <1>4, <3>1, <3>2
  <2>2. /\ Types' /\ OneHandle'
        /\ Up' <=> success
    BY <1>1, <2>1, RealConnect
  <2>3. Stage'
    BY <1>1, <2>1, <2>2 DEF Stage
  <2>4. OptionsPassed'
    BY <1>1, <2>1, <2>2 DEF OptionsPassed
  <2>5. CASE success
    <3>1. Promise!Establish
      BY <1>1, <2>1, <2>2, <2>5 DEF Promise!Establish, Phase
    <3> QED
      BY <2>2, <2>3, <2>4, <3>1 DEF Promised, Promise!Next
  <2>6. CASE ~success
    <3>1. UNCHANGED Promise!vars
      BY <1>1, <2>1, <2>2, <2>6, Stutter DEF Phase
    <3> QED
      BY <2>2, <2>3, <2>4, <3>1 DEF Promised
  <2> QED
    BY <2>5, <2>6
<1> QED
  BY <1>1, <1>2, <1>3, <1>4 DEF Conn!Step

(* The call is answered: the abstract Answer.                              *)
LEMMA ReturnStep == ASSUME Inv, Return PROVE Inv' /\ Promised
<1> USE DEF Inv, Return
<1>1. /\ at = "connecting" /\ pc = "idle" /\ at' = "idle" /\ pc' = "idle"
      /\ reply' = IF Up THEN "true" ELSE "false"
  BY DEF Replies, Stage, connection
<1>2. Types' /\ OneHandle' /\ (Up' <=> Up) /\ Stage' /\ OptionsPassed'
  BY <1>1 DEF connection, Types, OneHandle, Up, Stage, OptionsPassed
<1>3. UNCHANGED Up
  BY DEF connection, Up
<1>4. Promise!Answer
  BY <1>1, <1>3 DEF Promise!Answer, Phase
<1> QED
  BY <1>2, <1>4 DEF Promised, Promise!Next

(* The object goes: the abstract Drop.                                     *)
LEMMA DestroyStep == ASSUME Inv, Destroy PROVE Inv' /\ Promised
<1> USE DEF Inv, Destroy
<1>1. /\ Types' /\ M_mysql_handler' = Null /\ ~M_connectd' /\ ~Up'
      /\ \A h \in Handles : handle'[h] \notin {"ready", "connected"}
  BY ClosesStep
<1>2. Inv'
  BY <1>1 DEF OneHandle, Stage, OptionsPassed
<1>3. Promise!Drop
  BY <1>1 DEF Promise!Drop, Phase, Stage
<1> QED
  BY <1>2, <1>3 DEF Promised, Promise!Next

(* Nothing changes.                                                        *)
LEMMA StutterStep == ASSUME Inv, UNCHANGED vars PROVE Inv' /\ Promised
<1>1. Inv'
  BY DEF Inv, vars, connection, Types, OneHandle, Stage, OptionsPassed, Up
<1>2. UNCHANGED Promise!vars
  BY DEF vars, connection, Promise!vars, Phase, Up
<1> QED
  BY <1>1, <1>2 DEF Promised

(* All of the steps together.                                              *)
LEMMA EveryStep == ASSUME Inv, [Next]_vars PROVE Inv' /\ Promised
BY RenewStep, ConfigureStep, ConnectBegins, ConnectGoesOn, ReturnStep,
   DestroyStep, StutterStep DEF Next, Ended

(* The invariant holds in every behaviour.                                 *)
LEMMA InvHolds == SafetySpec => []Inv
<1>1. Inv /\ [Next]_vars => Inv'
  BY EveryStep
<1> QED
  BY InitInv, <1>1, PTL DEF SafetySpec

-----------------------------------------------------------------------------
(* However often the program connects, and whatever fails, no structure is *)
(* lost: the shared pointer that Renew replaces closes the one before.     *)
THEOREM NoHandleIsLost == SafetySpec => []OneHandle
<1>1. Inv => OneHandle
  BY DEF Inv
<1> QED
  BY InvHolds, <1>1, PTL

(* The safety part of ImplementsConnector: every step of a call of         *)
(* mysql_connect_database is one that Connector allows, or invisible.      *)
THEOREM KeepsItsPromise == SafetySpec => Promise!SafetySpec
<1>1. Init => Promise!Init
  BY DEF Init, Conn!InitWith, Promise!Init, Phase, Up
<1>2. Inv /\ [Next]_vars => [Promise!Next]_(Promise!vars)
  BY EveryStep DEF Promised
<1> QED
  BY InvHolds, <1>1, <1>2, PTL DEF SafetySpec, Promise!SafetySpec

-----------------------------------------------------------------------------
(* The connection by itself: what is proved of a mysql_connect object that *)
(* a program uses in any order holds for those used here, one after the    *)
(* other, as well.                                                         *)

ConnProofs == INSTANCE MysqlConnectProofs

(* The assumptions of MysqlConnect.                                        *)
LEMMA ConnAssumptions ==
  /\ Null \notin Handles
  /\ MaxRetries \subseteq -1 .. 31
  /\ Settings \subseteq [tls : BOOLEAN, creat : BOOLEAN, key : BOOLEAN]
BY ConstantsAssumption DEF ConstantsAssumption, Settings

(* MysqlConnect has two names here: Conn, and that of its proofs.          *)
LEMMA SameConfigure ==
  ASSUME Conn!options_configure PROVE ConnProofs!options_configure
BY DEF Conn!options_configure, ConnProofs!options_configure, Conn!Configured,
       ConnProofs!Configured, Conn!TlsOptions, ConnProofs!TlsOptions,
       Conn!library, ConnProofs!library

(* Both connects begin under both names ...                                *)
LEMMA SameConnect ==
  ASSUME at = "connect", Connect
  PROVE  \/ ConnProofs!mysql_connect_to_service_retry(request.max, request.remember)
         \/ ConnProofs!mysql_connect_to_service(request.remember)
BY DEF Connect,
       Conn!mysql_connect_to_service_retry, ConnProofs!mysql_connect_to_service_retry,
       Conn!mysql_connect_to_service, ConnProofs!mysql_connect_to_service,
       Conn!NewCall, ConnProofs!NewCall, Conn!Connected, ConnProofs!Connected,
       Conn!is_connectd, ConnProofs!is_connectd, Conn!Crashes, ConnProofs!Crashes,
       Conn!Returns, ConnProofs!Returns, Conn!GoesTo, ConnProofs!GoesTo,
       Conn!SetsTimeout, ConnProofs!SetsTimeout, Conn!NoPauses,
       ConnProofs!NoPauses, Conn!library, ConnProofs!library, Conn!Timeout,
       ConnProofs!Timeout

(* ... and go on under both.                                               *)
LEMMA SameStep == ASSUME Conn!Step PROVE ConnProofs!Step
<1>1. \A a : Conn!Pauses(a) = ConnProofs!Pauses(a)
  BY DEF Conn!Pauses, ConnProofs!Pauses, Conn!Halved, ConnProofs!Halved,
         Conn!Plus, ConnProofs!Plus, Conn!Doubled, ConnProofs!Doubled,
         Conn!delay_ms, ConnProofs!delay_ms, Conn!Quarter, ConnProofs!Quarter,
         Conn!IntMax, ConnProofs!IntMax, Conn!IntMin, ConnProofs!IntMin
<1>2. \A a, c : Conn!Returns(a, c) <=> ConnProofs!Returns(a, c)
  BY DEF Conn!Returns, ConnProofs!Returns, Conn!NoPauses, ConnProofs!NoPauses
<1>3. \A a, c : Conn!EntersLoop(a, c) => ConnProofs!EntersLoop(a, c)
  BY <1>1, <1>2, Zenon DEF Conn!EntersLoop, ConnProofs!EntersLoop, Conn!MayTry,
     ConnProofs!MayTry
<1>4. \A s : Conn!mysql_real_connect(s) => ConnProofs!mysql_real_connect(s)
  BY Zenon DEF Conn!mysql_real_connect, ConnProofs!mysql_real_connect,
     Conn!library, ConnProofs!library
<1>5. Conn!Dialled(call) = ConnProofs!Dialled(call)
  BY DEF Conn!Dialled, ConnProofs!Dialled, Conn!Timeout, ConnProofs!Timeout
<1>6. Conn!FirstCrashes => ConnProofs!FirstCrashes
  BY DEF Conn!FirstCrashes, ConnProofs!FirstCrashes, Conn!Crashes,
     ConnProofs!Crashes, Conn!library, ConnProofs!library
<1>7. Conn!First => ConnProofs!First
  BY <1>2, <1>4, <1>5, Zenon DEF Conn!First, ConnProofs!First, Conn!GoesTo,
     ConnProofs!GoesTo
<1>8. Conn!RandomDevice => ConnProofs!RandomDevice
  BY <1>2, <1>3, Zenon DEF Conn!RandomDevice, ConnProofs!RandomDevice,
     Conn!library, ConnProofs!library
<1>9. Conn!Retry => ConnProofs!Retry
  BY <1>2, <1>3, <1>4, <1>5, Zenon DEF Conn!Retry, ConnProofs!Retry
<1> QED
  BY <1>6, <1>7, <1>8, <1>9 DEF Conn!Step, ConnProofs!Step

(* The end of the object, and a new one in its place or none.              *)
LEMMA RenewedInv ==
  ASSUME ConnProofs!Inv, Conn!Closes, pc = "idle", option' \in ConnProofs!OptionSettings,
         held' \in BOOLEAN, answer' = "none",
         UNCHANGED <<pooled, pc, call, attempt, recent, reconfigured>>
  PROVE  ConnProofs!Inv'
<1> USE DEF ConnProofs!Inv
<1>1. /\ M_mysql_handler' = Null /\ ~M_connectd' /\ ~ConnProofs!Connected'
      /\ handle' \in [Handles -> {"unused", "ready", "connected", "closed"}]
      /\ given' \in [Handles -> SUBSET ConnProofs!LibraryOptions]
      /\ ConnProofs!NoHandleLost'
  BY ConnAssumptions, ConnProofs!ClosesStep DEF Conn!Closes, ConnProofs!Closes
<1>2. ConnProofs!TypeOK'
  <2>2. /\ M_mysql_handler' \in Handles \cup {Null} /\ M_connectd' \in BOOLEAN
        /\ answer' \in {"none", "true", "false"}
    BY <1>1 DEF Conn!Closes
  <2> QED
    BY <1>1, <2>2, Zenon DEF ConnProofs!TypeOK
<1>3. (ConnProofs!Progress /\ ConnProofs!Counted /\ ConnProofs!TimeoutKept
       /\ ConnProofs!PausesRecent)'
  BY <1>1 DEF ConnProofs!Progress, ConnProofs!Counted, ConnProofs!TimeoutKept,
     ConnProofs!PausesRecent, ConnProofs!Calling
<1>4. (ConnProofs!AnswerExact /\ ConnProofs!RetriesNotCutShort
       /\ ConnProofs!TimeoutForgottenByFailure)'
  BY DEF ConnProofs!AnswerExact, ConnProofs!RetriesNotCutShort,
     ConnProofs!TimeoutForgottenByFailure
<1> QED
  BY <1>1, <1>2, <1>3, <1>4

(* What a call adds to the state of the connection.                        *)
Calling ==
  /\ at \in {"idle", "configure", "connect", "connecting", "gone"}
  /\ request \in Requests
  /\ reply \in {"none", "true", "false"}
  /\ calls \in 0 .. MaxCalls

(* Every action keeps both.                                                *)
LEMMA TypedStep ==
  ASSUME Inv, ConnProofs!Inv, Calling, [Next]_vars PROVE (ConnProofs!Inv /\ Calling)'
<1> USE DEF Calling
<1>1. ASSUME NEW r \in Requests, Renew(r) PROVE (ConnProofs!Inv /\ Calling)'
  <2>1. option' \in ConnProofs!OptionSettings
    BY <1>1 DEF Renew, Passed, Requests, ConnProofs!OptionSettings, Conn!NoOption
  <2>2. pc = "idle"
    BY <1>1 DEF Renew, Inv, Stage
  <2>3. ConnProofs!Inv'
    BY <1>1, <2>1, <2>2, RenewedInv DEF Renew
  <2> QED
    BY <1>1, <2>3, ConstantsAssumption DEF Renew, ConstantsAssumption
<1>2. CASE Configure
  <2>1. ConnProofs!Inv'
    BY <1>2, ConnAssumptions, SameConfigure, ConnProofs!OptionsConfigureStep DEF Configure
  <2> QED
    BY <1>2, <2>1 DEF Configure
<1>3. CASE Connect
  <2>1. request.retry => request.max \in MaxRetries \cup {0}
    BY DEF Requests
  <2>2. ConnProofs!Inv'
    BY <1>3, <2>1, ConnAssumptions, SameConnect, ConnProofs!ConnectRetryStep,
       ConnProofs!ConnectStep DEF Connect, Requests
  <2> QED
    BY <1>3, <2>2 DEF Connect
<1>4. CASE ConnectStep
  <2>1. ConnProofs!Inv'
    BY <1>4, ConnAssumptions, SameStep, ConnProofs!ConnectingStep DEF ConnectStep
  <2> QED
    BY <1>4, <2>1 DEF ConnectStep
<1>5. CASE Return
  <2>1. answer \in {"true", "false", "none"}
    BY DEF ConnProofs!Inv, ConnProofs!TypeOK
  <2>2. UNCHANGED ConnProofs!vars
    BY <1>5 DEF Return, connection, ConnProofs!vars, ConnProofs!library,
       ConnProofs!progress
  <2>3. ConnProofs!Inv'
    BY <2>2, ConnAssumptions, ConnProofs!UnchangedStep
  <2> QED
    BY <1>5, <2>1, <2>3 DEF Return, Replies
<1>6. CASE Destroy
  <2>1. pc = "idle" /\ option' \in ConnProofs!OptionSettings
    BY <1>6 DEF Destroy, Inv, Stage, ConnProofs!Inv, ConnProofs!TypeOK
  <2>2. ConnProofs!Inv'
    BY <1>6, <2>1, RenewedInv DEF Destroy
  <2> QED
    BY <1>6, <2>2 DEF Destroy
<1>7. CASE UNCHANGED vars
  <2>1. UNCHANGED ConnProofs!vars
    BY <1>7 DEF vars, connection, ConnProofs!vars, ConnProofs!library,
       ConnProofs!progress
  <2>2. ConnProofs!Inv'
    BY <2>1, ConnAssumptions, ConnProofs!UnchangedStep
  <2> QED
    BY <1>7, <2>2 DEF vars
<1> QED
  BY <1>1, <1>2, <1>3, <1>4, <1>5, <1>6, <1>7 DEF Next, Ended

(* Both hold in every behaviour.                                           *)
LEMMA TypedHolds == SafetySpec => [](ConnProofs!Inv /\ Calling)
<1>1. Init => ConnProofs!Inv /\ Calling
  <2> SUFFICES ASSUME Init PROVE ConnProofs!Inv /\ Calling
    OBVIOUS
  <2>1. ConnProofs!InitWith(FALSE)
    BY DEF Init, Conn!InitWith, ConnProofs!InitWith, Conn!NoOption,
       ConnProofs!NoOption, Conn!NewCall, ConnProofs!NewCall, Conn!NoPauses,
       ConnProofs!NoPauses
  <2>2. ConnProofs!Inv
    BY <2>1, ConnAssumptions, ConnProofs!InitInv
  <2>3. request \in Requests
    <3>1. NoRequest \in Requests
      <4>1. FALSE \in BOOLEAN /\ 0 \in MaxRetries \cup {0}
        OBVIOUS
      <4>2. "" \in {"", "path"} /\ "" \in {"", "key"}
        OBVIOUS
      <4> QED
        BY <4>1, <4>2, Zenon DEF NoRequest, Requests
    <3> QED
      BY <3>1 DEF Init
  <2>4. calls \in 0 .. MaxCalls
    BY ConstantsAssumption DEF Init, ConstantsAssumption
  <2> QED
    BY <2>2, <2>3, <2>4 DEF Calling, Init
<1>2. Inv /\ ConnProofs!Inv /\ Calling /\ [Next]_vars => (ConnProofs!Inv /\ Calling)'
  BY TypedStep
<1> QED
  BY <1>1, <1>2, InvHolds, PTL DEF SafetySpec

(* The state of the database, its connection included, is well-typed, for  *)
(* any number of calls.                                                    *)
THEOREM TypeCorrect == SafetySpec => []TypeOK
<1>1. ConnProofs!Inv /\ Calling => TypeOK
  BY DEF ConnProofs!Inv, ConnProofs!TypeOK, Conn!TypeOK, TypeOK, Calling,
     Conn!OptionSettings, ConnProofs!OptionSettings, Conn!LibraryOptions,
     ConnProofs!LibraryOptions, Conn!CallRecords, ConnProofs!CallRecords,
     Conn!Timeout, ConnProofs!Timeout
<1> QED
  BY TypedHolds, <1>1, PTL

-----------------------------------------------------------------------------
(* The options of a call on their whole way: to the connection object, to  *)
(* the library, through the attempts and into the answer.                  *)

(* The connect in progress, or the last one, is that of the request.       *)
SameCall ==
  /\ call.retry = request.retry
  /\ call.remember = request.remember
  /\ request.retry => call.max = request.max

(* What the library has been told of a request: not all that it says.      *)
TlsTold(r) ==
  {o \in {<<"SSL_CA", "">>, <<"SSL_KEY", "password">>} :
     r.tls /\ (IF o[1] = "SSL_CA" THEN r.creat \/ r.key ELSE r.key)}

Told(r) == TlsTold(r) \cup (IF r.retry THEN {Conn!Timeout} ELSE {})

(* It has been told no more at any time, and all of it at the first        *)
(* attempt, and when it does not forget.                                   *)
OptionsTold ==
  at = "connecting" /\ M_mysql_handler # Null =>
    /\ given[M_mysql_handler] \subseteq Told(request)
    /\ pc = "first" \/ request.remember => given[M_mysql_handler] = Told(request)

Linked ==
  /\ at = "connect" /\ M_mysql_handler # Null =>
       given[M_mysql_handler] = TlsTold(request)
  /\ at = "connecting" => SameCall /\ (pc = "idle" => call.attempts >= 1)
  /\ at = "idle" /\ reply # "none" =>
       SameCall /\ call.attempts >= 1 /\ answer = reply

Joint == Inv /\ ConnProofs!Inv /\ Calling

(* A connect starts with the arguments of the request, which are all the   *)
(* library has yet to be told.                                             *)
LEMMA LinkedConnect ==
  ASSUME Joint, Linked, OptionsTold, Connect PROVE (Linked /\ OptionsTold)'
<1>1. /\ at = "connect" /\ at' = "connecting" /\ ~M_connectd /\ DOMAIN given = Handles
      /\ UNCHANGED <<M_mysql_handler, request, reply>>
      /\ M_mysql_handler \in Handles \cup {Null}
  BY DEF Joint, Inv, Types, Stage, Connect, Conn!mysql_connect_to_service_retry,
     Conn!mysql_connect_to_service
<1>2. CASE request.retry /\ Conn!mysql_connect_to_service_retry(request.max,
                                                               request.remember)
  <2>1. /\ pc' = "first" \/ pc' = "crashed"
        /\ call' = Conn!NewCall(TRUE, request.max, request.remember, Conn!Connected)
        /\ M_mysql_handler # Null =>
             given' = [given EXCEPT ![M_mysql_handler] = @ \cup {Conn!Timeout}]
    BY <1>1, <1>2 DEF Conn!mysql_connect_to_service_retry, Conn!Crashes,
       Conn!GoesTo, Conn!is_connectd, Conn!SetsTimeout
  <2>2. SameCall'
    BY <1>1, <1>2, <2>1 DEF SameCall, Conn!NewCall, Joint, Calling, Requests
  <2>3. M_mysql_handler # Null => given'[M_mysql_handler] = Told(request)
    BY <1>1, <1>2, <2>1 DEF Linked, Told, TlsTold, Conn!Timeout
  <2> QED
    BY <1>1, <2>1, <2>2, <2>3 DEF Linked, OptionsTold
<1>3. CASE ~request.retry /\ Conn!mysql_connect_to_service(request.remember)
  <2>1. /\ pc' = "first" /\ UNCHANGED given
        /\ call' = Conn!NewCall(FALSE, 0, request.remember, Conn!Connected)
    BY <1>1, <1>3 DEF Conn!mysql_connect_to_service, Conn!GoesTo,
       Conn!is_connectd, Conn!library
  <2>2. SameCall'
    BY <1>1, <1>3, <2>1 DEF SameCall, Conn!NewCall, Joint, Calling, Requests
  <2>3. M_mysql_handler # Null => given'[M_mysql_handler] = Told(request)
    BY <1>1, <1>3, <2>1 DEF Linked, Told, TlsTold, Conn!Timeout
  <2> QED
    BY <1>1, <2>1, <2>2, <2>3 DEF Linked, OptionsTold
<1> QED
  BY <1>2, <1>3 DEF Connect

(* An attempt, or what comes before it: only a failure that forgets the    *)
(* options changes them.                                                   *)
LEMMA LinkedStep ==
  ASSUME Joint, Linked, OptionsTold, ConnectStep PROVE (Linked /\ OptionsTold)'
<1>1. /\ at = "connecting" /\ UNCHANGED <<at, request, reply>> /\ Conn!Step
      /\ DOMAIN given = Handles /\ M_mysql_handler \in Handles \cup {Null}
      /\ call \in ConnProofs!CallRecords
      /\ SameCall
  BY DEF Joint, Inv, Types, ConnProofs!Inv, ConnProofs!TypeOK, ConnectStep, Linked
<1>2. /\ UNCHANGED M_mysql_handler
      /\ pc' # "first"
      /\ \/ /\ pc' # "idle" \/ pc = "random"
            /\ call' \in {call, [call EXCEPT !.norandom = TRUE]}
            /\ UNCHANGED given
         \/ /\ call' = Conn!Dialled(call)
            /\ M_mysql_handler # Null
            /\ \/ UNCHANGED given
               \/ given' = [given EXCEPT ![M_mysql_handler] =
                               IF call.remember THEN @ ELSE {}]
  <2>1. CASE Conn!FirstCrashes
    BY <2>1 DEF Conn!FirstCrashes, Conn!Crashes, Conn!library
  <2>2. CASE Conn!RandomDevice
    BY <2>2 DEF Conn!RandomDevice, Conn!Returns, Conn!EntersLoop, Conn!library
  <2>3. ASSUME NEW success, Conn!mysql_real_connect(success)
        PROVE  \/ UNCHANGED given
               \/ given' = [given EXCEPT ![M_mysql_handler] =
                               IF call.remember THEN @ ELSE {}]
    BY <2>3, Zenon DEF Conn!mysql_real_connect, Conn!library
  <2>4. CASE Conn!First
    BY <2>3, <2>4 DEF Conn!First, Conn!Returns, Conn!GoesTo
  <2>5. CASE Conn!Retry
    <3>1. M_mysql_handler # Null
      BY <1>1, <2>5 DEF Conn!Retry, Joint, Inv, Stage
    <3> QED
      BY <2>3, <2>5, <3>1 DEF Conn!Retry, Conn!Returns, Conn!EntersLoop
  <2> QED
    BY <1>1, <2>1, <2>2, <2>4, <2>5 DEF Conn!Step
<1>3. /\ Conn!Dialled(call).retry = call.retry
      /\ Conn!Dialled(call).remember = call.remember
      /\ Conn!Dialled(call).max = call.max
      /\ Conn!Dialled(call).attempts = call.attempts + 1
      /\ [call EXCEPT !.norandom = TRUE].retry = call.retry
      /\ [call EXCEPT !.norandom = TRUE].remember = call.remember
      /\ [call EXCEPT !.norandom = TRUE].max = call.max
      /\ [call EXCEPT !.norandom = TRUE].attempts = call.attempts
      /\ call.attempts \in Nat
  BY <1>1 DEF Conn!Dialled, ConnProofs!CallRecords
<1>4. SameCall'
  BY <1>1, <1>2, <1>3 DEF SameCall
<1>5. pc = "random" => call.attempts = 1
  BY DEF Joint, ConnProofs!Inv, ConnProofs!Counted
<1>6. pc' = "idle" => call'.attempts >= 1
  <2>1. call'.attempts \in {call.attempts, call.attempts + 1}
    BY <1>2, <1>3
  <2>2. pc' = "idle" => pc = "random" \/ call'.attempts = call.attempts + 1
    BY <1>2, <1>3
  <2> QED
    BY <1>3, <1>5, <2>1, <2>2
<1>7. OptionsTold'
  <2> SUFFICES ASSUME M_mysql_handler # Null
               PROVE  /\ given'[M_mysql_handler] \subseteq Told(request)
                      /\ request.remember => given'[M_mysql_handler] = Told(request)
    BY <1>1, <1>2 DEF OptionsTold
  <2>1. /\ given[M_mysql_handler] \subseteq Told(request)
        /\ request.remember => given[M_mysql_handler] = Told(request)
    BY <1>1 DEF OptionsTold
  <2>2. request.remember => call.remember
    BY <1>1 DEF SameCall
  <2>3. \/ given'[M_mysql_handler] = given[M_mysql_handler]
        \/ ~request.remember /\ given'[M_mysql_handler] = {}
    BY <1>1, <1>2, <2>2
  <2> QED
    BY <2>1, <2>3
<1> QED
  BY <1>1, <1>4, <1>6, <1>7 DEF Linked

(* Every step.                                                             *)
LEMMA LinkedKept ==
  ASSUME Joint, Linked, OptionsTold, [Next]_vars PROVE (Linked /\ OptionsTold)'
<1>1. ASSUME NEW r \in Requests, Renew(r) PROVE (Linked /\ OptionsTold)'
  BY <1>1 DEF Renew, Linked, OptionsTold
<1>2. CASE Configure
  <2>1. /\ at' = "connect" /\ option = Passed(request) /\ UNCHANGED request
        /\ DOMAIN given = Handles
    BY <1>2 DEF Configure, Joint, Inv, Types, OptionsPassed
  <2>2. M_mysql_handler' # Null => given'[M_mysql_handler'] = Conn!TlsOptions
    BY <1>2, <2>1 DEF Configure, Conn!options_configure, Conn!Configured
  <2>3. Conn!TlsOptions = TlsTold(request)
    BY <2>1 DEF Conn!TlsOptions, Passed, Conn!NoOption, TlsTold
  <2> QED
    BY <2>1, <2>2, <2>3 DEF Linked, OptionsTold
<1>3. CASE Connect
  BY <1>3, LinkedConnect
<1>4. CASE ConnectStep
  BY <1>4, LinkedStep
<1>5. CASE Return
  <2>1. UNCHANGED <<call, request>> /\ at' = "idle" /\ reply' = answer /\ answer' = answer
    BY <1>5 DEF Return, connection, Replies
  <2>2. SameCall /\ call.attempts >= 1
    BY <1>5 DEF Return, Linked
  <2> QED
    BY <2>1, <2>2 DEF Linked, OptionsTold, SameCall
<1>6. CASE Destroy
  BY <1>6 DEF Destroy, Linked, OptionsTold
<1>7. CASE UNCHANGED vars
  BY <1>7 DEF vars, connection, Linked, OptionsTold, SameCall
<1> QED
  BY <1>1, <1>2, <1>3, <1>4, <1>5, <1>6, <1>7 DEF Next, Ended

(* The invariant of the options holds in every behaviour.                  *)
LEMMA LinkedHolds == SafetySpec => [](Joint /\ Linked /\ OptionsTold)
<1>1. Init => Linked /\ OptionsTold
  BY DEF Init, Linked, OptionsTold
<1>2. Joint /\ Linked /\ OptionsTold /\ [Next]_vars => (Linked /\ OptionsTold)'
  BY LinkedKept
<1>3. SafetySpec => []Joint
  <2>1. Inv /\ ConnProofs!Inv /\ Calling => Joint
    BY DEF Joint
  <2> QED
    BY InvHolds, TypedHolds, <2>1, PTL
<1> QED
  BY <1>1, <1>2, <1>3, PTL DEF SafetySpec

(* The certificate and the key are set in the library for those calls only *)
(* that enable them; they are there at the first attempt, and with         *)
(* CLIENT_REMEMBER_OPTIONS at each of them, for any number of calls.       *)
THEOREM TlsIsOfThisCall == SafetySpec => []TlsOfThisCall
<1>1. OptionsTold => TlsOfThisCall
  <2> SUFFICES ASSUME OptionsTold, at = "connecting", M_mysql_handler # Null
               PROVE  TlsOfThisCall
    BY DEF TlsOfThisCall
  <2> DEFINE key == request.tls /\ request.key
             creat == request.tls /\ (request.creat \/ request.key)
  <2>1. /\ given[M_mysql_handler] \subseteq Told(request)
        /\ pc = "first" \/ request.remember => given[M_mysql_handler] = Told(request)
    BY DEF OptionsTold
  <2>2. ASSUME NEW o \in Told(request)
        PROVE  (o[1] = "SSL_CA" => creat) /\ (o[1] = "SSL_KEY" => key)
    <3>1. CASE o = <<"CONNECT_TIMEOUT", "connect_timeout">>
      BY <3>1
    <3>2. CASE o = <<"SSL_CA", "">> /\ o \in TlsTold(request)
      BY <3>2 DEF TlsTold
    <3>3. CASE o = <<"SSL_KEY", "password">> /\ o \in TlsTold(request)
      BY <3>3 DEF TlsTold
    <3>4. \/ o = <<"CONNECT_TIMEOUT", "connect_timeout">>
          \/ o \in TlsTold(request)
      BY Zenon DEF Told, Conn!Timeout
    <3>5. o \in TlsTold(request) => o = <<"SSL_CA", "">> \/ o = <<"SSL_KEY", "password">>
      BY DEF TlsTold
    <3> QED
      BY <3>1, <3>2, <3>3, <3>4, <3>5
  <2>3. /\ creat => <<"SSL_CA", "">> \in Told(request)
        /\ key => <<"SSL_KEY", "password">> \in Told(request)
    BY DEF Told, TlsTold
  <2>4. /\ Has("SSL_CA") => creat
        /\ Has("SSL_KEY") => key
    BY <2>1, <2>2, Zenon DEF Has
  <2>5. <<"SSL_CA", "">>[1] = "SSL_CA" /\ <<"SSL_KEY", "password">>[1] = "SSL_KEY"
    OBVIOUS
  <2>6. /\ creat /\ given[M_mysql_handler] = Told(request) => Has("SSL_CA")
        /\ key /\ given[M_mysql_handler] = Told(request) => Has("SSL_KEY")
    BY <2>3, <2>5, Zenon DEF Has
  <2> QED
    BY <2>1, <2>4, <2>6 DEF TlsOfThisCall
<1> QED
  BY LinkedHolds, <1>1, PTL

(* A call does not answer before it has tried as often as its options ask  *)
(* for (with any maximum up to 31), and without retries it tries once.     *)
THEOREM AttemptsAreMade == SafetySpec => []TriedAsOftenAsAsked
<1>1. Joint /\ Linked => TriedAsOftenAsAsked
  <2> SUFFICES ASSUME Joint, Linked, at = "idle", reply # "none"
               PROVE  /\ call.attempts >= 1
                      /\ ~request.retry => call.attempts = 1
                      /\ request.retry /\ reply = "false" =>
                           call.attempts >= request.max + 1 \/ call.norandom
    BY DEF TriedAsOftenAsAsked
  <2>1. SameCall /\ call.attempts >= 1 /\ answer = reply
    BY DEF Linked
  <2>2. ConnProofs!RetriesNotCutShort /\ call.attempts \in Nat
    BY DEF Joint, ConnProofs!Inv, ConnProofs!TypeOK, ConnProofs!CallRecords
  <2>3. CASE ~request.retry
    BY <2>1, <2>2, <2>3 DEF SameCall, ConnProofs!RetriesNotCutShort
  <2>4. CASE request.retry
    BY <2>1, <2>2, <2>4 DEF SameCall, ConnProofs!RetriesNotCutShort
  <2> QED
    BY <2>3, <2>4
<1> QED
  BY LinkedHolds, <1>1, PTL
=============================================================================
