----------------------------- MODULE MysqlConnect -----------------------------
(***************************************************************************)
(* A mysql_connect object: options_configure, the connect with retries and *)
(* the plain one, the destructor, and the pool of shared pointers that     *)
(* push_new_connect fills.                                                 *)
(*                                                                         *)
(* The object owns one MYSQL structure of the client library. The library  *)
(* is external: mysql_init may be out of memory, mysql_real_connect may    *)
(* fail, a structure that is connected refuses to be connected again (and, *)
(* depending on the version, loses its connection over it), and a failure  *)
(* forgets the options set by mysql_options unless the client flags        *)
(* include CLIENT_REMEMBER_OPTIONS. A null structure crashes the program.  *)
(* M_is_configured is left out: it only decides about a line of log.       *)
(***************************************************************************)
EXTENDS Integers, Sequences, FiniteSets, Backoff

CONSTANTS
  Handles,     \* the structures that mysql_init can return (a bound)
  Null,        \* the null pointer
  MaxRetries,  \* the values given for mysql_max_retry_count
  Settings     \* the settings given to mysql_options_set

ASSUME ConstantsAssumption ==
  /\ Null \notin Handles
  /\ MaxRetries \subseteq -1 .. 31
  /\ Settings \subseteq [tls : BOOLEAN, creat : BOOLEAN, key : BOOLEAN]

VARIABLES
  M_mysql_handler,   \* the structure of the object
  M_connectd,        \* the flag that is meant to say whether it is connected
  option,            \* M_mysql_connect_option
  held,              \* the program holds a shared pointer to the object
  pooled,            \* the pool of connections holds one
  handle,            \* the state of each structure inside the library
  given,             \* the options each structure has
  pc,                \* where the connect in progress is
  call,              \* its arguments, and what it has done so far
  attempt,           \* the variable of the retry loop
  recent,            \* the pauses before the last three attempts, newest first
  answer,            \* what the last connect has returned
  reconfigured       \* history: options_configure has overwritten a structure

library == <<handle, given>>
progress == <<pc, call, attempt, recent, answer>>
vars == <<M_mysql_handler, M_connectd, option, held, pooled, library, progress,
          reconfigured>>

(* The options of mysql_options, each with the value it is given. The      *)
(* certificate is the path of the caller or, without one, an empty text;   *)
(* the key is not a key but the password of the account.                   *)
Timeout == <<"CONNECT_TIMEOUT", "connect_timeout">>
LibraryOptions ==
  {Timeout, <<"SSL_CA", "">>, <<"SSL_CA", "path">>, <<"SSL_KEY", "password">>}

(* The members is_enable_tls, is_enable_custom_creat, is_enable_custom_key *)
(* and the two texts, empty or given by the caller.                        *)
OptionSettings ==
  [tls : BOOLEAN, creat : BOOLEAN, key : BOOLEAN,
   custom_creat_path : {"", "path"}, custom_key : {"", "key"}]

NoOption ==
  [tls |-> FALSE, creat |-> FALSE, key |-> FALSE,
   custom_creat_path |-> "", custom_key |-> ""]

(* The arguments, and four notes for the properties: there was a           *)
(* connection before, how often mysql_real_connect was called, whether it  *)
(* ever was with no timeout set, and that there was no random_device.      *)
CallRecords ==
  [retry : BOOLEAN, max : MaxRetries \cup {0}, remember : BOOLEAN,
   was : BOOLEAN, attempts : Nat, bare : BOOLEAN, norandom : BOOLEAN]

NewCall(retry, max, remember, was) ==
  [retry |-> retry, max |-> max, remember |-> remember, was |-> was,
   attempts |-> 0, bare |-> FALSE, norandom |-> FALSE]

TypeOK ==
  /\ M_mysql_handler \in Handles \cup {Null}
  /\ M_connectd \in BOOLEAN
  /\ option \in OptionSettings
  /\ held \in BOOLEAN
  /\ pooled \in BOOLEAN
  /\ handle \in [Handles -> {"unused", "ready", "connected", "closed"}]
  /\ given \in [Handles -> SUBSET LibraryOptions]
  /\ pc \in {"idle", "first", "random", "try", "crashed"}
  /\ call \in CallRecords
  /\ attempt \in 0 .. 32
  /\ recent \in [1 .. 3 -> Int]
  /\ answer \in {"none", "true", "false"}
  /\ reconfigured \in BOOLEAN

NoPauses == [i \in 1 .. 3 |-> 0]

(* An object that has been constructed, or not yet.                        *)
InitWith(constructed) ==
  /\ M_mysql_handler = Null
  /\ M_connectd = FALSE
  /\ option = NoOption
  /\ held = constructed
  /\ pooled = FALSE
  /\ handle = [h \in Handles |-> "unused"]
  /\ given = [h \in Handles |-> {}]
  /\ pc = "idle"
  /\ call = NewCall(FALSE, 0, FALSE, FALSE)
  /\ attempt = 0
  /\ recent = NoPauses
  /\ answer = "none"
  /\ reconfigured = FALSE

Init == InitWith(TRUE)

Connected == M_mysql_handler # Null /\ handle[M_mysql_handler] = "connected"
is_connectd == M_connectd /\ M_mysql_handler # Null

Crashes(c) ==
  /\ pc' = "crashed"
  /\ call' = c
  /\ UNCHANGED <<attempt, recent, answer>>

GoesTo(place, c) ==
  /\ pc' = place
  /\ call' = c
  /\ answer' = "none"
  /\ UNCHANGED <<attempt, recent>>

Returns(a, c) ==
  /\ pc' = "idle"
  /\ call' = c
  /\ answer' = a
  /\ attempt' = 0
  /\ recent' = NoPauses

-----------------------------------------------------------------------------
(* Before a connect.                                                       *)

SetsOptions(o) ==
  /\ option' = o
  /\ UNCHANGED <<M_mysql_handler, M_connectd, held, pooled, library, progress,
                 reconfigured>>

mysql_options_set(s) ==
  /\ pc = "idle" /\ held
  /\ SetsOptions([option EXCEPT !.tls = s.tls, !.creat = s.creat, !.key = s.key])

set_tls_custom_creat ==
  /\ pc = "idle" /\ held
  /\ SetsOptions([option EXCEPT !.custom_creat_path = "path"])

(* The text is kept, and never read.                                       *)
set_tls_custom_key ==
  /\ pc = "idle" /\ held
  /\ SetsOptions([option EXCEPT !.custom_key = "key"])

(* Mutant of TlsOptions: the certificate is passed as a directory of them. *)
TlsOptionsByPath ==
  {o \in {<<"SSL_CAPATH", option.custom_creat_path>>, <<"SSL_KEY", "password">>} :
     option.tls /\ (IF o[1] = "SSL_CAPATH" THEN option.creat ELSE option.key)}

(* What options_configure hands to the library: nothing without TLS.       *)
TlsOptions ==
  {o \in {<<"SSL_CA", option.custom_creat_path>>, <<"SSL_KEY", "password">>} :
     option.tls /\ (IF o[1] = "SSL_CA" THEN option.creat ELSE option.key)}

(* Mutant of Configured: the structure that is there is configured again.  *)
ConfiguredOnce(h) == IF M_mysql_handler = Null THEN h ELSE M_mysql_handler

(* The structure that the object has after options_configure: always the   *)
(* new one, whether or not it has warned about being configured already.   *)
Configured(h) == h

options_configure ==
  /\ pc = "idle" /\ held
  /\ \/ \E h \in Handles :
          /\ handle[h] = "unused"
          /\ M_mysql_handler' = Configured(h)
          /\ handle' = [handle EXCEPT ![h] = "ready"]
          /\ given' = [given EXCEPT ![h] = TlsOptions]
     \/ M_mysql_handler' = Null /\ UNCHANGED library
  /\ reconfigured' = (reconfigured \/ M_mysql_handler # Null)
  /\ answer' = "none"
  /\ UNCHANGED <<M_connectd, option, held, pooled, pc, call, attempt, recent>>

-----------------------------------------------------------------------------
(* mysql_real_connect with the object's structure, which is not null.      *)

Dialled(c) ==
  [c EXCEPT !.attempts = @ + 1,
            !.bare = @ \/ Timeout \notin given[M_mysql_handler]]

mysql_real_connect(success) ==
  \/ /\ success
     /\ handle[M_mysql_handler] = "ready"
     /\ handle' = [handle EXCEPT ![M_mysql_handler] = "connected"]
     /\ UNCHANGED given
  \/ /\ ~success
     /\ handle' = [handle EXCEPT ![M_mysql_handler] = "ready"]
     /\ given' = [given EXCEPT ![M_mysql_handler] = IF call.remember THEN @ ELSE {}]
  \/ /\ ~success
     /\ handle[M_mysql_handler] = "connected"
     /\ UNCHANGED library

-----------------------------------------------------------------------------
(* The two connects. Both begin with a test of is_connectd and one of the  *)
(* same two conditions the other way round, which can only hold when the   *)
(* first does.                                                             *)

(* Mutant of SetsTimeout: the timeout is left to mysql_real_connect.       *)
SetsNoTimeout == UNCHANGED given

(* mysql_options with MYSQL_OPT_CONNECT_TIMEOUT, before anything else.     *)
SetsTimeout ==
  given' = [given EXCEPT ![M_mysql_handler] = @ \cup {Timeout}]

mysql_connect_to_service_retry(max, remember) ==
  /\ pc = "idle" /\ held
  /\ LET c == NewCall(TRUE, max, remember, Connected)
     IN \/ /\ M_mysql_handler = Null
           /\ Crashes(c) /\ UNCHANGED given
        \/ /\ M_mysql_handler # Null
           /\ SetsTimeout
           /\ IF is_connectd THEN Returns("true", c) ELSE GoesTo("first", c)
  /\ UNCHANGED <<M_mysql_handler, M_connectd, option, held, pooled, handle,
                 reconfigured>>

mysql_connect_to_service(remember) ==
  /\ pc = "idle" /\ held
  /\ LET c == NewCall(FALSE, 0, remember, Connected)
     IN IF is_connectd THEN Returns("true", c) ELSE GoesTo("first", c)
  /\ UNCHANGED <<M_mysql_handler, M_connectd, option, held, pooled, library,
                 reconfigured>>

(* The first call of mysql_real_connect, which a failure ends or makes the *)
(* beginning of the retries.                                               *)
FirstCrashes ==
  /\ pc = "first"
  /\ M_mysql_handler = Null
  /\ Crashes(call)
  /\ UNCHANGED <<M_mysql_handler, M_connectd, option, held, pooled, library,
                 reconfigured>>

First ==
  /\ pc = "first"
  /\ M_mysql_handler # Null
  /\ \E success \in BOOLEAN :
       /\ mysql_real_connect(success)
       /\ \/ success /\ Returns("true", Dialled(call))
          \/ ~success /\ call.retry /\ GoesTo("random", Dialled(call))
          \/ ~success /\ ~call.retry /\ Returns("false", Dialled(call))
  /\ UNCHANGED <<M_mysql_handler, M_connectd, option, held, pooled, reconfigured>>

(* Mutant of MayTry: the loop takes the first attempt of the call, made    *)
(* before it, for one of the retries.                                      *)
MayTryFewer(a) == a < call.max - 1

(* The condition of the loop, which begins at 0: with `Default max retry'  *)
(* it lets one retry more through than it is told.                         *)
MayTry(a) == a <= call.max

(* The loop from the test of its condition to the next call of             *)
(* mysql_real_connect: no pause before attempt 0.                          *)
EntersLoop(a, c) ==
  \/ ~MayTry(a) /\ Returns("false", c)
  \/ /\ MayTry(a)
     /\ pc' = "try" /\ call' = c /\ attempt' = a
     /\ \/ a = 0 /\ UNCHANGED recent
        \/ a > 0 /\ \E p \in Pauses(a) :
             recent' = [i \in 1 .. 3 |-> IF i = 1 THEN p ELSE recent[i - 1]]
     /\ UNCHANGED answer

(* The random_device, whose constructor may throw, and the first round.    *)
RandomDevice ==
  /\ pc = "random"
  /\ \/ Returns("false", [call EXCEPT !.norandom = TRUE])
     \/ EntersLoop(0, call)
  /\ UNCHANGED <<M_mysql_handler, M_connectd, option, held, pooled, library,
                 reconfigured>>

(* Mutant of Retry: a success does not end the loop.                       *)
RetryOn ==
  /\ pc = "try"
  /\ \E success \in BOOLEAN : mysql_real_connect(success)
  /\ EntersLoop(attempt + 1, Dialled(call))
  /\ UNCHANGED <<M_mysql_handler, M_connectd, option, held, pooled, reconfigured>>

Retry ==
  /\ pc = "try"
  /\ \E success \in BOOLEAN :
       /\ mysql_real_connect(success)
       /\ \/ success /\ Returns("true", Dialled(call))
          \/ ~success /\ EntersLoop(attempt + 1, Dialled(call))
  /\ UNCHANGED <<M_mysql_handler, M_connectd, option, held, pooled, reconfigured>>

-----------------------------------------------------------------------------
(* push_new_connect, and the end of the object: the program lets go of its *)
(* pointer, the pool only when it is destroyed itself, at exit.            *)

push_new_connect ==
  /\ pc = "idle" /\ held
  /\ pooled' = TRUE
  /\ UNCHANGED <<M_mysql_handler, M_connectd, option, held, library, progress,
                 reconfigured>>

(* Mutant of Closes: the destructor leaves the structure to the library.   *)
ClosesNothing == UNCHANGED <<M_mysql_handler, M_connectd, handle, given>>

(* ~mysql_connect                                                          *)
Closes ==
  /\ handle' = [h \in Handles |-> IF h = M_mysql_handler THEN "closed" ELSE handle[h]]
  /\ given' = [h \in Handles |-> IF h = M_mysql_handler THEN {} ELSE given[h]]
  /\ M_mysql_handler' = Null
  /\ M_connectd' = FALSE

Keeps == UNCHANGED <<M_mysql_handler, M_connectd, library>>

Release ==
  /\ pc = "idle" /\ held
  /\ held' = FALSE
  /\ answer' = "none"
  /\ IF pooled THEN Keeps ELSE Closes
  /\ UNCHANGED <<option, pooled, pc, call, attempt, recent, reconfigured>>

(* The pool of connections is destroyed after main has returned.           *)
Exit ==
  /\ pooled /\ ~held
  /\ pooled' = FALSE
  /\ Closes
  /\ UNCHANGED <<option, held, progress, reconfigured>>

(* Nothing moves in a program that has crashed or let go of the object.    *)
Ended ==
  /\ pc = "crashed" \/ (~held /\ ~pooled)
  /\ UNCHANGED vars

-----------------------------------------------------------------------------
(* One step of a connect in progress.                                      *)
Step == FirstCrashes \/ First \/ RandomDevice \/ Retry

Next ==
  \/ \E s \in Settings : mysql_options_set(s)
  \/ set_tls_custom_creat \/ set_tls_custom_key
  \/ options_configure
  \/ \E max \in MaxRetries, remember \in BOOLEAN :
       mysql_connect_to_service_retry(max, remember)
  \/ \E remember \in BOOLEAN : mysql_connect_to_service(remember)
  \/ Step
  \/ push_new_connect \/ Release \/ Exit
  \/ Ended

Spec == Init /\ [][Next]_vars

-----------------------------------------------------------------------------
(* Properties.                                                             *)

(* `true' is answered only with a connection in hand, and `false' never    *)
(* while the call has made one: a connection the object still has after    *)
(* `false' is one that it had before, which is_connectd does not know of.  *)
AnswerExact ==
  /\ answer = "true" => Connected
  /\ answer = "false" /\ Connected => call.was

(* As long as nobody calls options_configure twice, the object never loses *)
(* a structure: all that are not closed are its own, and none is left when *)
(* the last pointer to the object is gone.                                 *)
NoHandleLost ==
  ~reconfigured => \A h \in Handles :
    handle[h] \in {"ready", "connected"} => h = M_mysql_handler /\ (held \/ pooled)

(* A connect with retries does not give up before the first attempt and    *)
(* all of the retries it may make have failed, unless the random_device    *)
(* cannot be had; and a connect without retries makes none.                *)
RetriesNotCutShort ==
  /\ answer = "false" /\ call.retry => call.attempts >= call.max + 1 \/ call.norandom
  /\ ~call.retry => call.attempts <= 1

(* The pauses back off: up to the last retry that is computed without an   *)
(* overflow, there is a pause before every retry but the first, and each   *)
(* one is longer than the one before the last, however the dice fall.      *)
PausesBackOff ==
  pc = "try" /\ attempt \in 1 .. LastExact =>
    /\ recent[1] >= 50
    /\ attempt > 2 => recent[1] > recent[3]

(* Attempts without the timeout that the caller of the connect with        *)
(* retries asked for are repeated ones, after the library has forgotten    *)
(* it; CLIENT_REMEMBER_OPTIONS keeps it through all of them.               *)
TimeoutForgottenByFailure ==
  call.retry /\ call.bare => call.attempts > 1 /\ ~call.remember
=============================================================================
