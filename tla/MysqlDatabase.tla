----------------------------- MODULE MysqlDatabase -----------------------------
(***************************************************************************)
(* A sql_database_mysql object: mysql_connect_database makes a new         *)
(* mysql_connect object, which takes the place of the one before, hands    *)
(* the options of the caller on to it, configures it and connects it, with *)
(* retries or without. The steps of the connection are those of            *)
(* MysqlConnect; what is added is which of them are taken, in which order, *)
(* and with which options.                                                 *)
(***************************************************************************)
EXTENDS Integers, Sequences, FiniteSets

CONSTANTS
  Handles, Null, MaxRetries,  \* as in MysqlConnect
  MaxCalls                    \* a bound on the calls of the program

ASSUME ConstantsAssumption ==
  /\ Null \notin Handles
  /\ MaxRetries \subseteq -1 .. 31
  /\ MaxCalls \in Nat

VARIABLES
  M_mysql_handler, M_connectd, option, held, pooled,   \* the connection object
  handle, given,                                       \* the library
  pc, call, attempt, recent, answer, reconfigured,     \* the connect
  at,         \* where the call of mysql_connect_database is
  request,    \* its options
  reply,      \* what the last call has returned
  calls       \* how many calls were made

connection == <<M_mysql_handler, M_connectd, option, held, pooled, handle, given,
                pc, call, attempt, recent, answer, reconfigured>>
vars == <<connection, at, request, reply, calls>>

Settings == [tls : BOOLEAN, creat : BOOLEAN, key : BOOLEAN]

Conn == INSTANCE MysqlConnect

(* mysql_option, and whether client_flags has CLIENT_REMEMBER_OPTIONS. The *)
(* three timeouts (to connect, to read and to write) are in every request: *)
(* they have defaults. Only the first of them is ever read.                *)
Requests ==
  [retry : BOOLEAN, max : MaxRetries \cup {0}, remember : BOOLEAN,
   tls : BOOLEAN, creat : BOOLEAN, key : BOOLEAN,
   mysql_CA_creat_path : {"", "path"}, mysql_tls_key : {"", "key"}]

NoRequest ==
  [retry |-> FALSE, max |-> 0, remember |-> FALSE,
   tls |-> FALSE, creat |-> FALSE, key |-> FALSE,
   mysql_CA_creat_path |-> "", mysql_tls_key |-> ""]

TypeOK ==
  /\ Conn!TypeOK
  /\ at \in {"idle", "configure", "connect", "connecting", "gone"}
  /\ request \in Requests
  /\ reply \in {"none", "true", "false"}
  /\ calls \in 0 .. MaxCalls

(* create_sql: no connection object yet.                                   *)
Init ==
  /\ Conn!InitWith(FALSE)
  /\ at = "idle"
  /\ request = NoRequest
  /\ reply = "none"
  /\ calls = 0

-----------------------------------------------------------------------------
(* Mutant of Passed: a call without TLS leaves the settings as they are.   *)
PassedOver(r) ==
  IF r.tls /\ (r.creat \/ r.key)
  THEN [Conn!NoOption EXCEPT !.tls = TRUE, !.creat = TRUE, !.key = r.key]
  ELSE option

(* The options that reach the connection object: three flags or none, and  *)
(* a key brings a certificate with it. The path and the key themselves are *)
(* left behind: nobody calls set_tls_custom_creat or set_tls_custom_key.   *)
Passed(r) ==
  IF r.tls /\ (r.creat \/ r.key)
  THEN [Conn!NoOption EXCEPT !.tls = TRUE, !.creat = TRUE, !.key = r.key]
  ELSE Conn!NoOption

(* Mutant of Renew: the connection object that is there is kept.           *)
RenewOnce(r) ==
  /\ at = "idle"
  /\ calls < MaxCalls
  /\ option' = Passed(r)
  /\ held' = TRUE
  /\ answer' = "none"
  /\ at' = "configure"
  /\ request' = r
  /\ reply' = "none"
  /\ calls' = calls + 1
  /\ UNCHANGED <<M_mysql_handler, M_connectd, handle, given, pooled, pc, call,
                 attempt, recent, reconfigured>>

(* make_shared, the end of the connection object it replaces, and the      *)
(* options.                                                                *)
Renew(r) ==
  /\ at = "idle"
  /\ calls < MaxCalls
  /\ Conn!Closes
  /\ option' = Passed(r)
  /\ held' = TRUE
  /\ answer' = "none"
  /\ at' = "configure"
  /\ request' = r
  /\ reply' = "none"
  /\ calls' = calls + 1
  /\ UNCHANGED <<pooled, pc, call, attempt, recent, reconfigured>>

Configure ==
  /\ at = "configure"
  /\ Conn!options_configure
  /\ at' = "connect"
  /\ UNCHANGED <<request, reply, calls>>

(* Mutant of Connect: the two ways to connect are confused.                *)
ConnectSwapped ==
  /\ at = "connect"
  /\ \/ ~request.retry
        /\ Conn!mysql_connect_to_service_retry(request.max, request.remember)
     \/ request.retry /\ Conn!mysql_connect_to_service(request.remember)
  /\ at' = "connecting"
  /\ UNCHANGED <<request, reply, calls>>

Connect ==
  /\ at = "connect"
  /\ \/ request.retry
        /\ Conn!mysql_connect_to_service_retry(request.max, request.remember)
     \/ ~request.retry /\ Conn!mysql_connect_to_service(request.remember)
  /\ at' = "connecting"
  /\ UNCHANGED <<request, reply, calls>>

ConnectStep ==
  /\ at = "connecting"
  /\ Conn!Step
  /\ UNCHANGED <<at, request, reply, calls>>

(* Mutant of Replies: whatever the connect says, the call has succeeded.   *)
RepliesTrue == "true"

Replies == answer

(* The end of the call. A connection made without retries is meant for the *)
(* pool, which is asked for but not given it.                              *)
Return ==
  /\ at = "connecting"
  /\ pc = "idle"
  /\ reply' = Replies
  /\ at' = "idle"
  /\ UNCHANGED <<connection, request, calls>>

(* The last pointer to the database object goes.                           *)
Destroy ==
  /\ at = "idle"
  /\ at' = "gone"
  /\ Conn!Closes
  /\ held' = FALSE
  /\ answer' = "none"
  /\ UNCHANGED <<option, pooled, pc, call, attempt, recent, reconfigured,
                 request, reply, calls>>

Ended ==
  /\ pc = "crashed" \/ at = "gone"
  /\ UNCHANGED vars

-----------------------------------------------------------------------------
Next ==
  \/ \E r \in Requests : Renew(r)
  \/ Configure \/ Connect \/ ConnectStep \/ Return
  \/ Destroy
  \/ Ended

SafetySpec == Init /\ [][Next]_vars

(* A call, once begun, goes on: mysql_real_connect comes back some time.   *)
Spec == SafetySpec /\ WF_vars(Configure \/ Connect \/ ConnectStep \/ Return)

-----------------------------------------------------------------------------
(* Properties.                                                             *)

(* Whatever the calls before have left behind, there is never a structure  *)
(* besides the current one: no connection is lost by connecting again, and *)
(* none is left open when the object is gone.                              *)
OneHandle ==
  \A h \in Handles :
    handle[h] \in {"ready", "connected"} => h = M_mysql_handler /\ at # "gone"

(* Whether the library has been given an option, with whatever value.      *)
Has(name) == \E o \in given[M_mysql_handler] : o[1] = name

(* The certificate and the key that the library is made to use go with     *)
(* what this call enables, and never with what an earlier one did: they    *)
(* are set at the first attempt, and with CLIENT_REMEMBER_OPTIONS at each  *)
(* of them and once connected, however many have failed. That says nothing *)
(* about their values: the path and the key of the caller do not arrive.   *)
TlsOfThisCall ==
  at = "connecting" /\ M_mysql_handler # Null =>
    LET key == request.tls /\ request.key
        creat == request.tls /\ (request.creat \/ request.key)
    IN /\ Has("SSL_CA") => creat
       /\ Has("SSL_KEY") => key
       /\ pc = "first" \/ request.remember =>
            (creat => Has("SSL_CA")) /\ (key => Has("SSL_KEY"))

(* A call tries the server as often as its own options ask for, whatever   *)
(* the calls before it were: at least once; once only without retries; and *)
(* with retries it answers false after the first attempt and all of the    *)
(* retries at the earliest, unless there is no random_device.              *)
TriedAsOftenAsAsked ==
  at = "idle" /\ reply # "none" =>
    /\ call.attempts >= 1
    /\ ~request.retry => call.attempts = 1
    /\ request.retry /\ reply = "false" =>
         call.attempts >= request.max + 1 \/ call.norandom

(* The option mysql_connect_tiemout, `Default timeout', which the test     *)
(* program sets together with mysql_enable_retry = false: every attempt to *)
(* connect is made with a timeout.                                         *)
TimeoutAlwaysSet == ~call.bare

Up == \E h \in Handles : handle[h] = "connected"
Phase ==
  IF pc = "crashed" THEN "dead"
  ELSE IF at \in {"idle", "gone"} THEN at
  ELSE "calling"

Promise == INSTANCE Connector WITH phase <- Phase, up <- Up, answer <- reply

(* Every call is answered, with the truth about the one connection that    *)
(* there then is, unless the program dies.                                 *)
ImplementsConnector == Promise!Spec
=============================================================================
