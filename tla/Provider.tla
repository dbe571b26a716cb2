------------------------------- MODULE Provider -------------------------------
(***************************************************************************)
(* The provider server from Configure to the data sources: a Terraform     *)
(* run configures it for the plan, when attributes may still be unknown,   *)
(* and once more, in a new process, for the apply.  The client it builds   *)
(* serves the cluster and topics data sources.  The cluster data source    *)
(* alone holds connections of its own, and hops from a bootstrap server to *)
(* the controller that one names.  Of a read only its course is kept, not  *)
(* the answers it is made of.                                              *)
(*                                                                         *)
(* Of a setting only what configuration tells apart is kept: it may be     *)
(* empty (false, or zero), malformed (or name a file that is of no use),   *)
(* or be one of several good values.                                       *)
(***************************************************************************)

CONSTANTS
  Null,      \* an attribute left out of the configuration
  Unknown,   \* an attribute whose value is only known at apply
  Values,    \* the values of settings
  Inputs     \* what is configured, with the environment it runs in

HclOnly == {"connection_timeout", "request_timeout"}

(* Attributes with a validator in the provider schema.                     *)
Validated ==
  HclOnly \cup {"bootstrap_servers", "sasl_mechanism", "schema_registry_url",
                "moonshot_url"}

Attributes ==
  Validated \cup {"sasl_username", "sasl_password", "tls_enabled", "tls_ca_cert",
                  "tls_client_cert", "tls_client_key", "moonshot_token"}

Known == Values \ {"default"}

InputValue ==
  [written : [Attributes -> Known \cup {Null, Unknown}],
   env : [Attributes \ HclOnly -> Known]]

ASSUME ProviderAssumption ==
  /\ {"", "malformed", "default"} \subseteq Values
  /\ Null \notin Values /\ Unknown \notin Values /\ Null # Unknown
  /\ Inputs \subseteq InputValue

VARIABLES
  stage,    \* what Terraform is doing
  input,    \* configuration and environment, or NoInput
  client,   \* the settings of the provider's client, or NoClient
  planned,  \* the settings the plan was made with, or NoClient
  op,       \* the data source being read
  step,     \* where its handler stands
  open,     \* the handler's open connections
  silent    \* does the broker it talks to leave it without an answer?

runVars  == <<stage, input, client, planned>>
readVars == <<op, step, open, silent>>
vars     == <<runVars, readVars>>

NoInput  == [written |-> [a \in Attributes |-> Null]]
NoClient == [bootstrap_servers |-> Null]

Settings == [Attributes -> Values]

TypeOK ==
  /\ stage \in {"none", "plan", "apply"}
  /\ input \in {NoInput} \cup InputValue
  /\ client \in {NoClient} \cup Settings
  /\ planned \in {NoClient} \cup Settings
  /\ op \in {"none", "cluster", "topics"}
  /\ step \in {"idle", "dial", "authenticate", "ask", "hop", "brokers",
               "controller", "list"}
  /\ open \in SUBSET {"bootstrap", "controller"}
  /\ silent \in BOOLEAN

Init ==
  /\ stage = "none" /\ input = NoInput
  /\ client = NoClient /\ planned = NoClient
  /\ op = "none" /\ step = "idle" /\ open = {} /\ silent = FALSE

----------------------------------------------------------------------------
(* Settings.                                                               *)

(* Only STREAMLINE_TLS_ENABLED=true enables TLS.                           *)
FromEnvironment(env, a) ==
  IF a \in HclOnly THEN "default"
  ELSE IF a = "tls_enabled" /\ env[a] = "malformed" THEN "" ELSE env[a]

(* Mutant of Resolved: an unknown value falls back on the environment.     *)
ResolvedWhenKnown(i, a) ==
  IF i.written[a] \in {Null, Unknown} THEN FromEnvironment(i.env, a)
  ELSE i.written[a]

(* resolveProviderConfig: what is written wins, even if it is not known    *)
(* yet: an unknown value reads as the zero of its type.                    *)
Resolved(i, a) ==
  IF i.written[a] = Null THEN FromEnvironment(i.env, a)
  ELSE IF i.written[a] = Unknown THEN ""
  ELSE i.written[a]

Resolve(i) == [a \in Attributes |-> Resolved(i, a)]

(* The validators of the schema let unknown and missing values pass.       *)
SchemaValid(i) == \A a \in Validated : i.written[a] # ""

(* validateResolvedProviderConfig.                                         *)
Valid(s) ==
  /\ s["connection_timeout"] # "" /\ s["request_timeout"] # ""
  /\ s["sasl_mechanism"] # "malformed"
  /\ s["sasl_username"] = "" <=> s["sasl_mechanism"] = ""
  /\ s["sasl_password"] = "" <=> s["sasl_mechanism"] = ""
  /\ s["tls_client_cert"] = "" <=> s["tls_client_key"] = ""
  /\ s["schema_registry_url"] # "malformed" /\ s["moonshot_url"] # "malformed"
  /\ s["moonshot_token"] # "" => s["moonshot_url"] # ""

(* validateBootstrapServers.                                               *)
ServersValid(s) == s["bootstrap_servers"] \notin {"", "malformed"}

(* createTLSConfig reads its files, ...                                    *)
TLSFilesUsable(s) ==
  \A a \in {"tls_ca_cert", "tls_client_cert", "tls_client_key"} :
     s[a] # "malformed"

(* ... and NewStreamlineClient asks for it only if TLS is enabled.         *)
ClientUsable(s) == s["tls_enabled"] # "" => TLSFilesUsable(s)

Accepted(i) ==
  /\ SchemaValid(i)
  /\ LET s == Resolve(i) IN Valid(s) /\ ServersValid(s) /\ ClientUsable(s)

----------------------------------------------------------------------------
(* A Terraform run (external), and Configure in it.                        *)

(* The provider process ends, and its connections with it.                 *)
ReadsForgotten ==
  /\ op' = "none" /\ step' = "idle" /\ open' = {} /\ silent' = FALSE

StartPlan(i) ==
  /\ stage = "none"
  /\ stage' = "plan" /\ input' = i
  /\ UNCHANGED <<client, planned, readVars>>

Configured ==
  /\ stage # "none" /\ client = NoClient
  /\ Accepted(input)
  /\ client' = Resolve(input)
  /\ planned' = IF stage = "plan" THEN client' ELSE planned
  /\ UNCHANGED <<stage, input, readVars>>

EndRun ==
  /\ stage' = "none" /\ input' = NoInput
  /\ client' = NoClient /\ planned' = NoClient

(* Without a client there is nothing to plan or to apply.                  *)
ConfigureRefused ==
  /\ stage # "none" /\ client = NoClient
  /\ ~Accepted(input)
  /\ EndRun
  /\ UNCHANGED readVars

Unknowns == {a \in Attributes : input.written[a] = Unknown}

(* The plan is approved; what was unknown has a value now, or none.        *)
StartApply(w) ==
  /\ stage = "plan" /\ client # NoClient /\ op = "none"
  /\ stage' = "apply"
  /\ input' = [input EXCEPT !.written =
                 [a \in Attributes |-> IF a \in Unknowns THEN w[a]
                                       ELSE input.written[a]]]
  /\ client' = NoClient
  /\ UNCHANGED <<planned, readVars>>

(* The run is over, or its provider is killed.                             *)
RunEnds ==
  /\ stage # "none"
  /\ EndRun
  /\ ReadsForgotten

----------------------------------------------------------------------------
(* The data sources.                                                       *)

ReadStarts(o, s) ==
  /\ client # NoClient /\ op = "none"
  /\ op' = o /\ step' = s
  /\ UNCHANGED <<runVars, open, silent>>

ClusterReadStarts == ReadStarts("cluster", "dial")
TopicsReadStarts  == ReadStarts("topics", "list")

(* A read ends, with a report or an error.                                 *)
Finish == op' = "none" /\ step' = "idle" /\ silent' = FALSE /\ UNCHANGED runVars

GoTo(s) == step' = s /\ UNCHANGED <<op, silent, runVars>>

(* With credentials the dialer goes on to the SASL exchange.               *)
Connected(s) ==
  GoTo(IF client["sasl_mechanism"] = "" THEN s ELSE "authenticate")

(* getControllerConn dials the first bootstrap server, ...                 *)
Dialled ==
  /\ step = "dial" /\ ~silent
  /\ open' = open \cup {"bootstrap"}
  /\ Connected("ask")

(* ... asks it for the controller, and closes that connection: a host is   *)
(* compared with "host:port", so that it is never found to be the          *)
(* controller itself.                                                      *)
ControllerNamed ==
  /\ step = "ask" /\ ~silent
  /\ open' = open \ {"bootstrap"}
  /\ GoTo("hop")

(* Mutant of AskClosed: the error path forgets its connection.             *)
AskLeftOpen == open' = open
AskClosed   == open' = open \ {"bootstrap"}

AskFails ==
  /\ step = "ask" /\ ~silent
  /\ AskClosed
  /\ Finish

(* The controller is dialled.  If the answer named none, its address is    *)
(* empty and this fails.                                                   *)
Hopped ==
  /\ step = "hop" /\ ~silent
  /\ open' = open \cup {"controller"}
  /\ Connected("brokers")

Authenticated ==
  /\ step = "authenticate" /\ ~silent
  /\ GoTo(IF open = {"bootstrap"} THEN "ask" ELSE "brokers")
  /\ UNCHANGED open

(* GetClusterMetadata: two requests, after which, or after an error of     *)
(* either, the deferred call closes the connection.                        *)
BrokersAnswered ==
  /\ step = "brokers" /\ ~silent
  /\ GoTo("controller")
  /\ UNCHANGED open

MetadataEnds ==
  /\ step \in {"brokers", "controller"} /\ ~silent
  /\ open' = open \ {"controller"}
  /\ Finish

(* Mutant of Deadline: connection_timeout does not reach the dialer.       *)
RequestDeadline == step = "list"

(* To connect is bounded by connection_timeout, TLS included, and a        *)
(* request of the shared client by request_timeout.  Nothing bounds what   *)
(* is exchanged on a connection of the handler, neither SASL, for which    *)
(* the dialer sets no deadline on it, nor the requests that follow.        *)
Deadline == step \in {"dial", "hop", "list"}

(* The dialer closes the connection it cannot authenticate.                *)
DialFails ==
  /\ step \in {"dial", "hop", "authenticate"}
  /\ Deadline \/ ~silent
  /\ open' = {}
  /\ Finish

(* ListTopics ends, with a list or an error, without a connection of the   *)
(* handler and without a retry.                                            *)
ListEnds ==
  /\ step = "list"
  /\ Deadline \/ ~silent
  /\ UNCHANGED open
  /\ Finish

----------------------------------------------------------------------------
(* The broker at the other end, or the network before it, gives no answer  *)
(* to what the handler waits for.  One that answers late is not silent.    *)
FallsSilent ==
  /\ op # "none" /\ ~silent
  /\ silent' = TRUE
  /\ UNCHANGED <<runVars, op, step, open>>

----------------------------------------------------------------------------

ReadStep ==
  \/ Dialled \/ ControllerNamed \/ AskFails \/ Hopped \/ Authenticated
  \/ BrokersAnswered \/ MetadataEnds
  \/ DialFails \/ ListEnds

RunStep ==
  \/ \E i \in Inputs : StartPlan(i)
  \/ Configured \/ ConfigureRefused
  \/ \E w \in [Unknowns -> Known \cup {Null}] : StartApply(w)
  \/ RunEnds
  \/ ClusterReadStarts \/ TopicsReadStarts

Next == ReadStep \/ RunStep \/ FallsSilent

(* Handlers run, timers fire, and a broker that is not silent answers.     *)
Spec     == Init /\ [][Next]_vars
FairSpec == Spec /\ WF_vars(ReadStep)

----------------------------------------------------------------------------
(* Properties.                                                             *)

(* Whatever the plan was made with, servers and credentials, the apply     *)
(* uses as well: for a setting that was not known the plan does without,   *)
(* rather than ask another cluster that the environment names.             *)
PlanNeverGuesses ==
  (stage = "apply" /\ client # NoClient) =>
    \A a \in Attributes : planned[a] \in {"", client[a]}

(* Whenever a broker falls silent, a list of topics ends and no read       *)
(* stays in a dial: the timeouts reach what they are configured for, and   *)
(* neither of the two dials of a cluster read is left out.                 *)
TimeoutsReach ==
  /\ op = "topics" ~> op = "none"
  /\ step = "dial" ~> step # "dial"
  /\ step = "hop" ~> step # "hop"

(* Every read ends: its requests are bounded by request_timeout.           *)
ReadsEnd == op # "none" ~> op = "none"

(* The run: a plan was made before there is an apply, from the same        *)
(* configuration and environment.                                          *)
RunOK ==
  /\ stage = "none" => /\ input = NoInput /\ client = NoClient
                       /\ planned = NoClient /\ op = "none"
  /\ stage # "none" => input \in InputValue
  /\ client # NoClient => client = Resolve(input)
  /\ stage = "plan" => planned = client
  /\ stage = "apply" =>
       /\ planned # NoClient
       /\ \A a \in Attributes : planned[a] \in {"", Resolved(input, a)}

(* The read: no connection outlives its handler, none is open twice.       *)
ReadOK ==
  /\ op = "none" <=> step = "idle"
  /\ op # "none" => client # NoClient
  /\ op = "topics" <=> step = "list"
  /\ open = {} <=> step \in {"idle", "dial", "hop", "list"}
  /\ step = "ask" => open = {"bootstrap"}
  /\ step \in {"brokers", "controller"} => open = {"controller"}
  /\ step = "authenticate" =>
       /\ client["sasl_mechanism"] # ""
       /\ open \in {{"bootstrap"}, {"controller"}}

IInv == TypeOK /\ RunOK /\ ReadOK
==============================================================================
