----------------------------- MODULE MCProvider -----------------------------
(* Instance of Provider for TLC: each group of settings that is validated  *)
(* together is left out, unknown or written in every combination, with and *)
(* without an environment that says something else.                        *)
EXTENDS Provider

NothingWritten == [a \in Attributes |-> Null]
NothingSet     == [a \in Attributes \ HclOnly |-> ""]

(* The settings G as in w, and the environment as in e for them.           *)
Group(G, W, E) ==
  {[written |-> [a \in Attributes |->
                   IF a \in G THEN w[a]
                   ELSE IF a = "bootstrap_servers" THEN "hcl" ELSE Null],
    env |-> [a \in Attributes \ HclOnly |-> IF a \in G THEN e ELSE ""]] :
     w \in [G -> W], e \in E}

SampleInputs ==
  Group({"bootstrap_servers"}, {Null, Unknown, "hcl", ""}, {"", "env", "malformed"})
    \cup Group({"sasl_mechanism", "sasl_username", "sasl_password"},
               {Null, Unknown, "hcl"}, {"", "env"})
    \cup Group({"tls_enabled", "tls_ca_cert"}, {Null, Unknown, "hcl"},
               {"", "env", "malformed"})
    \cup Group({"tls_client_cert", "tls_client_key"}, {Null, Unknown, "hcl"},
               {"", "env"})
    \cup Group({"moonshot_url", "moonshot_token"}, {Null, Unknown, "hcl"},
               {"", "env"})
    \cup Group({"schema_registry_url", "request_timeout"},
               {Null, Unknown, "hcl"}, {"", "env"})
=============================================================================
