------------------------------ MODULE MCStartup ------------------------------
\* Startup on a small instance.
EXTENDS Startup

\* Each address mode with and without required encryption, an anonymous ingress,
\* and a configuration that no start accepts.
MCConfigs ==
    {c \in Config : c.anonymous => c.ip = "plain" /\ c.required = c.enabled}
    \ {[ip |-> "hmac", anonymous |-> FALSE, enabled |-> FALSE, required |-> TRUE]}
=============================================================================
