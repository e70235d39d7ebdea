------------------------------ MODULE McpServer ------------------------------
(***************************************************************************)
(* The MCP side of the library in one specification.  The server is a set  *)
(* of tools and two process-wide registries; a behaviour is one session    *)
(* with one of these parts: the tenants, the tools that reach outside, or  *)
(* the tools that build a flow or walk the states of a workflow.           *)
(***************************************************************************)
EXTENDS Tenancy, McpTools, Authoring

VARIABLE session

vars == <<session, tvars, fvars, avars>>

Init ==
    /\ session \in {"tenants", "tools", "authoring", "states"}
    /\ TInit
    /\ FInit /\ (session # "tools" => ~exists)
    /\ AInit

Next ==
    \/ session = "tenants" /\ TNext /\ UNCHANGED <<session, fvars, avars>>
    \/ session = "tools" /\ FNext /\ UNCHANGED <<session, tvars, avars>>
    \/ session = "authoring" /\ BuildFlow /\ UNCHANGED <<session, tvars, fvars>>
    \/ session = "states" /\ WalkStates /\ UNCHANGED <<session, tvars, fvars>>

Spec == Init /\ [][Next]_vars

Tools(A) == session = "tools" /\ A /\ UNCHANGED <<session, tvars, avars>>

\* Every call of a tool gets on, and so does its client; the background thread
\* writes what it was given; time refills the pool.
FairSpec ==
    /\ Spec
    /\ \A c \in Client : WF_vars(Tools(Proceed(c)))
    /\ WF_vars(Tools(\E p \in pending : Land(p)))
    /\ WF_vars(Tools(RefillPool))

\* A client that does what _meta.retryable says comes to the end of its calls:
\* every refusal is final, and the pool and transient failures hold it up for a
\* while only.  The exception is a lasting failure, which the tools do not tell
\* from a transient one: the client that waits for a file nobody creates, runs
\* an unknown or too slow command or asks for a host that does not resolve is
\* told to retry for ever.
RetriesEnd ==
    \A c \in Client :
        <>[](session = "tools" => fpc[c] = "done" \/ AwaitsFile(c) \/ Circles(c))
=============================================================================
