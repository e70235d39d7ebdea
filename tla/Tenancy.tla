------------------------------- MODULE Tenancy -------------------------------
(***************************************************************************)
(* The multi-tenant layer of the MCP server: TENANT_REGISTRY,              *)
(* TENANT_LIMITER and the two checks a host makes before it dispatches a   *)
(* tool.  check_tenant_quota looks the tenant up, lets the registry go and *)
(* asks the limiter, so that registrations may come in between.            *)
(*                                                                         *)
(* The limiter (majra::ratelimit::RateLimiter) keeps one token bucket for  *)
(* every key; a step of time gives a token back.                           *)
(***************************************************************************)
EXTENDS Integers

CONSTANTS Tenant,      \* tenant ids
          Caller,      \* threads of the host
          ToolName,    \* names of tools
          Burst,       \* size of a bucket; 500 in the code
          MaxRefills   \* bound: tokens given back to each tenant

ASSUME TenancyAssumption == Burst \in Nat \ {0} /\ MaxRefills \in Nat

VARIABLES
    registry,   \* tenant -> its allowed_tools, or NotRegistered
    bucket,     \* tenant -> tokens of TENANT_LIMITER
    asking,     \* caller -> the tenant whose quota it checks, or Nobody
    verdict,    \* caller -> its last answer
    spent,      \* tenant -> calls the limiter let through (history)
    refilled    \* tenant -> tokens it got back (history)

tvars == <<registry, bucket, asking, verdict, spent, refilled>>

NotRegistered == [registered |-> FALSE, allowed |-> {}]

\* allowed_tools is None (every tool) or a set of names.
Ctx == [registered : {TRUE}, allowed : SUBSET ToolName] \cup [registered : {TRUE}, allowed : {{"*"}}]

Nobody == [tenant |-> "nobody"]

TInit ==
    /\ registry = [t \in Tenant |-> NotRegistered]
    /\ bucket = [t \in Tenant |-> Burst]
    /\ asking = [c \in Caller |-> Nobody]
    /\ verdict = [c \in Caller |-> "none"]
    /\ spent = [t \in Tenant |-> 0]
    /\ refilled = [t \in Tenant |-> 0]

\* Overwrites an existing entry; the limiter is not told.
register_tenant(t, ctx) ==
    /\ registry' = [registry EXCEPT ![t] = ctx]
    /\ UNCHANGED <<bucket, asking, verdict, spent, refilled>>

deregister_tenant(t) ==
    /\ registry' = [registry EXCEPT ![t] = NotRegistered]
    /\ UNCHANGED <<bucket, asking, verdict, spent, refilled>>

\* Whoever is not registered may use every tool.
Allowed(t, tool) ==
    registry[t].registered => "*" \in registry[t].allowed \/ tool \in registry[t].allowed

check_tenant_tool_access(c, t, tool) ==
    /\ asking[c] = Nobody
    /\ verdict' = [verdict EXCEPT ![c] = IF Allowed(t, tool) THEN "Ok" ELSE "not_permitted"]
    /\ UNCHANGED <<registry, bucket, asking, spent, refilled>>

\* The first half of check_tenant_quota: TENANT_REGISTRY.get.
LookUp(c, t) ==
    /\ asking[c] = Nobody
    /\ IF registry[t].registered
       THEN asking' = [asking EXCEPT ![c] = [tenant |-> t]] /\ UNCHANGED verdict
       ELSE verdict' = [verdict EXCEPT ![c] = "Ok"] /\ UNCHANGED asking
    /\ UNCHANGED <<registry, bucket, spent, refilled>>

\* Mutant: one bucket for all tenants.
limiter_key_shared(t) == CHOOSE u \in Tenant : TRUE

\* The key under which the limiter counts a tenant.
limiter_key(t) == t

\* The second half of check_tenant_quota: TENANT_LIMITER.check.
CheckLimiter(c) ==
    /\ asking[c] # Nobody
    /\ LET t == asking[c].tenant
           k == limiter_key(t)
       IN  IF bucket[k] > 0
           THEN /\ bucket' = [bucket EXCEPT ![k] = @ - 1]
                /\ spent' = [spent EXCEPT ![t] = @ + 1]
                /\ verdict' = [verdict EXCEPT ![c] = "Ok"]
           ELSE /\ verdict' = [verdict EXCEPT ![c] = "rate_limited"]
                /\ UNCHANGED <<bucket, spent>>
    /\ asking' = [asking EXCEPT ![c] = Nobody]
    /\ UNCHANGED <<registry, refilled>>

\* Time passes for a bucket that is not full.
Refill(t) ==
    /\ bucket[t] < Burst /\ refilled[t] < MaxRefills
    /\ bucket' = [bucket EXCEPT ![t] = @ + 1]
    /\ refilled' = [refilled EXCEPT ![t] = @ + 1]
    /\ UNCHANGED <<registry, asking, verdict, spent>>

TNext ==
    \/ \E t \in Tenant :
          \/ \E ctx \in Ctx : register_tenant(t, ctx)
          \/ deregister_tenant(t)
          \/ Refill(t)
    \/ \E c \in Caller :
          \/ \E t \in Tenant : LookUp(c, t) \/ \E tool \in ToolName : check_tenant_tool_access(c, t, tool)
          \/ CheckLimiter(c)

TSpec == TInit /\ [][TNext]_tvars

-----------------------------------------------------------------------------
(* Properties. *)

TTypeOK ==
    /\ registry \in [Tenant -> Ctx \cup {NotRegistered}]
    /\ bucket \in [Tenant -> 0 .. Burst]
    /\ asking \in [Caller -> {Nobody} \cup [tenant : Tenant]]
    /\ verdict \in [Caller -> {"none", "Ok", "not_permitted", "rate_limited"}]
    /\ spent \in [Tenant -> Nat] /\ refilled \in [Tenant -> Nat]

\* A bucket holds what its tenant did not use of the burst and the time.
Balanced == \A t \in Tenant : bucket[t] + spent[t] = Burst + refilled[t]

TInv == TTypeOK /\ Balanced

\* The limiter answers a tenant for what that tenant used: it admits a call
\* exactly when fewer were admitted than the burst and the time allow, however
\* often the tenant was registered anew and whatever the other tenants do.
TenantsApart ==
    [][\A c \in Caller :
          asking[c] # Nobody /\ asking'[c] = Nobody =>
              LET t == asking[c].tenant
              IN  verdict'[c] = "Ok" <=> spent[t] < Burst + refilled[t]]_tvars
=============================================================================
