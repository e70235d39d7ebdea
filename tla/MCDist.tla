------------------------------- MODULE MCDist -------------------------------
(***************************************************************************)
(* run_distributed_dag on valid flows of N steps without conditions or     *)
(* with one, on a fleet of two nodes or of none.                           *)
(***************************************************************************)
EXTENDS DistributedRun

CONSTANTS n1, n2

NoCondition == [kind |-> "none", on |-> 1, is |-> "Completed"]

PlainFlows ==
    {f \in [deps : [Step -> SUBSET Step], trigger : [Step -> Trigger],
            cond : {[s \in Step |-> NoCondition]}] :
        /\ validate(f)
        /\ \A s \in Step : \A d \in f.deps[s] : d < s}

\* The last step runs only if the first one completed.
CondFlows ==
    {[f EXCEPT !.cond[N] = [kind |-> "status", on |-> 1, is |-> "Completed"]] : f \in PlainFlows}

MCFlows == PlainFlows \cup CondFlows

MCFleets == {{}, {n1, n2}}
=============================================================================
