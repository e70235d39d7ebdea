----------------------------- MODULE MCParallel -----------------------------
(***************************************************************************)
(* run_parallel on flows of N steps without dependencies, where every step *)
(* may carry a condition.                                                  *)
(***************************************************************************)
EXTENDS ParallelRun

MCConditions ==
    {[kind |-> "none", on |-> 1, is |-> "Completed"],
     [kind |-> "malformed", on |-> 1, is |-> "Completed"]}
        \cup [kind : {"status"}, on : {1, 2}, is : {"Completed", "Skipped"}]

MCFlows ==
    {[deps |-> [s \in Step |-> {}], trigger |-> [s \in Step |-> "All"], cond |-> c] :
        c \in [Step -> MCConditions]}
=============================================================================
