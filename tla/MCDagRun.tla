------------------------------ MODULE MCDagRun ------------------------------
(***************************************************************************)
(* run_dag on every valid flow of N steps: without conditions and with any *)
(* triggers, or with the trigger All and a condition on one step.          *)
(***************************************************************************)
EXTENDS DagRun

NoCondition == [kind |-> "none", on |-> 1, is |-> "Completed"]

\* Conditions on an earlier or later step, and one that does not compile.
Conditions ==
    {[kind |-> "malformed", on |-> 1, is |-> "Completed"]}
        \cup [kind : {"status"}, on : Step, is : {"Completed", "Failed"}]

Plain == [s \in Step |-> NoCondition]

PlainFlows ==
    {f \in [deps : [Step -> SUBSET Step], trigger : [Step -> Trigger],
            cond : {Plain}] : validate(f)}

\* One step of the flow carries a condition.
CondFlows ==
    {[f EXCEPT !.cond[s] = c] : f \in {g \in PlainFlows : \A t \in Step : g.trigger[t] = "All"},
                                s \in Step, c \in Conditions}

MCFlows == PlainFlows \cup CondFlows
=============================================================================
