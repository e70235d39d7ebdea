---------------------------- MODULE FlowContract ----------------------------
(***************************************************************************)
(* What every executor promises the engine about one run of a flow, with   *)
(* no queue, task or in-degree in sight: a step's handler is invoked at    *)
(* most once per run, a step gets at most one result and keeps it, and     *)
(* nothing is reported after the run returned.                             *)
(*                                                                         *)
(* MayAbandon tells the two families of executors apart.  FALSE: a step    *)
(* whose handler was invoked is reported with the handler's outcome, and   *)
(* the run returns only when no handler is left running.  TRUE: on         *)
(* cancellation or timeout a step may be reported Skipped although its     *)
(* handler was, or will be, invoked.                                       *)
(***************************************************************************)
EXTENDS FlowDefs

CONSTANT MayAbandon

VARIABLES begun,     \* steps whose handler was invoked
          outcome,   \* the status reported for a step, or "none"
          returned   \* the executor handed its results to the engine

vars == <<begun, outcome, returned>>

Init ==
    /\ begun = {}
    /\ outcome = [s \in Step |-> "none"]
    /\ returned = FALSE

Begin(s) ==
    /\ s \notin begun
    /\ outcome[s] = "none" \/ MayAbandon
    /\ returned => MayAbandon
    /\ begun' = begun \cup {s}
    /\ UNCHANGED <<outcome, returned>>

\* Any number of steps get their result, as when a subtree is skipped.
Report ==
    /\ ~returned
    /\ outcome' \in [Step -> Status \cup {"none"}]
    /\ \A s \in Step : outcome'[s] # outcome[s] =>
          /\ outcome[s] = "none"
          /\ outcome'[s] = "Completed" => s \in begun
          /\ outcome'[s] = "Skipped" /\ s \in begun => MayAbandon
    /\ UNCHANGED <<begun, returned>>

Return ==
    /\ ~returned
    /\ ~MayAbandon => \A s \in begun : outcome[s] # "none"
    /\ returned' = TRUE
    /\ UNCHANGED <<begun, outcome>>

Next ==
    \/ \E s \in Step : Begin(s)
    \/ Report
    \/ Return

Spec == Init /\ [][Next]_vars
=============================================================================
