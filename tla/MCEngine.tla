------------------------------ MODULE MCEngine ------------------------------
(***************************************************************************)
(* The run sequence: one call with every engine and flow of N steps but no *)
(* store or the in-memory one, and calls that use the SQL store: one with  *)
(* a client that removes the record, or two at a time.                     *)
(***************************************************************************)
EXTENDS EngineRun

CONSTANTS c1, c2

\* Without sub_steps every mode but Hierarchical walks the flow's own steps;
\* Sequential stands for them, Dag is told apart for its entry point.
OneCall ==
    {x \in Setup : /\ x.calls = {c1} /\ x.store = "memory" /\ ~x.remover
                   /\ x.mode \in {"Sequential", "Dag", "Hierarchical"}
                   /\ x.used_fleet = (x.mode = "Dag")
                   /\ 1 \in x.top
                   /\ x.mode # "Hierarchical" => x.top = Step
                   /\ \/ x.valid /\ x.rollback_handler /\ x.rollback_on_failure
                      \/ x.rollbackable = Step}

\* What the SQL store adds does not depend on the rollback.
Stored ==
    {x \in Setup : /\ x.calls \in {{c1}, {c1, c2}} /\ x.store \in {"none", "sql"} /\ x.valid
                   /\ x.remover => x.calls = {c1} /\ x.store = "sql"
                   /\ x.store = "none" => x.calls = {c1}
                   /\ x.calls = {c1, c2} => ~x.queue
                   /\ ~x.used_fleet
                   /\ x.mode = "Dag" /\ x.top = {1} /\ x.rollbackable = {1}
                   /\ x.rollback_on_failure /\ x.rollback_handler}

\* Two calls that execute each other's steps.
SharedQueueSetups ==
    {x \in Setup : /\ x.calls = {c1, c2} /\ x.store = "memory" /\ x.valid /\ ~x.remover /\ x.queue
                   /\ ~x.used_fleet
                   /\ x.mode = "Sequential" /\ x.top = {1, 2} /\ x.rollbackable = {1}
                   /\ x.rollback_on_failure /\ x.rollback_handler}

MCSetups == OneCall \cup Stored \cup SharedQueueSetups

\* One call on an engine with a queue and the in-memory store.
MCQueued ==
    {x \in OneCall : x.valid /\ x.queue /\ x.rollback_on_failure /\ x.rollback_handler}
=============================================================================
