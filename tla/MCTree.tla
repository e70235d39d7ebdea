------------------------------- MODULE MCTree -------------------------------
(***************************************************************************)
(* Every tree of N steps, in both modes, with a condition on at most one   *)
(* step.                                                                   *)
(***************************************************************************)
EXTENDS TreeRun

NoCondition == [kind |-> "none", on |-> 1, is |-> "Completed"]

MCConditions ==
    {NoCondition, [kind |-> "malformed", on |-> 1, is |-> "Completed"]}
        \cup [kind : {"status"}, on : Step, is : {"Completed", "Failed"}]

MCTrees ==
    {[mode |-> m, depth |-> d, cond |-> [u \in Step |-> IF u = s THEN c ELSE NoCondition]] :
        m \in {"Sequential", "Hierarchical"},
        d \in {e \in [Step -> 1 .. N] : Shape(e)},
        s \in Step, c \in MCConditions}
=============================================================================
