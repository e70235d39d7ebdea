------------------------------ MODULE FlowDefs ------------------------------
(***************************************************************************)
(* The data every executor works on: a flow of N steps, the conditions its *)
(* steps carry, and the StepResult an executor pushes for a step.          *)
(*                                                                         *)
(* A step is its position in FlowDef.steps; step ids are distinct, as      *)
(* StepDef::new draws them.  depends_on is a set: an id listed twice adds  *)
(* one to the in-degree and one dependents edge, and the two cancel.       *)
(***************************************************************************)
EXTENDS Integers, Sequences, FiniteSets

CONSTANT N          \* number of steps of the flow

ASSUME NAssumption == N \in Nat

Step == 1 .. N

Trigger == {"All", "Any"}

Status == {"Completed", "Failed", "Skipped"}

(***************************************************************************)
(* A condition is abstracted to what an executor can tell apart: there is  *)
(* none, it does not compile, or it is `steps.<on>.status == "<is>"`.      *)
(***************************************************************************)
Condition == [kind : {"none", "malformed", "status"}, on : Step, is : Status]

FlowDef == [deps    : [Step -> SUBSET Step],
            trigger : [Step -> Trigger],
            cond    : [Step -> Condition]]

\* The depends_on edges have no cycle: some numbering puts every dependency
\* before its dependents.
Acyclic(deps) ==
    \E rank \in [Step -> Step] : \A s \in Step : \A d \in deps[s] : rank[d] < rank[s]

\* What validate lets through in Dag mode.
validate(f) ==
    /\ Acyclic(f.deps)
    /\ \A s \in Step : f.trigger[s] = "Any" => f.deps[s] # {}

Reason == {"none", "step_error", "task_panicked", "no_fleet_node_available",
           "cancelled", "flow_timeout_exceeded", "dependency_failed",
           "condition_not_met", "prior_step_failed", "parent_step_failed",
           "not_scheduled"}

StepResult == [step : Step, status : Status, reason : Reason]

Executed(s, st) ==
    [step |-> s, status |-> st,
     reason |-> IF st = "Completed" THEN "none" ELSE "step_error"]

Skip(s, why) == [step |-> s, status |-> "Skipped", reason |-> why]

Fail(s, why) == [step |-> s, status |-> "Failed", reason |-> why]

\* The steps that `results` holds a result for.
Reported(results) == {results[i].step : i \in DOMAIN results}

HasResult(results, s, st) ==
    \E i \in DOMAIN results : results[i].step = s /\ results[i].status = st

(***************************************************************************)
(* check_condition gave Ok(false).  The context holds only the results     *)
(* pushed so far; a path to a step without a result resolves to null,      *)
(* which equals no string.  A condition that does not compile is an Err,   *)
(* and the executors run the step.                                         *)
(***************************************************************************)
check_condition_false(f, s, results) ==
    /\ f.cond[s].kind = "status"
    /\ ~HasResult(results, f.cond[s].on, f.cond[s].is)
=============================================================================
