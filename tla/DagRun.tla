------------------------------- MODULE DagRun -------------------------------
(***************************************************************************)
(* run_dag: the coordinator runs the flow in waves.  A wave is the batch   *)
(* of steps that are ready when it starts; each is skipped or given to a   *)
(* task of its own, the tasks share a semaphore of permits, and the        *)
(* coordinator awaits them in spawn order before the next wave.            *)
(*                                                                         *)
(* The code pops the front of its ready queue; here a cursor walks it.     *)
(*                                                                         *)
(* The cancel token and the flow deadline are raised by the environment at *)
(* any time and never lowered.                                             *)
(***************************************************************************)
EXTENDS DagBook, ParPool

CONSTANT Flows              \* the flows a run may be started with

ASSUME FlowsAssumption == Flows \subseteq {f \in FlowDef : validate(f)}

VARIABLES
    flow,        \* the flow of this run
    pc,          \* coordinator: "top", "batch", "join" or "done"
    ready,       \* ordinals in the order they became ready
    ready_head,  \* how many of them were taken
    batch_end,   \* the wave takes ready[1 .. batch_end]
    in_degree,
    failed,      \* the failed set
    handles,     \* the wave's spawned steps, in spawn order
    hj,          \* how many of them were joined
    results,     \* the results vec
    cancelled,   \* the token is signalled
    timed_out    \* the flow deadline has passed

coord == <<ready, ready_head, batch_end, in_degree, failed, handles, hj, results>>
env   == <<cancelled, timed_out>>
vars  == <<flow, pc, coord, pool, env>>

Init ==
    /\ flow \in Flows
    /\ pc = "top"
    /\ ready = InitReady(flow)
    /\ ready_head = 0
    /\ batch_end = 0
    /\ in_degree = InitDegree(flow)
    /\ failed = [s \in Step |-> FALSE]
    /\ handles = <<>>
    /\ hj = 0
    /\ PoolInit
    /\ results = <<>>
    /\ cancelled = FALSE
    /\ timed_out = FALSE

-----------------------------------------------------------------------------
(* The coordinator. *)

StartWave ==
    /\ pc = "top"
    /\ ready_head < Len(ready)
    /\ ~cancelled /\ ~timed_out
    /\ pc' = "batch"
    /\ batch_end' = Len(ready)
    /\ handles' = <<>>
    /\ UNCHANGED <<flow, ready, ready_head, in_degree, failed, hj, results,
                   pool, env>>

\* Cancelled or out of time: skip what is ready, unlock nothing.
StopSkip ==
    /\ pc = "top"
    /\ ready_head < Len(ready)
    /\ cancelled \/ timed_out
    /\ results' = results \o
         [i \in 1 .. Len(ready) - ready_head |->
            Skip(ready[ready_head + i],
                 IF cancelled THEN "cancelled" ELSE "flow_timeout_exceeded")]
    /\ ready_head' = Len(ready)
    /\ UNCHANGED <<flow, pc, ready, batch_end, in_degree, failed, handles, hj,
                   pool, env>>

Return ==
    /\ pc = "top"
    /\ ready_head = Len(ready)
    /\ pc' = "done"
    /\ UNCHANGED <<flow, coord, pool, env>>

\* The next step of the batch is s.
Take(s) ==
    /\ pc = "batch"
    /\ ready_head < batch_end
    /\ s = ready[ready_head + 1]
    /\ ready_head' = ready_head + 1

unlock_dependents(s) ==
    /\ in_degree' = UnlockDegree(flow, in_degree, s)
    /\ ready' = UnlockReady(flow, in_degree, ready, s)

\* Mutant: the skipped step is not put in the failed set.
SkipDepFailedUnmarked(s) ==
    /\ Take(s)
    /\ DepFailed(flow, failed, s)
    /\ results' = Append(results, Skip(s, "dependency_failed"))
    /\ unlock_dependents(s)
    /\ UNCHANGED <<flow, pc, batch_end, failed, handles, hj, pool, env>>

SkipDepFailed(s) ==
    /\ Take(s)
    /\ DepFailed(flow, failed, s)
    /\ results' = Append(results, Skip(s, "dependency_failed"))
    /\ failed' = [failed EXCEPT ![s] = TRUE]
    /\ unlock_dependents(s)
    /\ UNCHANGED <<flow, pc, batch_end, handles, hj, pool, env>>

SkipCondition(s) ==
    /\ Take(s)
    /\ ~DepFailed(flow, failed, s)
    /\ check_condition_false(flow, s, results)
    /\ results' = Append(results, Skip(s, "condition_not_met"))
    /\ unlock_dependents(s)
    /\ UNCHANGED <<flow, pc, batch_end, failed, handles, hj, pool, env>>

Spawn(s) ==
    /\ Take(s)
    /\ ~DepFailed(flow, failed, s)
    /\ ~check_condition_false(flow, s, results)
    /\ PoolSpawn(s)
    /\ handles' = Append(handles, s)
    /\ UNCHANGED <<flow, pc, ready, batch_end, in_degree, failed, hj, results, env>>

StartJoin ==
    /\ pc = "batch"
    /\ ready_head = batch_end
    /\ pc' = "join"
    /\ hj' = 0
    /\ UNCHANGED <<flow, ready, ready_head, batch_end, in_degree, failed,
                   handles, results, pool, env>>

Join(s) ==
    /\ pc = "join"
    /\ hj < Len(handles)
    /\ s = handles[hj + 1]
    /\ Joined(s)
    /\ failed' = [failed EXCEPT ![s] = @ \/ slot[s] # "Completed"]
    /\ unlock_dependents(s)
    /\ results' = Append(results, JoinResult(s))
    /\ hj' = hj + 1
    /\ UNCHANGED <<flow, pc, ready_head, batch_end, handles, pool, env>>

EndWave ==
    /\ pc = "join"
    /\ hj = Len(handles)
    /\ pc' = "top"
    /\ handles' = <<>>     \* the wave's locals go out of scope
    /\ hj' = 0
    /\ UNCHANGED <<flow, ready, ready_head, batch_end, in_degree, failed, results,
                   pool, env>>

Coordinator ==
    \/ StartWave \/ StopSkip \/ Return \/ StartJoin \/ EndWave
    \/ \E s \in Step :
         SkipDepFailed(s) \/ SkipCondition(s) \/ Spawn(s) \/ Join(s)

-----------------------------------------------------------------------------
(* The spawned tasks. *)

Acquire(s) == PoolAcquire(s) /\ UNCHANGED <<flow, pc, coord, env>>

Store(s, st) == PoolStore(s, st) /\ UNCHANGED <<flow, pc, coord, env>>

Release(s) == PoolRelease(s) /\ UNCHANGED <<flow, pc, coord, env>>

Panic(s) == PoolUnwind(s) /\ UNCHANGED <<flow, pc, coord, env>>

Worker(s) ==
    \/ Acquire(s)
    \/ \E st \in {"Completed", "Failed"} : Store(s, st)
    \/ Release(s)
    \/ Panic(s)

-----------------------------------------------------------------------------
(* The environment. *)

Cancel ==
    /\ ~cancelled
    /\ pc # "done"
    /\ cancelled' = TRUE
    /\ UNCHANGED <<flow, pc, coord, pool, timed_out>>

Deadline ==
    /\ ~timed_out
    /\ pc # "done"
    /\ timed_out' = TRUE
    /\ UNCHANGED <<flow, pc, coord, pool, cancelled>>

Next ==
    \/ Coordinator
    \/ \E s \in Step : Worker(s)
    \/ Cancel
    \/ Deadline

Spec == Init /\ [][Next]_vars

\* The runtime polls every task that can move, and handlers return or panic.  The
\* semaphore wakes some waiter, not a given one.
Fairness ==
    /\ WF_vars(Coordinator)
    /\ WF_vars(\E s \in Step : Acquire(s))
    /\ \A s \in Step : WF_vars(Worker(s))

FairSpec == Spec /\ Fairness

-----------------------------------------------------------------------------
(* Properties. *)

TypeOK ==
    /\ flow \in Flows
    /\ pc \in {"top", "batch", "join", "done"}
    /\ ready \in Seq(Step)
    /\ ready_head \in 0 .. Len(ready)
    /\ batch_end \in 0 .. Len(ready)
    /\ in_degree \in [Step -> Nat]
    /\ failed \in [Step -> BOOLEAN]
    /\ handles \in Seq(Step)
    /\ hj \in 0 .. Len(handles)
    /\ PoolTypeOK
    /\ results \in Seq(StepResult)
    /\ cancelled \in BOOLEAN
    /\ timed_out \in BOOLEAN

Stopped == cancelled \/ timed_out

\* run_dag pushes at most one result for a step, whatever unlocks it how often
\* (the trigger Any, a dependency skipped and another one joined).
OneResultPerStep ==
    \A i, j \in DOMAIN results : results[i].step = results[j].step => i = j

\* A dependency that came to an end without failing: Completed, or skipped
\* because its own condition did not hold.
Passed(d) ==
    \E i \in DOMAIN results :
        /\ results[i].step = d
        /\ \/ results[i].status = "Completed"
           \/ results[i].reason = "condition_not_met"

\* A task is spawned only behind its dependencies: all of them passed, or,
\* for the trigger Any, one of them did.
DependencyOrder ==
    \A s \in Step : worker[s] # "idle" =>
        IF flow.trigger[s] = "All"
        THEN \A d \in flow.deps[s] : Passed(d)
        ELSE \E d \in flow.deps[s] : Passed(d)

\* When a run ends that was neither cancelled nor out of time, every step has
\* a result: none stays locked in a valid flow.
AllReported == pc = "done" /\ ~Stopped => Reported(results) = Step

\* d failed, or was skipped below a step that failed.
Failed(d) ==
    \E i \in DOMAIN results :
        /\ results[i].step = d
        /\ results[i].status = "Failed" \/ results[i].reason = "dependency_failed"

\* A step with the trigger All below a failed step ends as "dependency_failed",
\* transitively, unless the run was stopped.
FailureCascades ==
    pc = "done" /\ ~Stopped =>
        \A s \in Step : \A d \in flow.deps[s] :
            Failed(d) /\ flow.trigger[s] = "All" =>
                \E i \in DOMAIN results : results[i] = Skip(s, "dependency_failed")

\* When run_dag returns, every task it spawned has ended: the rollback that
\* may follow never runs beside a step of this run.
NoWorkerLeft ==
    pc = "done" => Live = {}

\* The state is well typed, no permit is lost or made up, and nothing of the run
\* is left at work when it returned.
Inv == TypeOK /\ PermitsConserved /\ NoWorkerLeft

\* A condition on a step that is a dependency is decided on the final status of
\* that dependency, never on its absence.
ConditionSeesDependency ==
    \A s \in Step :
        LET c == flow.cond[s] IN
        (c.kind = "status" /\ c.on \in flow.deps[s] /\ flow.trigger[s] = "All") =>
            /\ worker[s] # "idle" => HasResult(results, c.on, c.is)
            /\ (\E i \in DOMAIN results : results[i] = Skip(s, "condition_not_met")) =>
                  \E st \in Status \ {c.is} : HasResult(results, c.on, st)

\* Every run returns, with a result for each step if it was not stopped.
Termination == <>(pc = "done" /\ AllReported)

\* The status run_dag reported for each step.
Outcome ==
    [s \in Step |->
        IF \E i \in DOMAIN results : results[i].step = s
        THEN results[CHOOSE i \in DOMAIN results : results[i].step = s].status
        ELSE "none"]

Contract == INSTANCE FlowContract
              WITH MayAbandon <- FALSE, begun <- Begun, outcome <- Outcome,
                   returned <- (pc = "done")

\* run_dag keeps the contract of an executor that abandons no step.
RefinesContract == Contract!Spec

-----------------------------------------------------------------------------
(***************************************************************************)
(* The inductive invariant behind DependencyOrder, OneResultPerStep,       *)
(* PermitsConserved and NoWorkerLeft.  A step is settled when it has a     *)
(* result for which unlock_dependents was called, so not one of StopSkip.        *)
(***************************************************************************)
StopReason == {"cancelled", "flow_timeout_exceeded"}

SettledIn(rs) == {rs[i].step : i \in {k \in DOMAIN rs : rs[k].reason \notin StopReason}}

Taken(s) == \E k \in 1 .. ready_head : ready[k] = s

\* s is in the wave and its task was not joined yet.
Pending(s) == \E k \in DOMAIN handles : k > hj /\ handles[k] = s

\* A result or a handle belongs to a step that was taken from the queue, and
\* a step does not have a result while its handle is pending.
Positions ==
    /\ \A i \in DOMAIN results : Taken(results[i].step) /\ ~Pending(results[i].step)
    /\ \A k \in DOMAIN handles : Taken(handles[k])
    /\ \A k, m \in DOMAIN handles : handles[k] = handles[m] => k = m
    /\ pc # "join" => hj = 0
    /\ pc \in {"top", "done"} => handles = <<>>

\* A settled step outside the failed set has passed.
FailedMarks ==
    \A i \in DOMAIN results :
        \/ results[i].reason \in StopReason \cup {"condition_not_met"}
        \/ results[i].status = "Completed"
        \/ failed[results[i].step]

\* Only pending steps have a live task.
LiveArePending ==
    \A s \in Step : s \in Live => Pending(s)

IInv ==
    /\ TypeOK
    /\ BookInv(flow, in_degree, ready, SettledIn(results))
    /\ Positions
    /\ OneResultPerStep
    /\ FailedMarks
    /\ DependencyOrder
    /\ LiveArePending
    /\ PermitsConserved

(***************************************************************************)
(* What FailureCascades, ConditionSeesDependency and the refinement need   *)
(* beyond IInv: where a taken step is, and what its dependencies decided.  *)
(***************************************************************************)
TakenAccounted == \A s \in Step : Taken(s) => s \in Reported(results) \/ Pending(s)

SpawnedTaken == \A s \in Step : worker[s] # "idle" => Taken(s)

StopsAreStopped ==
    (\E i \in DOMAIN results : results[i].reason \in StopReason) => Stopped

DrainedWhenDone == pc = "done" => ready_head = Len(ready)

FailuresMarked == \A d \in Step : Failed(d) => failed[d]

\* A taken step with the trigger All below a failed one was skipped.
FailedPassOn ==
    \A s \in Step : \A d \in flow.deps[s] :
        flow.trigger[s] = "All" /\ Taken(s) /\ Failed(d) =>
            \E i \in DOMAIN results :
                \/ results[i] = Skip(s, "dependency_failed")
                \/ results[i].step = s /\ results[i].reason \in StopReason

DInv ==
    /\ TakenAccounted
    /\ SpawnedTaken
    /\ StopsAreStopped
    /\ DrainedWhenDone
    /\ FailuresMarked
    /\ FailedPassOn
    /\ ConditionSeesDependency

-----------------------------------------------------------------------------
\* step.rs on TriggerMode::Any: "Ready when any single dependency completes."
\* So no Any step with a completed dependency is skipped for a failed one.
AnyNeedsOneCompleted ==
    \A s \in Step :
        flow.trigger[s] = "Any" /\ (\E d \in flow.deps[s] : HasResult(results, d, "Completed"))
            => \A i \in DOMAIN results : results[i] # Skip(s, "dependency_failed")
=============================================================================
