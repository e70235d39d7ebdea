------------------------------- MODULE ParPool -------------------------------
(***************************************************************************)
(* The tasks that run_parallel and run_dag spawn: one per step, each       *)
(* behind a semaphore of permits.  A task ends with a StepResult for its   *)
(* JoinHandle, or without one: its handler panicked, or the task was       *)
(* aborted and dropped at an await.  Its permit is returned in every case, *)
(* as the guard is dropped with the task.                                  *)
(*                                                                         *)
(* execute_step_with_handler is one step of a task here; module StepExec   *)
(* opens it up.  The semaphore is never closed.                            *)
(***************************************************************************)
EXTENDS FlowDefs

CONSTANT max_concurrency   \* EngineConfig.max_concurrency

ASSUME ConcurrencyAssumption == max_concurrency \in Nat

VARIABLES worker,    \* state of the step's task
          slot,      \* the status in the task's output, or "empty"
          permits    \* permits left in the semaphore

pool == <<worker, slot, permits>>

WorkerState == {"idle", "waiting", "running", "stored", "exited", "dropped"}

Permits == IF max_concurrency < 1 THEN 1 ELSE max_concurrency

PoolInit ==
    /\ worker = [s \in Step |-> "idle"]
    /\ slot = [s \in Step |-> "empty"]
    /\ permits = Permits

\* tokio::spawn.
PoolSpawn(s) ==
    /\ worker' = [worker EXCEPT ![s] = "waiting"]
    /\ UNCHANGED <<slot, permits>>

PoolAcquire(s) ==
    /\ worker[s] = "waiting"
    /\ permits > 0
    /\ permits' = permits - 1
    /\ worker' = [worker EXCEPT ![s] = "running"]
    /\ UNCHANGED slot

\* execute_step_with_handler returns the task's result.
PoolStore(s, st) ==
    /\ worker[s] = "running"
    /\ slot' = [slot EXCEPT ![s] = st]
    /\ worker' = [worker EXCEPT ![s] = "stored"]
    /\ UNCHANGED permits

\* The permit guard is dropped and the handle becomes ready.
PoolRelease(s) ==
    /\ worker[s] = "stored"
    /\ permits' = permits + 1
    /\ worker' = [worker EXCEPT ![s] = "exited"]
    /\ UNCHANGED slot

\* The handler panics, or an aborted task is dropped while its handler waits:
\* unwinding, or the drop, returns the permit, and there is no output.
PoolUnwind(s) ==
    /\ worker[s] = "running"
    /\ permits' = permits + 1
    /\ worker' = [worker EXCEPT ![s] = "exited"]
    /\ UNCHANGED slot

\* An aborted task is dropped while it waits for a permit.
PoolDrop(s) ==
    /\ worker[s] = "waiting"
    /\ worker' = [worker EXCEPT ![s] = "dropped"]
    /\ UNCHANGED <<slot, permits>>

\* Mutant: the join does not wait, ...
JoinedAtOnce(s) == TRUE

\* ... or waits for an output that a panicked task never has.
JoinedWithOutput(s) == worker[s] = "exited" /\ slot[s] # "empty"

\* handle.await returns.
Joined(s) == worker[s] = "exited"

\* What the joiner makes of the Ok or Err that handle.await returned.
JoinResult(s) ==
    IF slot[s] = "empty" THEN Fail(s, "task_panicked") ELSE Executed(s, slot[s])

PoolTypeOK ==
    /\ worker \in [Step -> WorkerState]
    /\ slot \in [Step -> {"empty", "Completed", "Failed"}]
    /\ permits \in 0 .. Permits

\* The tasks that have not ended.
Live == {s \in Step : worker[s] \in {"waiting", "running", "stored"}}

\* The steps whose handler was invoked.
Begun == {s \in Step : worker[s] \in {"running", "stored", "exited"}}

\* The semaphore neither loses nor invents a permit, so that at most Permits
\* handlers run at once; an abandoned task keeps its permit until it ends.
PermitsConserved ==
    permits + Cardinality({s \in Step : worker[s] \in {"running", "stored"}}) = Permits
=============================================================================
