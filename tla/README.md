# A TLA+ verification of the szal workflow engine

szal runs *flows*: a flow is a list of steps with dependencies, triggers,
conditions, timeouts, retries and rollbacks, executed sequentially, in parallel,
as a DAG, as a tree, over a queue or on a fleet of nodes. Around the engine are
an event and progress stream, an execution store, migrations and a set of MCP
tools for tenants and clients.

**What is modelled.** These modules are translated from the Rust implementation
under `src/rust-old/src/` (paths below are relative to it). The repository also
holds a later port to Cyrius, `src/src/*.cyr`, which replaces async tasks by
threads and channels; it is another program in its details and outside the scope
of this project.  An earlier version of these modules followed the port: they
were retranslated, and what is said here holds of the Rust code.

TLC checks the modules on small instances; TLAPS proves the safety properties of
all executors, of the run sequence with its store, of what lets a flow through,
and of what clients share, for instances of every size.

- [Inventory](#inventory): the parts of the system and what makes them correct
- [Modules](#modules): which module models what, and how
- [Runs](#runs), [bounds](#bounds), [fairness](#fairness)
- [Proofs](#proofs)
- [Findings](#findings) and [other divergences](#other-divergences)
- [Not modelled](#not-modelled) and the [plan](#plan)

## Inventory

A call of the engine goes through these parts, each calling the next:

    Engine::run / run_with_cancellation / run_distributed   (engine/runner.rs)
      FlowDef::validate, hardware check        (flow.rs, engine/hardware.rs)
      event sink, ExecutionStore, heartbeat    (bus.rs, storage.rs / sql_store.rs, majra)
      one executor for the flow                (engine/sequential.rs, hierarchical.rs,
                                                parallel.rs, dag.rs, distributed.rs,
                                                queue_runner.rs)
        check_condition                        (engine/mod.rs, condition.rs)
        execute_step_with_handler              (engine/step_exec.rs)
          the caller's handler -> ProgressReporter -> ProgressHub   (stream.rs)
      rollback, FlowResult, final record       (engine/runner.rs, engine/result.rs)

Beside it, a definition is migrated (`migration.rs`) before it is run, and the
MCP tools (`mcp/`) let clients author flows, walk workflow states and reach
files, the network and processes, under tenant limits.

| Component | State it keeps | Operations | Interacts through | Hard part | What makes it correct |
|---|---|---|---|---|---|
| DAG executor | in-degrees, FIFO of ready steps, failed set, results, semaphore, tasks | a wave: stop test, take, skip, spawn, join, unlock | tokio tasks, a semaphore | waves interleave with tasks; failure cascades; trigger Any; panics | dependency order, one result per step, nothing left running, it returns |
| Parallel executor | semaphore, handles, results | condition pre-pass, spawn, join, abort | the same | abort does not wait for the task | results complete and ordered, permits conserved, aborted tasks end |
| Sequential, hierarchical | results, per level a failed flag | skip, execute, descend, leave | calls | how far a failure and a stop reach in the tree | complete pre-order, failure contained, stop final |
| Distributed | as DAG, plus in_flight, result channel, done token | submit, refuse, receive, finish, join | fleet queues, a worker per node, a channel | results out of order, shutdown races, panicked workers, items of an earlier run | one result per step, in_flight exact, it returns |
| Queue runner | results; the shared ManagedQueue | enqueue, dequeue, test for drained, finish | one queue for all runs of an engine | two runs on one queue, two reads of its counts | every step once, nothing of a run left when it returns |
| Step executor | attempt, last error | call, time out, back off, end | the handler's future | timeouts between attempts, overflow, panics | result of its attempt, events agree, delays grow, it ends |
| Progress hub | broadcast channel | report, subscribe | sink called inside the handler | a report names no attempt; attempts time out and are retried | progress falls between the events of its own attempt |
| Engine runner | record, heartbeat entry, FlowResult | refuse, start, execute, roll back, report, persist | everything above | failing rollbacks, two runs of one flow, three entry points | rollback order, agreement of all outputs |
| Execution store | mirror, channel, table | save, remove, write | engine, other clients, a background writer | crash or failure between mirror and table | table follows mirror, never backwards |
| Definitions | flows, conditions, migrations, devices | validate, compile, evaluate, migrate, check | read by all | recursion with shared marks, precedence, chains of hops | verdict equals the reference definition |
| Tenancy | registry, buckets | register, deregister, check quota, check tool | every tool call | registry and limiter are two reads | a tenant is limited by its own use alone |
| MCP tools | files, network pool, children | read, write, append, request, exec | clients that retry | background writes, timeouts, retry flags | acknowledged writes survive, retries end |
| Authoring tools | the client's flow and workflow | create, add, validate, transition | JSON | any order of calls | tools alone never build a cycle |

PROJECT.json lists every component with its status, and under `hazards` what is
hard to test in this code, at the line where it bites, with the properties that
cover it.

## Modules

    FlowDefs            flows, results, conditions, what validate accepts
     |- FlowContract    abstract: what an executor promises the engine
     |- DagBook         in-degree bookkeeping of the two DAG executors - DagBookProofs
     |   |- DagRun      run_dag (with ParPool)       - MCDagRun, DagRunProofs
     |   |- DistributedRun   run_distributed_dag     - MCDist, DistributedRunProofs
     |- ParPool         semaphore and tasks
     |   |- ParallelRun run_parallel                 - MCParallel, ParallelRunProofs
     |- TreeRun         run_sequential, run_hierarchical - MCTree, TreeRunProofs
     |- SpawnSink + EngineRun   store and run sequence   - MCEngine, EngineRunProofs
     |- FlowValidate    FlowDef::validate, the search for cycles call by call
         |- Admission   validate and the hardware check - ServiceProofs
         |- Authoring   a client that builds flows with the tools - ServiceProofs
    QueueRun            run_queued on a shared ManagedQueue - ServiceProofs
    StepExec + ProgressHub -> StepStream    one step and its progress stream
                                            - StepExecProofs
    Admission + Tokenizer + Condition + Migration -> Definitions - MCDefinitions
    Tenancy + McpTools + Authoring -> McpServer - MCMcp
    ServiceProofs       QueueRun, Tenancy, McpTools, Migration, Admission, Authoring

DagRun, ParallelRun, TreeRun and DistributedRun each instantiate FlowContract
with a refinement mapping; TLC checks it as a property and TLAPS proves it.

**FlowDefs.** Steps are `1 .. N`, their positions in the flow. A flow is a record
of dependencies, triggers and conditions; `validate` is what the code accepts. A
condition compares the status of a step with a value, is absent, or does not
compile (then the step runs). A result is a step, a status and a reason.

**DagBook and ParPool** hold what two executors share, as operators on the state
of their caller: `unlock_dependents` in three parts (the dependents that reach 0,
the in-degrees with the `usize::MAX` sentinel, the queue), and the semaphore with
the tasks (`waiting -> running -> stored -> exited`, or `dropped` when aborted; a
panic goes to `exited` with an empty slot, which the join turns into a failure).

**DagRun.** The coordinator's `pc` is `top` (the test of the outer loop),
`batch`, `join` or `done`. `StartWave`/`StopSkip`/`Return` are the ways out of
that test, `SkipDepFailed`/`SkipCondition`/`Spawn` what happens to a taken step,
`Join` the body of the join loop with its unlocking. A task takes a permit,
stores its result and gives the permit back in steps that interleave with
everything. `Cancel` and `Deadline` happen at any time.

**ParallelRun.** A join is entered only after token and clock were read
(`EnterJoin`); inside it the coordinator waits whatever happens. `Abandon` is the
abort: the step is reported Skipped, its task ends at its next await or runs to
its end if it has none left.

**TreeRun.** Steps are numbered in pre-order and a tree is a depth per step. A
stack of frames is the recursion of `execute_tree`: where the level stands and
whether it failed. Sequential mode is the walk of the top level. What a condition
can see is the part of the results that belongs to the innermost frame.

**DistributedRun.** Coordinator, one worker per node, the fleet's queues, the
result channel, the done token. The fleet (`majra`) is external: a submitted step
goes to a node of least load, a fleet without nodes refuses, rebalancing moves
items. A worker looks at the token, then dequeues, as two steps. `leftover` is
the number of items an earlier, stopped run left behind. `Abandon` is the caller
dropping the future of the run where it awaits: a submission, a result, the
rebalancing behind one, the end of a worker.

**QueueRun.** Any number of `run_queued` calls on one queue. The test for a
drained queue is two reads, and the model keeps them apart.

**StepExec.** One step. `max_retries + 1` wraps or panics at the top of u32, by
`overflow_checks`; a timeout drops the handler; `delay_ms` is computed with
saturation in scaled-down widths (`U32_MAX`, `U64_MAX`, `U64_BITS`).

**ProgressHub, StepStream.** The hub's sink sends a report to whoever is
subscribed and waits for nobody. The broadcast channel behind it is tokio's: how
many reports it keeps for a slow receiver, and what it tells one that lags, is not
in this repository and not modelled; `inbox` is what was sent to a client.
StepStream composes the hub with the step: whichever handler future is alive may
report. A StepProgress names the step and not the attempt, so the model keeps the
attempt, and how many events had been emitted, as history of the report.

**SpawnSink, EngineRun.** Calls of the three entry points on one engine and
flow. The execution of the steps is one action that returns any results the
executors' modules allow: one per step, a part of them from a stopped DAG run, those
of other calls from a shared queue, and a result of another run's work, of this
flow or of another, from a fleet that is not clean (`UsedFleet`). The record and the heartbeat entry are keyed by the
flow id, hence shared. With the SQL store a save changes the mirror, then sends
to the channel, then the background task writes, in three steps; a write may
fail, and the process may crash and restart with an empty mirror. For the
in-memory store the mirror is the store.

**FlowValidate.** The depth-first search as a machine whose state is that of the
Rust code: `visited`, `in_stack` and the calls of `dfs` that are open, each with
the neighbours it has not looked at. `Start` is the loop over the steps, `Visit`
the loop over the neighbours (it enters a call, passes over a node or finds the
cycle), `Leave` the return of false. The order in which steps and dependencies
are listed is left open, so every order is covered. Then the dangling
dependencies and the hierarchical rule. `Expected` states the verdict by the
existence of an order of the steps, without a search.

**Admission.** One call of `FlowDef::validate` (the search, then the verdict) or of
the hardware check.

**Tokenizer, Condition.** The hand-written scans over characters (classes of
them), the mutually recursive parser and the evaluator. `LongestTokens` and
`Meaning` are the references: the longest token at each place, with a path spelled
`ident ("." ident)*` as `condition.rs:13-14` says, and the grammar of the module
doc (`condition.rs:5-18`) read as a definition, with the comparisons as the docs of
`values_equal` and `values_compare` describe them (`Holds`). The code differs from
these references in two places, and `ConditionMeansGrammar` says where: a text with
a stray dot (`a.`, `a..b`, `a.1`) is a path instead of an error, and arrays and
objects are equal to nothing, themselves included.

**Migration.** `register` with its two assertions and `migrate_to` as a loop in
which each migration may fail.

**Definitions** runs one job per behaviour: an admission, a condition or a migration.

**Tenancy.** Threads that ask for tenants: `LookUp` and `CheckLimiter` are the
two reads of `check_tenant_quota`. `spent` and `refilled` are history.

**McpTools.** Clients on one file and one pool key. `tokio::fs::write` is
`Truncate` then `Fill`; an append is answered when its bytes are with the
background thread (`pending`), which lands or loses them later. Clients heed
`retryable`. Paths, urls and contents are abstracted to what the checks say, and to
whether the request can succeed: `Failure` is an error that passes and is counted,
`Futile` one that lasts (an unknown command, a host that does not resolve, a text
that is not UTF-8) and is answered the same each time, a slow command outlasts its
timeout each time.

**Authoring.** A client that builds a flow from the tools' answers in any order
and asks flow_validate for its verdict (`Ask`, the steps of the search, `Judge`;
the client waits meanwhile), and that walks a workflow through the
transition table. **McpServer** lets a session of the server be one of the three:
they share no state, so their product would add nothing.

**FlowContract** is the abstract specification: a step's handler begins at most
once, a step gets at most one result and keeps it, Completed implies begun, and
nothing is reported after the return. `MayAbandon` separates executors that wait
for their tasks (DAG, tree) from those that may report a step Skipped while its
handler still runs (parallel, distributed).

## Runs

`tlc -config <cfg> <module>` in this directory.

| Run | Module, cfg | Shows |
|---|---|---|
| dag | MCDagRun, MCDagRun.cfg | run_dag: one result per step, dependency order, failures cascade, conditions see final results, permits conserved, no task left, termination with a full report, the contract |
| dag_any_trigger | MCDagRun, MCDagAny.cfg | violation, see Findings |
| step_exec | StepStream, MCStepExec.cfg | no attempt beside another, result of its attempt, events agree, delays never shrink, progress falls between the events of its own attempt, the step ends |
| parallel | MCParallel, MCParallel.cfg | order and completeness, aborted steps form a suffix, permits conserved, run and aborted tasks end, the contract |
| tree | MCTree, MCTree.cfg | pre-order, reach of failures and stops, which results conditions see, the contract |
| distributed | MCDist, MCDist.cfg | in_flight exact, one result per step, dependency order, workers joined, termination, the contract |
| queue | QueueRun, MCQueue.cfg | no step lost or run twice, cap kept, a run returns short only if others finished its steps, runs end unless a panic lost an item |
| engine | MCEngine, MCEngine.cfg | rollback order and completeness, result, events and record agree, refusals are silent, heartbeat, table follows mirror and never goes backwards, writes end and calls too unless their executor waits for ever |
| engine_final_record | MCEngine, MCEngineFinal.cfg | violation |
| definitions | MCDefinitions, MCDefinitions.cfg | validate and hardware limits equal their references, tokenizer, parser and evaluator too but for the two differences named above; migrations sound; migrations and validations end |
| mcp | MCMcp, MCMcp.cfg | acknowledged writes survive, tools build no cycle, tenants apart, retries end unless the request can never succeed |
| mcp_append_read | MCMcp, MCMcpAppend.cfg | violation |

A run's `Inv` is the conjunction of the module's type invariant and the named
parts above it; the other properties are the ones a reader would ask for by name.
Every property has a mutant: a definition changed as a plausible bug would change
it (`\* Mutant:` in the modules), under which TLC finds the property violated.

### Bounds

- Three steps contain every dependency shape in which a wave has company: a
  chain, a fork, a join (also with trigger Any), two roots. Two permits for three
  steps make tasks wait. All valid flows are enumerated, with both triggers or
  one condition.
- Four steps give every tree with two levels of nesting and siblings behind them.
- StepExec's widths (`U32_MAX = 4`, `U64_MAX = 3`, two bits) are small enough
  that the sum of attempts overflows and delays saturate within three retries.
  Three reports allow one in each attempt, or several in one.
- Two nodes allow stealing; an empty fleet refuses everything. `USIZE_MAX = 9`
  stands for the sentinel, out of reach of the decrements of a run.
- Two runs of up to three steps share a queue with a cap of one, so that one
  always waits for the other.
- One engine call is checked with every setting and three steps; two calls with
  the SQL store, or one call and a removing client, with one failed write and one
  crash.
- Conditions: all of up to four tokens, those of five and seven in which
  precedence shows, all texts of up to three characters (four for most of them).
  Definitions: all of three steps with dangling dependencies. Migrations: all
  registries on five versions.
- MCP: two clients with two calls each, one transient fault, one token in the
  pool, one orphaned process told apart from none (`MaxChildren`); two tenants, two threads, a burst of two and a refill.

Deadlock checking is off in all runs because every modelled call may end.

### Fairness

Weak fairness of what the tokio runtime polls: the coordinator, every task that
can move, the background writer. The semaphore serves some waiter, not a given
one (`WF(\E s : Acquire(s))`). Handlers are assumed to end in the executors'
modules; in StepExec that is assumed only without a timeout, behind a timeout
they may hang. Timers fire. The loops of `migrate_to` and `check_cycles` await
nothing, so they go on until they end. Cancel, deadline, panics, crashes, faults and
clients' new requests are never fair. The queue and the distributed executor do
not end in the states `LostItem` and `HeldUp`, which their properties name.
EngineRun takes this over: a call in its executor is fair only where
`ExecutorReturns` holds, that is not in a distributed run, which a panicked worker
holds up, and not on a queue on which another call was unwound; `CallsEnd` lets
exactly these calls wait. `RetriesEnd` excepts clients that go in a circle because
the code sends them there: those that wait for a missing file (`AwaitsFile`) and those
that repeat what can never succeed (`Circles`), as permanent failures are answered
with the retryable codes `io_error` and `timeout`.

## Proofs

`tlapm <module>Proofs.tla` checks the proofs of a module. They hold for every
number of steps, permits, nodes, runs, calls, tenants, clients and versions, and
for every flow or tree the code accepts. For each component the argument is the
same: an inductive invariant (`IInv`, next to the properties in the component's
module, and checked by TLC there before it was proved), a lemma per action that
keeps it, and the properties as consequences. Why the properties are not
inductive themselves, and what `IInv` adds:

- **DagBookProofs**: what `unlock_dependents` does to in-degrees and queue
  (`BookInv`: the in-degree of a step counts its dependencies that are not
  settled, or is the sentinel, or 0 and the step is queued), shared by the two DAG
  executors, and that in an acyclic flow everything is queued once all that was
  queued is settled (`NoneLocked`).
- **DagRunProofs**: `RunSafe` (`Inv`), `DependenciesFirst`, `ResultsUnique`,
  `ConditionsDecided`, `FailuresCascade`, `EveryStepReported`, and
  `DagKeepsContract`, the refinement of FlowContract. In two layers: `IInv` says
  that the book is right, that results and handles belong to taken steps, that a
  settled step outside the failed set passed and that only pending steps have a
  live task; `DInv` says that every taken step is reported or pending, that no
  failure is unmarked and that what was taken below a failure was skipped.
- **ParallelRunProofs**: `ParallelSafe` (`Inv`), `ParallelKeepsContract`. The
  order of the results only shows when the run returns; `IInv` states it of
  `AllResults`, which grows by one at a time: the walked steps are shared out
  between `pre_skipped` and `handles`, and the results are aligned with both.
- **TreeRunProofs**: `TreeSafe` (`Inv`), `TreeConditionsSeeSiblings`,
  `TreeStopIsFinal` (an action property) and `TreeKeepsContract`. `IInv` adds the
  stack of calls: each walks one depth in an interval that nothing of that depth
  or above is in or next to, its flag is TRUE exactly if one of the steps it
  walked failed, each call goes on behind the one inside it, and all that a call
  is nested in completed. The flags of the outer calls survive because a subtree
  is deeper than they are.
- **DistributedRunProofs**: `DistributedSafe` (`Inv`), `DistributedReportsAll`
  (`OneResultForEachStep`), `DistributedKeepsContract`, all for `leftover = 0`:
  with items of an earlier run on the fleet `OneResultForEachStep` is false (see
  Other divergences). `in_flight` is a number; `IInv` says of which set: every
  step taken is in one queue, in one worker's hands, in one message or reported.
- **EngineRunProofs**: `EngineSafe` (`Inv`), `RollbackInOrder`, `OneStory`
  (`OutputsAgree`), `TableFollowsMirror` (`Durable`) and `NeverBackToRunning`
  (`DbForward`, an action property). `IInv` says that a record tells the truth
  about the call that saved it wherever it is on its way to the table, that no
  Running record is behind a final one of the same call, and what the one client
  between mirror and channel is about to send.
- **StepExecProofs**: `StepSafe` (`Inv`), `StepEventsTrue`, `BackoffGrows`, for
  every `StepDef` and every width of the integers, and `StreamingIsInvisible`: a
  step with its reporter and subscribers implements the step alone. `IInv` says
  for each `pc` what the attempts, the events and the delays so far look like.
  `ProgressInPlace` (`ProgressBetweenEvents`): the events only grow, so a report that
  was in its place stays there, and while a handler runs the events say that the
  attempts before it, and no others, were given up (`Placed`, `Inboxes`).
- **ServiceProofs**, on what runs and clients share: `QueueSafe` (`Inv`) and
  `ShortIsFinished` of QueueRun, where `IInv` counts without counting (an enqueued
  item has exactly one place) and adds the order in which places follow each
  other; `QuotasApart` (`TenantsApart`, an action property) from the balance of a
  bucket; `AcknowledgedWritesSurvive`, where `FIInv` says that a call still under
  way has written nothing, so that a retry writes nothing twice; `MigrationsSafe`
  and `MigrationsSound`, where `OnTheWay` says that a chain to the target leads
  over every version the flow has had.
- **ServiceProofs**, on the search for cycles: `AdmissionCorrect`
  (`AdmissionDecides`) for every definition, and `AuthoringIsSound`
  (`AuthoringSound`) for every flow a client can build. `SearchInv` is the classical
  argument about a depth-first search as an invariant. The open calls are a path
  (`OpenPath`), so any order of the steps that respects the dependencies falls
  along it (`FallsAlong`); hence a neighbour that is on the path refutes every
  such order, and a cycle that is reported is one. What a call has looked at has
  returned or is the call it waits for (`LookedAt`), so when a call returns, all
  its dependencies have returned and it can be numbered behind them
  (`Numbered`); hence a search that ends without a cycle has numbered all steps.
  `AuthoringInv` adds that a step depends only on steps made before it, which is an
  order of whatever flow is built from them.

Assumptions, each named in the module that declares the constant and evaluated by
TLC in the runs: sizes are naturals (`NAssumption`, `ConcurrencyAssumption`,
`QueueAssumption`, `TenancyAssumption`, `ToolsAssumption`, `VersionAssumption`,
`WidthAssumption`, `AdmissionAssumption`), runs, nodes and clients are finitely
many (`QueueAssumption`, `FleetAssumption`), the definitions
that are validated are what can be deserialized (`AdmissionAssumption`),
`USIZE_MAX > N` (`MaxAssumption`), flows are what `validate` accepts, which
Engine::run tests first (`FlowsAssumption`), trees are numbered in pre-order
(`TreesAssumption`), calls make at least one kind of request (`ToolsAssumption`),
and two that the provers need and arithmetic gives: powers of two double
(`ShiftAssumption`, as they know no exponents) and no call has the name of the
absent record (`CallAssumption`).

Only model-checked:

- all liveness (`Termination`, `RunEnds`, `RunsEnd`, `StepEnds`, `CallsEnd`,
  `JobsEnd`, `RetriesEnd`): fairness is out of the prover's reach;
- `ConditionMeansGrammar`: tokenizer, parser and reference are recursive operators,
  and what they compute for every input needs induction over data.

## Findings

1. **dag_any_trigger**: `step.rs:30` says of `TriggerMode::Any` "Ready when any
   single dependency completes."; `dag.rs:89` skips an Any step if any of its
   dependencies is in the failed set when the step is taken, although the other
   completed in the same wave.
2. **engine_final_record**: `runner.rs:104-105` promises a record "at flow start
   (state `Running`) and flow end"; the queue path (`runner.rs:194-236`) returns
   before the final save, so the record says Running for ever. The property is about
   `run`, which saves the Running record on every path.
3. **mcp_append_read**: the test `file_write_append` (`file_tools.rs:408-409`)
   asserts that a read after an answered append returns the appended text.
   `file_tools.rs:139` writes through a tokio `File` and drops it without a
   flush: the bytes may still be with the background thread, so the assertion
   holds only by luck of timing, and an error of that write is lost.

### Other divergences

Met while modelling, kept in the models as the code does it:

- A stopped DAG run leaves steps that are still locked without a result, although
  `runner.rs:520-521` says "remaining steps are marked `Skipped`".
- `run_with_cancellation` "Behaves identically to `run`" (`runner.rs:519`), but
  saves no record and ignores the queue.
- A flow whose timeout only skipped steps reports success.
- Only top-level steps are rolled back; completed sub_steps are not.
- The engine's record goes from Running to RolledBack, a transition that
  `state.rs` forbids.
- `distributed.rs:31` says "Returns one [`StepResult`] per step."; a run that
  stops leaves its queued items on the fleet, the workers of the next run execute
  them, and its coordinator counts whatever it receives (`distributed.rs:226-233`):
  it reports a step that is not in its flow, and may end before its own steps were
  taken. With `leftover = 1` in MCDist.cfg TLC finds `OneResultForEachStep`
  violated.
- In `run_distributed_dag` a panicked worker beside a live one makes the
  coordinator wait until the timeout, or for ever without one.
- Two queue runs on one engine report each other's steps; a panicked step's item
  stays in the running count and holds the others up.
- The guard of the first of two runs to end deregisters the heartbeat of both.
- `SpawnSink::remove` after a restart deletes nothing that the new mirror does
  not hold; two clients may order mirror and channel differently.
- A float literal is never `==` an integer of the context while `>=` compares
  them as numbers; same-named steps hide each other in the condition context.
- `step_failed` is emitted for each timed-out attempt and once more at the end.
- Two steps with one id pass `validate`; FlowAddStep does not validate.
- A tenant's `max_requests_per_sec` is never read, against `tenant.rs:82`.
- The scanner takes every dot into a word (`condition.rs:183-198`), so `a.`, `a..b` and
  `a.1` compile, which `condition.rs:13-14` does not derive; a container is not `==`
  to itself, although `values_equal` is documented as structural (`condition.rs:459`).
- Permanent failures carry retryable codes: an unknown command
  (`process_tools.rs:98-100`) and a host that does not resolve (`net_tools.rs:252-255`)
  answer `io_error`, so a client that heeds the flag asks for ever.
- FileRead slices the text at `max_bytes` (`file_tools.rs:64`), which panics inside a
  multi-byte character; bytes are not modelled.
- FileRead of a missing file answers `io_error`, which is retryable, never
  `not_found`; a timed-out Exec leaves the child running and is retryable; the
  pool's token is spent before the headers are checked.

## Not modelled

- `sub_flow_handler` and `InMemoryStorage`: a nested run of a default engine and
  a locked map. The nested engine adds no state that is not in EngineRun, but its
  spawned tasks survive the timeout of the step around it (see hazards).
- `ConditionCache` (memoises a pure function), `render_template`, and the JSON
  forms: string building.
- Metrics, the event bus and OpenTelemetry: forwarding without state of ours.
- Registration with the dispatcher, tool schemas and the pure or read-only tools:
  one request, one answer, nothing shared.
- Databases, the rate limiter, the fleet, queues, channels and the runtime are
  external: modelled from how the code uses them.

## Plan

Left to do: sub-flows, as a composition of EngineRun with StepExec, for the tasks
that outlive a timed-out step; and the proofs of DistributedRun without
`leftover = 0`, for what still holds there (no handler invoked twice, no worker
left).
