----------------------------- MODULE ParallelRun -----------------------------
(***************************************************************************)
(* run_parallel: the coordinator walks the flow once, skips the steps      *)
(* whose condition is false and spawns a task for every other one, then    *)
(* awaits the tasks in spawn order.  Before each it looks at the cancel    *)
(* token and the clock; from then on the task is aborted and its step      *)
(* reported Skipped.  abort() does not wait: an aborted task is dropped at *)
(* its next await, and until then takes a permit, runs its handler or      *)
(* ends, with an output that nobody reads.                                 *)
(***************************************************************************)
EXTENDS ParPool

CONSTANT Flows      \* the flows a run may be started with

ASSUME FlowsAssumption == Flows \subseteq {f \in FlowDef : \A s \in Step : f.deps[s] = {}}

VARIABLES
    flow,          \* the flow of this run
    pc,            \* coordinator: "spawn", "check", "join", "done"
    i,             \* steps walked
    pre_skipped,   \* results of the steps that were never spawned
    handles,       \* the spawned steps, in spawn order
    k,             \* handles dealt with
    aborted,       \* the steps whose task was told to abort
    results,       \* their results; the returned vec once pc = "done"
    cancelled,     \* the token is signalled
    timed_out      \* the flow deadline has passed

coord == <<i, pre_skipped, handles, k, aborted, results>>
env   == <<cancelled, timed_out>>
vars  == <<flow, pc, coord, pool, env>>

Init ==
    /\ flow \in Flows
    /\ pc = "spawn"
    /\ i = 0
    /\ pre_skipped = <<>>
    /\ handles = <<>>
    /\ k = 0
    /\ aborted = {}
    /\ results = <<>>
    /\ PoolInit
    /\ cancelled = FALSE
    /\ timed_out = FALSE

-----------------------------------------------------------------------------
(* The coordinator. *)

\* A condition sees the steps skipped so far and no other one.
SkipCondition(s) ==
    /\ pc = "spawn"
    /\ s = i + 1
    /\ check_condition_false(flow, s, pre_skipped)
    /\ pre_skipped' = Append(pre_skipped, Skip(s, "condition_not_met"))
    /\ i' = s
    /\ UNCHANGED <<flow, pc, handles, k, aborted, results, pool, env>>

Spawn(s) ==
    /\ pc = "spawn"
    /\ s = i + 1
    /\ ~check_condition_false(flow, s, pre_skipped)
    /\ PoolSpawn(s)
    /\ handles' = Append(handles, s)
    /\ i' = s
    /\ UNCHANGED <<flow, pc, pre_skipped, k, aborted, results, env>>

StartJoin ==
    /\ pc = "spawn"
    /\ i = N
    /\ pc' = "check"
    /\ UNCHANGED <<flow, coord, pool, env>>

\* Mutant: the token and the clock are not looked at again once the joins began.
EnterJoinAnyway ==
    /\ pc = "check"
    /\ k < Len(handles)
    /\ pc' = "join"
    /\ UNCHANGED <<flow, coord, pool, env>>

\* The token and the clock are read once, before the join: a join that has
\* begun is not interrupted.
EnterJoin ==
    /\ pc = "check"
    /\ k < Len(handles)
    /\ ~cancelled /\ ~timed_out
    /\ pc' = "join"
    /\ UNCHANGED <<flow, coord, pool, env>>

Abandon ==
    /\ pc = "check"
    /\ k < Len(handles)
    /\ cancelled \/ timed_out
    /\ results' = Append(results, Skip(handles[k + 1],
                                       IF cancelled THEN "cancelled"
                                                    ELSE "flow_timeout_exceeded"))
    /\ aborted' = aborted \cup {handles[k + 1]}
    /\ k' = k + 1
    /\ UNCHANGED <<flow, pc, i, pre_skipped, handles, pool, env>>

Join ==
    /\ pc = "join"
    /\ Joined(handles[k + 1])
    /\ results' = Append(results, JoinResult(handles[k + 1]))
    /\ k' = k + 1
    /\ pc' = "check"
    /\ UNCHANGED <<flow, i, pre_skipped, handles, aborted, pool, env>>

\* Mutant: the vec is not seeded with the steps that were never spawned.
ReturnSpawnedOnly ==
    /\ pc = "check"
    /\ k = Len(handles)
    /\ pc' = "done"
    /\ UNCHANGED <<flow, coord, pool, env>>

Return ==
    /\ pc = "check"
    /\ k = Len(handles)
    /\ results' = pre_skipped \o results
    /\ pc' = "done"
    /\ UNCHANGED <<flow, i, pre_skipped, handles, k, aborted, pool, env>>

Coordinator ==
    \/ StartJoin \/ EnterJoin \/ Abandon \/ Join \/ Return
    \/ \E s \in Step : SkipCondition(s) \/ Spawn(s)

-----------------------------------------------------------------------------
(* The spawned tasks and the environment. *)

Acquire(s) == PoolAcquire(s) /\ UNCHANGED <<flow, pc, coord, env>>

Store(s, st) == PoolStore(s, st) /\ UNCHANGED <<flow, pc, coord, env>>

Release(s) == PoolRelease(s) /\ UNCHANGED <<flow, pc, coord, env>>

Panic(s) == PoolUnwind(s) /\ UNCHANGED <<flow, pc, coord, env>>

\* The runtime drops an aborted task at an await: in the semaphore's queue or
\* inside the handler.
DropAborted(s) ==
    /\ s \in aborted
    /\ PoolDrop(s) \/ PoolUnwind(s)
    /\ UNCHANGED <<flow, pc, coord, env>>

Worker(s) ==
    \/ Acquire(s)
    \/ \E st \in {"Completed", "Failed"} : Store(s, st)
    \/ Release(s) \/ Panic(s) \/ DropAborted(s)

Cancel ==
    /\ ~cancelled
    /\ pc # "done"
    /\ cancelled' = TRUE
    /\ UNCHANGED <<flow, pc, coord, pool, timed_out>>

Deadline ==
    /\ ~timed_out
    /\ pc # "done"
    /\ timed_out' = TRUE
    /\ UNCHANGED <<flow, pc, coord, pool, cancelled>>

Next ==
    \/ Coordinator
    \/ \E s \in Step : Worker(s)
    \/ Cancel
    \/ Deadline

Spec == Init /\ [][Next]_vars

\* As for run_dag: tasks that can move do, some waiter gets a free permit, and
\* handlers return or panic.
Fairness ==
    /\ WF_vars(Coordinator)
    /\ WF_vars(\E s \in Step : Acquire(s))
    /\ \A s \in Step : WF_vars(Worker(s))

FairSpec == Spec /\ Fairness

-----------------------------------------------------------------------------
(* Properties. *)

TypeOK ==
    /\ flow \in FlowDef
    /\ pc \in {"spawn", "check", "join", "done"}
    /\ i \in 0 .. N
    /\ pre_skipped \in Seq(StepResult)
    /\ handles \in Seq(Step)
    /\ k \in 0 .. Len(handles)
    /\ aborted \subseteq Step
    /\ results \in Seq(StepResult)
    /\ PoolTypeOK
    /\ cancelled \in BOOLEAN
    /\ timed_out \in BOOLEAN

Stopping == {"cancelled", "flow_timeout_exceeded"}

\* run_parallel returns one result for every step, whatever was skipped,
\* aborted or panicked, the condition-skipped steps first and each group
\* in flow order.
CompleteAndOrdered ==
    pc = "done" =>
        /\ Len(results) = N /\ Reported(results) = Step
        /\ \A a, b \in DOMAIN results : a < b =>
              \/ results[a].step < results[b].step
              \/ results[a].reason = "condition_not_met" /\ results[b].reason # "condition_not_met"

\* A step is reported with the outcome of its own handler, once that handler
\* has ended; only a step reported as stopped may still be running.
OutcomeIsFinal ==
    \A a \in DOMAIN results :
        results[a].reason \notin Stopping \cup {"condition_not_met"} =>
            /\ worker[results[a].step] = "exited"
            /\ results[a] = JoinResult(results[a].step)

\* Once one task was aborted every later one is, so that the results end in
\* a row of stopped steps.
AbandonedIsSuffix ==
    \A a, b \in DOMAIN results :
        a < b /\ results[a].reason \in Stopping => results[b].reason \in Stopping

\* What holds at every moment of a run: types, permits, the meaning of a
\* joined result, which tasks may be aborted, and what is returned in the end.
Inv == TypeOK /\ PermitsConserved /\ OutcomeIsFinal /\ AbandonedIsSuffix /\ CompleteAndOrdered

\* Every run returns, and every aborted task ends and gives its permit back.
RunEnds ==
    /\ <>(pc = "done")
    /\ <>[](permits = Permits /\ Live = {})

\* The vec the caller will get, which is assembled only on return.
AllResults == IF pc = "done" THEN results ELSE pre_skipped \o results

Outcome ==
    [s \in Step |->
        IF \E a \in DOMAIN AllResults : AllResults[a].step = s
        THEN AllResults[CHOOSE a \in DOMAIN AllResults : AllResults[a].step = s].status
        ELSE "none"]

Contract == INSTANCE FlowContract
              WITH MayAbandon <- TRUE, begun <- Begun, outcome <- Outcome,
                   returned <- (pc = "done")

\* run_parallel keeps the contract of an executor that may abandon steps.
RefinesContract == Contract!Spec

-----------------------------------------------------------------------------
(***************************************************************************)
(* The inductive invariant, stated on AllResults: the results grow by one  *)
(* at a time there, and Return leaves it alone.                            *)
(***************************************************************************)
Phases ==
    /\ pc = "spawn" => k = 0 /\ results = <<>>
    /\ pc # "spawn" => i = N
    /\ pc = "join" => k < Len(handles)
    /\ pc = "done" => k = Len(handles)

\* The steps walked so far are shared out between pre_skipped and handles, each
\* in flow order.
Walked ==
    /\ Len(pre_skipped) + Len(handles) = i
    /\ \A a \in DOMAIN pre_skipped :
          /\ pre_skipped[a] = Skip(pre_skipped[a].step, "condition_not_met")
          /\ pre_skipped[a].step <= i
    /\ \A b \in DOMAIN handles : handles[b] <= i
    /\ \A a, b \in DOMAIN pre_skipped : a < b => pre_skipped[a].step < pre_skipped[b].step
    /\ \A a, b \in DOMAIN handles : a < b => handles[a] < handles[b]
    /\ \A a \in DOMAIN pre_skipped, b \in DOMAIN handles : pre_skipped[a].step # handles[b]
    /\ \A s \in 1 .. i : \/ \E a \in DOMAIN pre_skipped : pre_skipped[a].step = s
                         \/ \E b \in DOMAIN handles : handles[b] = s

\* First the steps that were never spawned, then the tasks dealt with.
Aligned ==
    /\ Len(AllResults) = Len(pre_skipped) + k
    /\ \A a \in DOMAIN pre_skipped : AllResults[a] = pre_skipped[a]
    /\ \A b \in 1 .. k :
          /\ AllResults[Len(pre_skipped) + b].step = handles[b]
          /\ AllResults[Len(pre_skipped) + b].reason # "condition_not_met"

JoinsFinal ==
    \A a \in DOMAIN AllResults :
        AllResults[a].reason \notin Stopping \cup {"condition_not_met"} =>
            /\ worker[AllResults[a].step] = "exited"
            /\ AllResults[a] = JoinResult(AllResults[a].step)

StoppedTail ==
    /\ \A a, b \in DOMAIN AllResults :
          a < b /\ AllResults[a].reason \in Stopping => AllResults[b].reason \in Stopping
    /\ \A a \in DOMAIN AllResults :
          AllResults[a].reason \in Stopping => (cancelled \/ timed_out) /\ pc # "join"

UnwalkedIdle == \A s \in Step : s > i => worker[s] = "idle"

IInv ==
    /\ TypeOK
    /\ PermitsConserved
    /\ Phases
    /\ Walked
    /\ Aligned
    /\ JoinsFinal
    /\ StoppedTail
    /\ UnwalkedIdle

=============================================================================
