------------------------------ MODULE QueueRun ------------------------------
(***************************************************************************)
(* run_queued: the steps of a run go through the majra ManagedQueue of the *)
(* engine.  EngineConfig::with_queue attaches one queue, so runs that are  *)
(* active at the same time share it: each enqueues its own steps and       *)
(* dequeues whatever comes.  A run is unwound when its handler panics or   *)
(* its caller drops the future at an await: what it enqueued stays queued, *)
(* and the item it executed stays running for ever.                        *)
(*                                                                         *)
(* The queue is external: a FIFO of items of one priority, a count of      *)
(* running jobs and a cap on it (0 = none).  An item is the run that       *)
(* enqueued it and the step.                                               *)
(***************************************************************************)
EXTENDS Integers, Sequences, FiniteSets

CONSTANTS Run,             \* the runs that share the queue
          MaxSteps,        \* the most steps a run has
          max_concurrent   \* the cap of the queue, 0 = none

ASSUME QueueAssumption == MaxSteps \in Nat \ {0} /\ max_concurrent \in Nat /\ IsFiniteSet(Run)

VARIABLES
    total,     \* per run, its number of steps
    pc,        \* per run: "enqueue", "dequeue", "drained", "waiting", "executing", "done",
               \* "unwound"
    sent,      \* per run, the steps it has enqueued
    holds,     \* per run, the item it executes: <<>> or one item
    results,   \* per run, the results in processing order
    queue,     \* the items, the oldest first
    running    \* the running count of the queue

mq   == <<queue, running>>
vars == <<total, pc, sent, holds, results, mq>>

Item == [run : Run, step : 1 .. MaxSteps]

Init ==
    /\ total \in [Run -> 0 .. MaxSteps]     \* an empty flow is valid
    /\ pc = [r \in Run |-> "enqueue"]
    /\ sent = [r \in Run |-> 0]
    /\ holds = [r \in Run |-> <<>>]
    /\ results = [r \in Run |-> <<>>]
    /\ queue = <<>>
    /\ running = 0

Goto(r, l) == pc' = [pc EXCEPT ![r] = l]

-----------------------------------------------------------------------------

\* enqueue is awaited once for every step, before the first dequeue.
Enqueue(r) ==
    /\ pc[r] = "enqueue"
    /\ sent[r] < total[r]
    /\ sent' = [sent EXCEPT ![r] = @ + 1]
    /\ queue' = Append(queue, [run |-> r, step |-> sent[r] + 1])
    /\ UNCHANGED <<total, pc, holds, results, running>>

EndEnqueue(r) ==
    /\ pc[r] = "enqueue"
    /\ sent[r] = total[r]
    /\ Goto(r, "dequeue")
    /\ UNCHANGED <<total, sent, holds, results, mq>>

AtCap == max_concurrent > 0 /\ running >= max_concurrent

\* dequeue: the test of the cap and the count are one critical section.
dequeue(r) ==
    /\ pc[r] = "dequeue"
    /\ ~AtCap
    /\ queue # <<>>
    /\ queue' = Tail(queue)
    /\ running' = running + 1
    /\ holds' = [holds EXCEPT ![r] = <<Head(queue)>>]
    /\ Goto(r, "executing")
    /\ UNCHANGED <<total, sent, results>>

\* dequeue gave None.
DequeueNothing(r) ==
    /\ pc[r] = "dequeue"
    /\ AtCap \/ queue = <<>>
    /\ Goto(r, "drained")
    /\ UNCHANGED <<total, sent, holds, results, mq>>

\* The first of two reads, each on its own: is anything queued?
LookQueued(r) ==
    /\ pc[r] = "drained"
    /\ Goto(r, IF queue = <<>> THEN "waiting" ELSE "dequeue")
    /\ UNCHANGED <<total, sent, holds, results, mq>>

\* Mutant: an empty queue alone ends the loop.
LookRunningNot(r) ==
    /\ pc[r] = "waiting"
    /\ Goto(r, "done")
    /\ UNCHANGED <<total, sent, holds, results, mq>>

\* The second one: is anything running?
LookRunning(r) ==
    /\ pc[r] = "waiting"
    /\ Goto(r, IF running = 0 THEN "done" ELSE "dequeue")
    /\ UNCHANGED <<total, sent, holds, results, mq>>

\* Mutant: a failed job is not given back to the queue.
FinishLeaky(r, st) ==
    /\ pc[r] = "executing"
    /\ running' = IF st = "Completed" THEN running - 1 ELSE running
    /\ results' = [results EXCEPT ![r] = Append(@, [item |-> holds[r][1], status |-> st])]
    /\ holds' = [holds EXCEPT ![r] = <<>>]
    /\ Goto(r, IF Len(results[r]) + 1 >= total[r] THEN "done" ELSE "dequeue")
    /\ UNCHANGED <<total, sent, queue>>

\* The step was executed; complete or fail lowers the running count.
Finish(r, st) ==
    /\ pc[r] = "executing"
    /\ running' = running - 1
    /\ results' = [results EXCEPT ![r] = Append(@, [item |-> holds[r][1], status |-> st])]
    /\ holds' = [holds EXCEPT ![r] = <<>>]
    /\ Goto(r, IF Len(results[r]) + 1 >= total[r] THEN "done" ELSE "dequeue")
    /\ UNCHANGED <<total, sent, queue>>

\* The handler panics, or the future is dropped where the run awaits.
Unwind(r) ==
    /\ pc[r] \in {"enqueue", "dequeue", "drained", "executing"}
    /\ Goto(r, "unwound")
    /\ UNCHANGED <<total, sent, holds, results, mq>>

run_queued(r) ==
    \/ Enqueue(r) \/ EndEnqueue(r) \/ dequeue(r) \/ DequeueNothing(r)
    \/ LookQueued(r) \/ LookRunning(r)
    \/ \E st \in {"Completed", "Failed"} : Finish(r, st)

Next == \E r \in Run : run_queued(r) \/ Unwind(r)

Spec == Init /\ [][Next]_vars

\* Every task is polled and handlers end.
FairSpec == Spec /\ \A r \in Run : WF_vars(run_queued(r))

-----------------------------------------------------------------------------
(* Properties. *)

Labels == {"enqueue", "dequeue", "drained", "waiting", "executing", "done", "unwound"}

Result == [item : Item, status : {"Completed", "Failed"}]

TypeOK ==
    /\ total \in [Run -> 0 .. MaxSteps]
    /\ pc \in [Run -> Labels]
    /\ sent \in [Run -> 0 .. MaxSteps]
    /\ holds \in [Run -> {<<>>} \cup {<<x>> : x \in Item}]
    /\ results \in [Run -> Seq(Result)]
    /\ queue \in Seq(Item)
    /\ running \in 0 .. Cardinality(Run)

\* Where an item is: its positions in the queue, its holders, its results.
Places(x) ==
    {<<"queue", i>> : i \in {i \in DOMAIN queue : queue[i] = x}}
    \cup {<<"holds", r>> : r \in {r \in Run : holds[r] = <<x>>}}
    \cup (UNION {{<<"results", r, i>> : i \in {i \in DOMAIN results[r] : results[r][i].item = x}} :
                 r \in Run})

\* Whoever takes it, an enqueued step is queued, executed or reported, and
\* only one of these at a time: none is lost and none is executed twice.
EachStepOnce ==
    \A x \in Item : Cardinality(Places(x)) = IF x.step <= sent[x.run] THEN 1 ELSE 0

\* The running count is the number of steps taken and not marked, within the cap.
RunningCounted ==
    /\ running = Cardinality({r \in Run : holds[r] # <<>>})
    /\ max_concurrent > 0 => running <= max_concurrent

\* The steps of one run are executed in flow order by whoever takes them.
TakenInOrder ==
    \A r \in Run : \A i, j \in DOMAIN results[r] :
        i < j /\ results[r][i].item.run = results[r][j].item.run =>
            results[r][i].item.step < results[r][j].item.step

\* The items a run reports on.
Items(r) == {results[r][i].item : i \in DOMAIN results[r]}

Own(r) == [run : {r}, step : 1 .. total[r]]

\* A run returns with fewer results than it has steps only when its remaining
\* steps were taken and finished by other runs (one with an empty flow takes a
\* step too many): it never leaves a step of its own in the queue or at work.
ShortOnlyIfFinished ==
    \A r \in Run : pc[r] = "done" /\ Len(results[r]) < total[r] =>
        \A x \in Own(r) : \E o \in Run : x \in Items(o)

\* A run that had the queue to itself reports exactly its own steps.
AloneReportsOwn ==
    \A r \in Run :
        pc[r] = "done" /\ (\A o \in Run \ {r} : pc[o] = "enqueue" /\ sent[o] = 0)
            => Items(r) = Own(r)

\* Every item is in one place, the count of running jobs is right, the steps of
\* a run keep their order, and one that is alone reports what it was given.
Inv == TypeOK /\ EachStepOnce /\ RunningCounted /\ TakenInOrder /\ AloneReportsOwn

\* The item of a panicked step is neither queued nor ever marked.
LostItem == \E r \in Run : pc[r] = "unwound" /\ holds[r] # <<>>

\* Every run ends, unless a step of the queue was lost to a panic: its item
\* keeps the running count above 0, and whoever waits for that waits for ever.
RunsEnd == \A r \in Run : <>[](pc[r] \in {"done", "unwound"} \/ LostItem)

-----------------------------------------------------------------------------
(***************************************************************************)
(* The inductive invariant.                                                *)
(***************************************************************************)

\* Where a run is decides what it has sent and what it holds.  One that waits
\* has seen the queue without its steps, and they never come back.
Stages ==
    \A r \in Run :
        /\ sent[r] <= total[r]
        /\ pc[r] \notin {"enqueue", "unwound"} => sent[r] = total[r]
        /\ pc[r] = "enqueue" => results[r] = <<>>
        /\ pc[r] = "executing" => holds[r] # <<>>
        /\ holds[r] # <<>> => pc[r] \in {"executing", "unwound"}
        /\ pc[r] = "waiting" => \A i \in DOMAIN queue : queue[i].run # r

\* EachStepOnce, without counting.
Once ==
    \A x \in Item : IF x.step <= sent[x.run] THEN \E p \in Places(x) : Places(x) = {p}
                                             ELSE Places(x) = {}

\* x comes before y if they are steps of the same run.
Before(x, y) == x.run = y.run => x.step < y.step

\* First in, first out: of the steps of one run, those reported or at work come
\* before those queued, and a run reports in the order in which it took.
Ordered ==
    /\ \A i, j \in DOMAIN queue : i < j => Before(queue[i], queue[j])
    /\ \A r \in Run, i \in DOMAIN queue :
          /\ holds[r] # <<>> => Before(holds[r][1], queue[i])
          /\ \A k \in DOMAIN results[r] : Before(results[r][k].item, queue[i])
    /\ \A r \in Run : \A k \in DOMAIN results[r] :
          holds[r] # <<>> => Before(results[r][k].item, holds[r][1])
    /\ TakenInOrder

IInv ==
    /\ TypeOK
    /\ Stages
    /\ Once
    /\ Ordered
    /\ RunningCounted
    /\ ShortOnlyIfFinished

=============================================================================
