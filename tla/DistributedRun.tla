--------------------------- MODULE DistributedRun ---------------------------
(***************************************************************************)
(* run_distributed_dag: the coordinator submits the ready steps to the     *)
(* nodes of a majra fleet, one tokio task per node executes what it        *)
(* dequeues and sends the result over one unbounded channel, and the       *)
(* coordinator unlocks dependents as results arrive.  When it is done,     *)
(* cancelled or out of time it skips what has no result, signals the       *)
(* workers and awaits them.                                                *)
(*                                                                         *)
(* A handler that panics takes the worker of its node with it: the step    *)
(* stays in flight and the sender of that worker is dropped.  The caller   *)
(* may drop the future of the run: the workers are spawned tasks and stay. *)
(* run_distributed passes no cancellation token; the function takes one    *)
(* and is modelled with it.                                                *)
(*                                                                         *)
(* The fleet is external: it is a set of queued items per node.  All items *)
(* have one priority; dequeuing any item of the node covers the order, and *)
(* fleet_rebalance may move the queued items between nodes in any way.     *)
(* Items above N were left in the fleet by an earlier run.                 *)
(***************************************************************************)
EXTENDS DagBook

CONSTANTS Flows,     \* the flows a run may be started with
          Node,      \* the nodes a fleet may have
          Fleets,    \* the sets of nodes that may be registered
          leftover   \* how many items an earlier run left in the fleet

ASSUME FlowsAssumption == Flows \subseteq {f \in FlowDef : validate(f)}

ASSUME FleetAssumption == leftover \in Nat /\ IsFiniteSet(Node) /\ Fleets \subseteq SUBSET Node

VARIABLES
    flow,
    nodes,       \* the nodes registered with the fleet
    pc,          \* coordinator: "submit", "wait", "finish", "join", "done", "dropped"
    ready, ready_head, in_degree, failed,    \* as in run_dag
    in_flight,   \* submitted and not received
    results,
    queue,       \* per node, the queued items
    worker,      \* per node, where its worker task is
    item,        \* per node, the item its worker holds, 0 = none
    chan,        \* the result channel
    done,        \* the shutdown token of the workers
    begun,       \* history: the steps whose handler was invoked
    cancelled,
    clock        \* elapsed is "before" the timeout in ms, "at" it or "past" it

book  == <<ready, ready_head, in_degree, failed>>
fleet == <<queue, worker, item>>
env   == <<cancelled, clock>>
vars  == <<flow, nodes, pc, book, in_flight, results, fleet, chan, done, begun, env>>

Item == 1 .. N + leftover

Init ==
    /\ flow \in Flows
    /\ nodes \in Fleets
    /\ pc = "submit"
    /\ ready = InitReady(flow)
    /\ ready_head = 0
    /\ in_degree = InitDegree(flow)
    /\ failed = [s \in Step |-> FALSE]
    /\ in_flight = 0
    /\ results = <<>>
    /\ queue \in {q \in [Node -> SUBSET (N + 1 .. N + leftover)] :
                    \A x \in N + 1 .. N + leftover : \E n \in nodes :
                        x \in q[n] /\ \A m \in Node \ {n} : x \notin q[m]}
    /\ worker = [n \in Node |-> IF n \in nodes THEN "top" ELSE "none"]
    /\ item = [n \in Node |-> 0]
    /\ chan = <<>>
    /\ done = FALSE
    /\ begun = {}
    /\ cancelled = FALSE
    /\ clock = "before"

-----------------------------------------------------------------------------
(* The coordinator: submit or skip every ready step. *)

Take(s) ==
    /\ pc = "submit"
    /\ ready_head < Len(ready)
    /\ s = ready[ready_head + 1]
    /\ ready_head' = ready_head + 1

unlock_dependents(s) ==
    /\ in_degree' = UnlockDegree(flow, in_degree, s)
    /\ ready' = UnlockReady(flow, in_degree, ready, s)

SkipDepFailed(s) ==
    /\ Take(s)
    /\ DepFailed(flow, failed, s)
    /\ results' = Append(results, Skip(s, "dependency_failed"))
    /\ failed' = [failed EXCEPT ![s] = TRUE]
    /\ unlock_dependents(s)
    /\ UNCHANGED <<flow, nodes, pc, in_flight, fleet, chan, done, begun, env>>

SkipCondition(s) ==
    /\ Take(s)
    /\ ~DepFailed(flow, failed, s)
    /\ check_condition_false(flow, s, results)
    /\ results' = Append(results, Skip(s, "condition_not_met"))
    /\ unlock_dependents(s)
    /\ UNCHANGED <<flow, nodes, pc, failed, in_flight, fleet, chan, done, begun, env>>

\* Queued and running items of a node; an item lost to a panic stays running.
Load(n) == Cardinality(queue[n]) + IF item[n] # 0 THEN 1 ELSE 0

\* fleet_submit puts the step on a node with the least load.
fleet_submit(s, n) ==
    /\ n \in nodes
    /\ \A m \in nodes : Load(n) <= Load(m)
    /\ queue' = [queue EXCEPT ![n] = @ \cup {s}]

Submit(s, n) ==
    /\ Take(s)
    /\ ~DepFailed(flow, failed, s)
    /\ ~check_condition_false(flow, s, results)
    /\ fleet_submit(s, n)
    /\ in_flight' = in_flight + 1
    /\ UNCHANGED <<flow, nodes, pc, ready, in_degree, failed, results, worker, item, chan,
                   done, begun, env>>

\* There is no node to take the step.
Refuse(s) ==
    /\ Take(s)
    /\ ~DepFailed(flow, failed, s)
    /\ ~check_condition_false(flow, s, results)
    /\ nodes = {}
    /\ results' = Append(results, Fail(s, "no_fleet_node_available"))
    /\ failed' = [failed EXCEPT ![s] = TRUE]
    /\ unlock_dependents(s)
    /\ UNCHANGED <<flow, nodes, pc, in_flight, fleet, chan, done, begun, env>>

\* The test before a wait asks for more than timeout_ms elapsed milliseconds.
Stopped == cancelled \/ clock = "past"

\* Nothing is ready any more: stop, or wait for a result.
EndSubmit ==
    /\ pc = "submit"
    /\ ready_head = Len(ready)
    /\ pc' = IF Len(results) >= N \/ in_flight = 0 \/ Stopped THEN "finish" ELSE "wait"
    /\ UNCHANGED <<flow, nodes, book, in_flight, results, fleet, chan, done, begun, env>>

\* fleet_rebalance moves queued items from node to node.
fleet_rebalance ==
    queue' \in {q \in [Node -> SUBSET UNION {queue[n] : n \in Node}] :
                  /\ UNION {q[n] : n \in Node} = UNION {queue[n] : n \in Node}
                  /\ \A n, m \in Node : n # m => q[n] \cap q[m] = {}
                  /\ \A n \in Node \ nodes : q[n] = {}}

\* Mutant: results are taken to come in the order of submission.
ReceiveInOrder ==
    LET s == ready[Len(results) + 1] IN
    /\ pc = "wait"
    /\ chan # <<>>
    /\ chan' = Tail(chan)
    /\ in_flight' = in_flight - 1
    /\ results' = Append(results, Executed(s, Head(chan).status))
    /\ failed' = [failed EXCEPT ![s] = Head(chan).status # "Completed"]
    /\ unlock_dependents(s)
    /\ fleet_rebalance
    /\ pc' = "submit"
    /\ UNCHANGED <<flow, nodes, ready_head, worker, item, done, begun, env>>

\* A result arrives.  The result of an item of an earlier run has an id that
\* unlock_dependents does not know; it is counted and pushed all the same.
Receive ==
    /\ pc = "wait"
    /\ chan # <<>>
    /\ chan' = Tail(chan)
    /\ in_flight' = in_flight - 1
    /\ results' = Append(results, Head(chan))
    /\ failed' = [s \in Step |->
                    failed[s] \/ (s = Head(chan).step /\ Head(chan).status # "Completed")]
    /\ IF Head(chan).step \in Step
       THEN unlock_dependents(Head(chan).step)
       ELSE UNCHANGED <<in_degree, ready>>
    /\ fleet_rebalance
    /\ pc' = "submit"
    /\ UNCHANGED <<flow, nodes, ready_head, worker, item, done, begun, env>>

\* The workers that can still send: recv gives None once there is none.
Senders == {n \in nodes : worker[n] # "panicked"}

\* Mutant: the coordinator keeps a sender of its own, so recv never ends.
StopWaitingOwnSender ==
    /\ pc = "wait"
    /\ chan = <<>>
    /\ cancelled \/ clock # "before"
    /\ pc' = "finish"
    /\ UNCHANGED <<flow, nodes, book, in_flight, results, fleet, chan, done, begun, env>>

\* The select gave None: the token, the sleep of the remaining time, which
\* ends when the time is reached, or no worker left.  recv is polled first.
StopWaiting ==
    /\ pc = "wait"
    /\ chan = <<>>
    /\ cancelled \/ clock # "before" \/ Senders = {}
    /\ pc' = "finish"
    /\ UNCHANGED <<flow, nodes, book, in_flight, results, fleet, chan, done, begun, env>>

FinishReason ==
    IF cancelled THEN "cancelled"
    ELSE IF clock = "past" THEN "flow_timeout_exceeded"
    ELSE "not_scheduled"

\* Mutant: only the steps that became ready are skipped.
UnseenReady == {s \in Queued(ready) : s \notin Reported(results)}

\* The steps without a result.
Unseen == {s \in Step : s \notin Reported(results)}

Finish ==
    /\ pc = "finish"
    /\ results' = IF Len(results) < N
                  THEN results \o [i \in 1 .. Cardinality(Unseen) |->
                                     Skip(Ascending(Unseen)[i], FinishReason)]
                  ELSE results
    /\ done' = TRUE
    /\ pc' = "join"
    /\ UNCHANGED <<flow, nodes, book, in_flight, fleet, chan, begun, env>>

\* Mutant: the workers are signalled and not awaited.
JoinWorkersNot ==
    /\ pc = "join"
    /\ pc' = "done"
    /\ UNCHANGED <<flow, nodes, book, in_flight, results, fleet, chan, done, begun, env>>

JoinWorkers ==
    /\ pc = "join"
    /\ \A n \in nodes : worker[n] \in {"exited", "panicked"}
    /\ pc' = "done"
    /\ UNCHANGED <<flow, nodes, book, in_flight, results, fleet, chan, done, begun, env>>

Coordinator ==
    \/ EndSubmit \/ Receive \/ StopWaiting \/ Finish \/ JoinWorkers
    \/ \E s \in Step : SkipDepFailed(s) \/ SkipCondition(s) \/ Refuse(s)
    \/ \E s \in Step, n \in Node : Submit(s, n)

-----------------------------------------------------------------------------
(* The worker of a node. *)

LookAtDone(n) ==
    /\ worker[n] = "top"
    /\ ~done
    /\ worker' = [worker EXCEPT ![n] = "dequeue"]
    /\ UNCHANGED <<flow, nodes, pc, book, in_flight, results, queue, item, chan, done, begun, env>>

\* Before the dequeue, in the select with it, or while the worker sleeps.
Exit(n) ==
    /\ worker[n] \in {"top", "dequeue"}
    /\ done
    /\ worker' = [worker EXCEPT ![n] = "exited"]
    /\ UNCHANGED <<flow, nodes, pc, book, in_flight, results, queue, item, chan, done, begun, env>>

\* The token may have been cancelled since: the item is executed all the same.
dequeue(n, x) ==
    /\ worker[n] = "dequeue"
    /\ x \in queue[n]
    /\ queue' = [queue EXCEPT ![n] = @ \ {x}]
    /\ item' = [item EXCEPT ![n] = x]
    /\ worker' = [worker EXCEPT ![n] = "executing"]
    /\ begun' = begun \cup ({x} \cap Step)
    /\ UNCHANGED <<flow, nodes, pc, book, in_flight, results, chan, done, env>>

\* The queue is empty: sleep, unless the token comes first.
DequeueNothing(n) ==
    /\ worker[n] = "dequeue"
    /\ queue[n] = {}
    /\ worker' = [worker EXCEPT ![n] = "top"]
    /\ UNCHANGED <<flow, nodes, pc, book, in_flight, results, queue, item, chan, done, begun, env>>

\* The step is executed, the item is marked on its queue and the result sent;
\* the send fails, and the worker ends, once the coordinator is gone.
Deliver(n, st) ==
    /\ worker[n] = "executing"
    /\ chan' = IF pc = "dropped" THEN chan ELSE Append(chan, Executed(item[n], st))
    /\ item' = [item EXCEPT ![n] = 0]
    /\ worker' = [worker EXCEPT ![n] = IF pc = "dropped" THEN "exited" ELSE "top"]
    /\ UNCHANGED <<flow, nodes, pc, book, in_flight, results, queue, done, begun, env>>

\* The handler panics: the worker is gone and its item is never marked.
Panic(n) ==
    /\ worker[n] = "executing"
    /\ worker' = [worker EXCEPT ![n] = "panicked"]
    /\ UNCHANGED <<flow, nodes, pc, book, in_flight, results, queue, item, chan, done, begun, env>>

Worker(n) ==
    \/ LookAtDone(n) \/ Exit(n) \/ DequeueNothing(n) \/ Panic(n)
    \/ \E x \in Item : dequeue(n, x)
    \/ \E st \in {"Completed", "Failed"} : Deliver(n, st)

-----------------------------------------------------------------------------
(* The environment. *)

Ended == pc \in {"join", "done", "dropped"}

Cancel ==
    /\ ~cancelled
    /\ ~Ended
    /\ cancelled' = TRUE
    /\ UNCHANGED <<flow, nodes, pc, book, in_flight, results, fleet, chan, done, begun, clock>>

Tick ==
    /\ clock # "past"
    /\ ~Ended
    /\ clock' = IF clock = "before" THEN "at" ELSE "past"
    /\ UNCHANGED <<flow, nodes, pc, book, in_flight, results, fleet, chan, done, begun, cancelled>>

\* The caller drops the future of the run where it awaits a submission, a result,
\* the rebalancing behind one, or the end of a worker: `done` is not cancelled.
Abandon ==
    /\ pc \in {"submit", "wait", "join"}
    /\ pc' = "dropped"
    /\ UNCHANGED <<flow, nodes, book, in_flight, results, fleet, chan, done, begun, env>>

Next ==
    \/ Coordinator
    \/ \E n \in Node : Worker(n)
    \/ Cancel
    \/ Tick
    \/ Abandon

Spec == Init /\ [][Next]_vars

\* The runtime polls every task that can move, and handlers end.
FairSpec ==
    /\ Spec
    /\ WF_vars(Coordinator)
    /\ \A n \in Node : WF_vars(Worker(n))

-----------------------------------------------------------------------------
(* Properties. *)

Result == [step : Item, status : Status, reason : Reason]

TypeOK ==
    /\ flow \in Flows
    /\ nodes \in Fleets
    /\ pc \in {"submit", "wait", "finish", "join", "done", "dropped"}
    /\ ready \in Seq(Step) /\ ready_head \in 0 .. Len(ready)
    /\ in_degree \in [Step -> Nat]
    /\ failed \in [Step -> BOOLEAN]
    /\ in_flight \in 0 .. N
    /\ results \in Seq(Result) /\ chan \in Seq(Result)
    /\ queue \in [Node -> SUBSET Item]
    /\ worker \in [Node -> {"none", "top", "dequeue", "executing", "exited", "panicked"}]
    /\ item \in [Node -> Item \cup {0}]
    /\ done \in BOOLEAN /\ cancelled \in BOOLEAN
    /\ clock \in {"before", "at", "past"}
    /\ begun \subseteq Step

\* The steps that are queued, executed, lost to a panic or on their way back.
Outstanding ==
    (UNION {queue[n] : n \in Node}) \cup ({item[n] : n \in Node} \ {0})
        \cup {chan[i].step : i \in DOMAIN chan}

\* in_flight counts exactly the submitted steps that were not received: the
\* loop neither stops with work outstanding nor waits for work that is not.
InFlightIsOutstanding == pc # "dropped" => in_flight = Cardinality(Outstanding)

\* The doc of run_distributed_dag: "Returns one [`StepResult`] per step."
OneResultForEachStep ==
    pc = "done" => Len(results) = N /\ Reported(results) = Step

Passed(d) ==
    \E i \in DOMAIN results :
        /\ results[i].step = d
        /\ \/ results[i].status = "Completed"
           \/ results[i].reason = "condition_not_met"

\* A step is submitted only behind its dependencies, although the results
\* come in any order: all of them passed, or one for the trigger Any.
DependencyOrder ==
    \A s \in Step : s \in begun \/ s \in Outstanding =>
        IF flow.trigger[s] = "All"
        THEN \A d \in flow.deps[s] : Passed(d)
        ELSE \E d \in flow.deps[s] : Passed(d)

\* When the executor returns no worker of it is left: none still executes a
\* step, and none takes the items of a later run on the same fleet.
NoWorkerLeft == pc = "done" => \A n \in nodes : worker[n] \in {"exited", "panicked"}

Panicked == {n \in nodes : worker[n] = "panicked"}

\* A run whose workers lived and whose time was not reached reports no step
\* as "not_scheduled": whatever is never submitted is skipped for a reason.
NothingUnscheduled ==
    pc = "done" /\ Panicked = {} /\ clock = "before" =>
        \A i \in DOMAIN results : results[i].reason # "not_scheduled"

\* The state is well typed, the count of what is in flight is exact, nothing is
\* left unscheduled or submitted too early, and nothing is left at work in the end.
Inv == TypeOK /\ InFlightIsOutstanding /\ NothingUnscheduled /\ DependencyOrder /\ NoWorkerLeft

\* A lost step that nobody will report, with time and other workers left.
HeldUp == Panicked # {} /\ Senders # {} /\ ~cancelled /\ clock = "before"

\* Every run ends, unless a panic took one worker and left another one: then
\* the coordinator waits for the lost step until the flow times out.
Termination == <>[](pc \in {"done", "dropped"} \/ HeldUp)

Outcome ==
    [s \in Step |->
        IF s \in Reported(results)
        THEN results[CHOOSE i \in DOMAIN results : results[i].step = s].status
        ELSE "none"]

Contract == INSTANCE FlowContract
              WITH MayAbandon <- TRUE, outcome <- Outcome, returned <- (pc = "done")

\* run_distributed_dag keeps the contract of an executor that may abandon
\* steps on cancellation or timeout.
RefinesContract == Contract!Spec

-----------------------------------------------------------------------------
(***************************************************************************)
(* The inductive invariant, for a fleet that no earlier run left items on. *)
(***************************************************************************)

\* The coordinator still takes steps or may come back to it.
Open == pc \in {"submit", "wait", "finish"}

TakenSteps == {ready[k] : k \in 1 .. ready_head}

\* A step is in one place: one queue, one worker's hands or one message.
Apart ==
    /\ \A n, m \in Node : n # m => queue[n] \cap queue[m] = {}
    /\ \A n, m \in Node : item[n] # 0 => item[n] \notin queue[m] /\ (item[m] = item[n] => n = m)
    /\ \A i \in DOMAIN chan, n \in Node : chan[i].step \notin queue[n] /\ chan[i].step # item[n]
    /\ \A i, j \in DOMAIN chan : chan[i].step = chan[j].step => i = j

\* A worker holds an item while it executes it, and for ever if it panicked.
Hands ==
    \A n \in Node :
        /\ item[n] # 0 <=> worker[n] \in {"executing", "panicked"}
        /\ n \in nodes <=> worker[n] # "none"
        /\ n \notin nodes => queue[n] = {}

\* While the loop goes on, a step that was taken is either out or reported, and
\* the bookkeeping has unlocked from those reported.
Accounts ==
    Open => /\ BookInv(flow, in_degree, ready, Reported(results))
            /\ TakenSteps = Outstanding \cup Reported(results)
            /\ Outstanding \cap Reported(results) = {}
            /\ \A i \in DOMAIN results : /\ results[i].reason # "not_scheduled"
                                         /\ \/ results[i].reason = "condition_not_met"
                                            \/ results[i].status = "Completed"
                                            \/ failed[results[i].step]

OneResultPerStep ==
    \A i, j \in DOMAIN results : results[i].step = results[j].step => i = j

\* A handler is invoked once: not for what is queued, for all that left a queue.
BegunOnce ==
    /\ \A n \in Node : queue[n] \cap begun = {} /\ (item[n] # 0 => item[n] \in begun)
    /\ \A i \in DOMAIN chan : chan[i].step \in begun /\ chan[i].reason # "not_scheduled"
    /\ \A i \in DOMAIN results : results[i].status = "Completed" => results[i].step \in begun
    /\ Open => begun \subseteq TakenSteps

\* Why the loop waits, and why it stopped.
Motives ==
    /\ pc \in {"wait", "finish"} => ready_head = Len(ready)
    /\ pc = "wait" => in_flight # 0
    /\ pc = "finish" => \/ Len(results) >= N \/ in_flight = 0
                        \/ cancelled \/ clock # "before" \/ Panicked # {}

\* What Finish leaves behind.
Closed ==
    pc \in {"join", "done"} =>
        /\ Len(results) = N /\ Reported(results) = Step
        /\ Panicked = {} /\ clock = "before" =>
              \A i \in DOMAIN results : results[i].reason # "not_scheduled"

IInv ==
    /\ leftover = 0
    /\ TypeOK
    /\ Apart
    /\ Hands
    /\ InFlightIsOutstanding
    /\ Accounts
    /\ OneResultPerStep
    /\ BegunOnce
    /\ DependencyOrder
    /\ Motives
    /\ Closed
    /\ NoWorkerLeft
=============================================================================
