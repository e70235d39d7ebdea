------------------------------ MODULE EngineRun ------------------------------
(***************************************************************************)
(* The engine's run sequence: validate, announce and save a Running        *)
(* record, register the heartbeat, let an executor run the steps, roll     *)
(* back completed steps on failure, report, save the final record, drop    *)
(* the heartbeat guard.  run, run_with_cancellation and run_distributed    *)
(* share it and differ in what they persist and register.                  *)
(*                                                                         *)
(* Calls may be active at the same time; they run the same flow on one     *)
(* engine, so they share the flow's execution record and heartbeat entry,  *)
(* both keyed by the flow id.  The executor is a single step that returns  *)
(* any results the executors' own modules allow.  Steps are numbered in    *)
(* pre-order; `top` are those of the flow's own steps, the others are      *)
(* sub_steps of the nearest one before them.                               *)
(***************************************************************************)
EXTENDS FlowDefs, SpawnSink

CONSTANTS Call,    \* the calls of an entry point
          Setups   \* the engines and flows they may be made with

Entry == {"run", "cancellation", "distributed"}

\* Stands for the steps of other flows.
Foreign == 0

Ids == Step \cup {Foreign}

\* The parts of the configuration that the sequence looks at, the flow, the
\* calls that are made, whether a client removes the record meanwhile, and
\* whether the fleet of a distributed run has work of another run left.
Setup == [calls : SUBSET Call, queue : BOOLEAN, rollback_handler : BOOLEAN, used_fleet : BOOLEAN,
          store : {"none", "memory", "sql"}, remover : BOOLEAN,
          valid : BOOLEAN, mode : {"Sequential", "Parallel", "Dag", "Hierarchical"},
          top : SUBSET Step, rollbackable : SUBSET Step, rollback_on_failure : BOOLEAN]

ASSUME SetupsAssumption == Setups \subseteq Setup

\* No call has the name that stands for the absence of a record.
ASSUME CallAssumption == "nobody" \notin Call

VARIABLES
    setup, entry,  \* what this behaviour is about
    pc,            \* per call, where it is
    results,       \* per call, the <<step, status>> pairs the executor returned
    cancelled,     \* per call, was_cancelled
    undone,        \* per call, the rollbacks so far: the step and whether it was Ok
    all,           \* per call, all_rolled_back
    events,        \* per call, the flow events emitted
    answer,        \* per call, what it returns
    heartbeat,     \* the flow is registered with the tracker
    remover,       \* the client that removes the record: "idle", "send", "done"
    overlap        \* history: two clients were between mirror and channel

call == <<results, cancelled, undone, all, answer>>
vars == <<setup, entry, pc, call, events, heartbeat, remover, overlap, sink>>

NoAnswer == [kind |-> "none", success |-> FALSE, rolled_back |-> FALSE]

Init ==
    /\ setup \in Setups
    /\ entry \in {e \in [Call -> Entry] : \A c \in Call \ setup.calls : e[c] = "run"}
    /\ pc = [c \in Call |-> IF c \in setup.calls THEN "called" ELSE "done"]
    /\ results = [c \in Call |-> {}]
    /\ cancelled = [c \in Call |-> FALSE]
    /\ undone = [c \in Call |-> <<>>]
    /\ all = [c \in Call |-> FALSE]
    /\ events = [c \in Call |-> <<>>]
    /\ answer = [c \in Call |-> NoAnswer]
    /\ heartbeat = FALSE
    /\ remover = IF setup.remover THEN "idle" ELSE "done"
    /\ overlap = FALSE
    /\ SinkInit

-----------------------------------------------------------------------------
(* Which path a call takes. *)

Goto(c, l) == pc' = [pc EXCEPT ![c] = l]

\* Only run looks at the queue.
Queued(c) == setup.queue /\ entry[c] = "run"

\* validate, the mode test of run_distributed, the hardware check.
Accepted(c) == setup.valid /\ (entry[c] = "distributed" => setup.mode = "Dag")

PersistsStart(c) == setup.store # "none" /\ entry[c] # "cancellation"

\* Mutant: the distributed path forgets its final record.
PersistsEndRunOnly(c) == setup.store # "none" /\ entry[c] = "run" /\ ~Queued(c)

PersistsEnd(c) == setup.store # "none" /\ entry[c] # "cancellation" /\ ~Queued(c)

\* The steps the executor of the call walks.
Walked(c) ==
    IF setup.mode = "Hierarchical" /\ ~Queued(c) THEN Step ELSE setup.top

Around(s) == CHOOSE t \in setup.top : t <= s /\ \A u \in setup.top : u <= s => u <= t

\* One result for each step walked; a sub_step is executed only if the step
\* around it completed, and the queue path skips nothing.
OnePerStep(c) ==
    {{<<s, st[s]>> : s \in Walked(c)} : st \in
        {st \in [Walked(c) -> Status] : \A s \in Walked(c) :
            /\ s \notin setup.top /\ st[s] # "Skipped" => st[Around(s)] = "Completed"
            /\ Queued(c) => st[s] # "Skipped"}}

\* run_dag leaves out the steps still locked when it was stopped.
Stopped(c) ==
    IF setup.mode = "Dag" /\ entry[c] # "distributed" /\ ~Queued(c)
    THEN UNION {{{<<s, st[s]>> : s \in D} : st \in [D -> Status]} : D \in SUBSET setup.top}
    ELSE {}

\* Calls that share the queue execute each other's steps.
SharedQueue(c) ==
    {R \in SUBSET (setup.top \X {"Completed", "Failed"}) :
        R # {} /\ Cardinality(R) <= Cardinality(setup.top)}

\* On a fleet where another run left work, of this flow or of another, a result
\* of that work may come in as well; it counts towards the number that the
\* coordinator waits for, so steps may be missing.
UsedFleet(c) ==
    IF entry[c] = "distributed" /\ setup.used_fleet
    THEN UNION {{{<<s, st[s]>> : s \in D} \cup {<<f, left>>} : st \in [D -> Status]} :
                    D \in SUBSET setup.top,
                    f \in setup.top \cup {Foreign}, left \in {"Completed", "Failed"}}
    ELSE {}

ExecutorResults(c) ==
    IF Queued(c) /\ \E d \in setup.calls \ {c} : Queued(d)
    THEN SharedQueue(c)
    ELSE OnePerStep(c) \cup Stopped(c) \cup UsedFleet(c)

\* The executor of c comes back once its handlers did.  Two do not in every
\* case: the queue whose count of running items another call left behind when
\* it unwound is never seen idle again, and run_distributed waits for a worker
\* that panicked, for ever if the flow has no timeout.
ExecutorReturns(c) ==
    /\ entry[c] # "distributed"
    /\ Queued(c) => \A d \in setup.calls \ {c} :
                        ~(Queued(d) /\ pc[d] = "unwound" /\ results[d] = {})

HasFailures(c) == \E s \in Ids : <<s, "Failed">> \in results[c]

\* completed_steps: the rollbackable ones of the flow's own steps.
ToUndo(c) == {s \in setup.top \cap setup.rollbackable : <<s, "Completed">> \in results[c]}

Undone(c) == {undone[c][i].step : i \in DOMAIN undone[c]}

-----------------------------------------------------------------------------
(* Saving a record. *)

\* final_state.
FinalState(c) ==
    IF all[c] THEN "RolledBack"
    ELSE IF HasFailures(c) THEN "Failed"
    ELSE "Completed"

Sending == {"send_start", "send_end"}

\* Someone has changed the mirror and not yet sent the write.
InBetween == remover = "send" \/ \E c \in Call : pc[c] \in Sending

\* ExecutionStore::save by call c, whose next label is l; the in-memory store
\* keeps its records in what stands for the mirror, and is done with that.
save(c, state, label, l) ==
    /\ mirror_insert([state |-> state, by |-> c])
    /\ Goto(c, IF setup.store = "sql" THEN label ELSE l)
    /\ overlap' = (overlap \/ (setup.store = "sql" /\ InBetween))
    /\ UNCHANGED <<chan, db, faults>>

-----------------------------------------------------------------------------
(* The sequence. *)

\* The call returns an Err before anything happened.
Reject(c) ==
    /\ pc[c] = "called"
    /\ ~Accepted(c)
    /\ answer' = [answer EXCEPT ![c].kind = "Err"]
    /\ Goto(c, "done")
    /\ UNCHANGED <<setup, entry, results, cancelled, undone, all, events, heartbeat, remover,
                   overlap, sink>>

\* flow_started, the Running record and the metric.
Start(c) ==
    /\ pc[c] = "called"
    /\ Accepted(c)
    /\ events' = [events EXCEPT ![c] = <<"flow_started">>]
    /\ IF PersistsStart(c)
       THEN save(c, "Running", "send_start", "register")
       ELSE Goto(c, "register") /\ UNCHANGED <<overlap, sink>>
    /\ UNCHANGED <<setup, entry, call, heartbeat, remover>>

\* The write of the record that c put in the mirror is sent.
Send(c) ==
    /\ pc[c] \in Sending
    /\ \/ /\ pc[c] = "send_start"
          /\ send([state |-> "Running", by |-> c])
          /\ Goto(c, "register")
       \/ /\ pc[c] = "send_end"
          /\ send([state |-> FinalState(c), by |-> c])
          /\ Goto(c, "drop_guard")
    /\ UNCHANGED <<setup, entry, call, events, heartbeat, remover, overlap, mirror, db, faults>>

\* start_heartbeat; run_distributed has none.
start_heartbeat(c) ==
    /\ pc[c] = "register"
    /\ heartbeat' = (heartbeat \/ entry[c] # "distributed")
    /\ Goto(c, "execute")
    /\ UNCHANGED <<setup, entry, call, events, remover, overlap, sink>>

\* The executor returns R; was_cancelled needs the token and a skipped step.
Execute(c) ==
    /\ pc[c] = "execute"
    /\ \E R \in ExecutorResults(c), wc \in BOOLEAN :
          /\ wc => entry[c] = "cancellation" /\ \E x \in R : x[2] = "Skipped"
          /\ results' = [results EXCEPT ![c] = R]
          /\ cancelled' = [cancelled EXCEPT ![c] = wc]
    /\ Goto(c, "finalize")
    /\ UNCHANGED <<setup, entry, undone, all, events, answer, heartbeat, remover, overlap, sink>>

\* Whether the run rolls back, and the start of that loop.
BeginRollback(c) ==
    /\ pc[c] = "finalize"
    /\ LET rolls == HasFailures(c) /\ setup.rollback_on_failure /\ setup.rollback_handler
       IN /\ all' = [all EXCEPT ![c] = rolls]
          /\ Goto(c, IF rolls THEN "rollback" ELSE "report")
    /\ UNCHANGED <<setup, entry, results, cancelled, undone, events, answer, heartbeat, remover,
                   overlap, sink>>

\* Mutant: the loop ends with the first rollback that fails.
RollbackStepBreak(c, s, ok) ==
    /\ pc[c] = "rollback"
    /\ s \in ToUndo(c) \ Undone(c)
    /\ \A u \in ToUndo(c) \ Undone(c) : u <= s
    /\ undone' = [undone EXCEPT ![c] = Append(@, [step |-> s, ok |-> ok])]
    /\ all' = [all EXCEPT ![c] = @ /\ ok]
    /\ Goto(c, IF ok THEN "rollback" ELSE "report")
    /\ UNCHANGED <<setup, entry, results, cancelled, events, answer, heartbeat, remover, overlap, sink>>

\* The rollback handler is called for the last completed step not yet undone.
RollbackStep(c, s, ok) ==
    /\ pc[c] = "rollback"
    /\ s \in ToUndo(c) \ Undone(c)
    /\ \A u \in ToUndo(c) \ Undone(c) : u <= s
    /\ undone' = [undone EXCEPT ![c] = Append(@, [step |-> s, ok |-> ok])]
    /\ all' = [all EXCEPT ![c] = @ /\ ok]
    /\ UNCHANGED <<setup, entry, pc, results, cancelled, events, answer, heartbeat, remover, overlap, sink>>

EndRollback(c) ==
    /\ pc[c] = "rollback"
    /\ ToUndo(c) \subseteq Undone(c)
    /\ Goto(c, "report")
    /\ UNCHANGED <<setup, entry, call, events, heartbeat, remover, overlap, sink>>

\* rolled_back, once the rollback is over.
RolledBack(c) == all[c]

Success(c) == ~HasFailures(c) /\ ~cancelled[c]

\* The reason in flow_failed; the queue path always says "failed".
FailReason(c) ==
    IF Queued(c) THEN "failed"
    ELSE IF cancelled[c] THEN "cancelled"
    ELSE IF RolledBack(c) THEN "rolled_back"
    ELSE "failed"

\* Mutant: a flow that was rolled back is not reported as failed any more.
TerminalEventsOr(c) ==
    IF Success(c) THEN <<"flow_completed">>
    ELSE IF RolledBack(c) THEN <<"flow_rolled_back">>
    ELSE <<FailReason(c)>>

TerminalEvents(c) ==
    IF Success(c) THEN <<"flow_completed">>
    ELSE (IF RolledBack(c) THEN <<"flow_rolled_back">> ELSE <<>>) \o <<FailReason(c)>>

\* The terminal events, the metric and the FlowResult.
Report(c) ==
    /\ pc[c] = "report"
    /\ events' = [events EXCEPT ![c] = @ \o TerminalEvents(c)]
    /\ answer' = [answer EXCEPT ![c] =
                    [kind |-> "Ok", success |-> Success(c), rolled_back |-> RolledBack(c)]]
    /\ Goto(c, IF PersistsEnd(c) THEN "persist" ELSE "drop_guard")
    /\ UNCHANGED <<setup, entry, results, cancelled, undone, all, heartbeat, remover, overlap, sink>>

Persist(c) ==
    /\ pc[c] = "persist"
    /\ save(c, FinalState(c), "send_end", "drop_guard")
    /\ UNCHANGED <<setup, entry, call, events, heartbeat, remover>>

\* The drop of the guard deregisters the flow, whoever registered it.
drop_guard(c) ==
    /\ pc[c] = "drop_guard"
    /\ heartbeat' = (heartbeat /\ entry[c] = "distributed")
    /\ Goto(c, "done")
    /\ UNCHANGED <<setup, entry, call, events, remover, overlap, sink>>

\* A handler panics, or the caller drops the future while the steps or the
\* rollback execute: the guard is dropped, and nothing else is done.
Unwind(c) ==
    /\ pc[c] \in {"execute", "rollback"}
    /\ heartbeat' = (heartbeat /\ entry[c] = "distributed")
    /\ Goto(c, "unwound")
    /\ UNCHANGED <<setup, entry, call, events, remover, overlap, sink>>

run(c) ==
    \/ Reject(c) \/ Start(c) \/ Send(c) \/ start_heartbeat(c) \/ BeginRollback(c)
    \/ Execute(c) \/ EndRollback(c) \/ Report(c) \/ Persist(c) \/ drop_guard(c)
    \/ \E s \in Step, ok \in BOOLEAN : RollbackStep(c, s, ok)

-----------------------------------------------------------------------------
(* The store's other clients, its background task, and the end of the process. *)

\* Mutant: a removal is only made in the mirror.
RemoveMirrorOnly ==
    /\ remover = "idle"
    /\ mirror_remove
    /\ remover' = "done"
    /\ UNCHANGED <<setup, entry, pc, call, events, heartbeat, overlap, chan, db, faults>>

\* ExecutionStore::remove: what the mirror does not hold is not deleted.
Remove ==
    /\ remover = "idle"
    /\ mirror_remove
    /\ remover' = IF mirror = NoRecord \/ setup.store # "sql" THEN "done" ELSE "send"
    /\ overlap' = (overlap \/ (remover' = "send" /\ InBetween))
    /\ UNCHANGED <<setup, entry, pc, call, events, heartbeat, chan, db, faults>>

SendDelete ==
    /\ remover = "send"
    /\ send(NoRecord)
    /\ remover' = "done"
    /\ UNCHANGED <<setup, entry, pc, call, events, heartbeat, overlap, mirror, db, faults>>

Write(i, ok) ==
    /\ write_op(i, ok)
    /\ UNCHANGED <<setup, entry, pc, call, events, heartbeat, remover, overlap>>

\* The process dies and another one starts: calls not yet made are made there,
\* and no run is resumed.
Crash ==
    /\ setup.store = "sql"
    /\ "crash" \notin faults
    /\ sink_crash
    /\ pc' = [c \in Call |-> IF pc[c] \in {"called", "done", "unwound"} THEN pc[c] ELSE "crashed"]
    /\ heartbeat' = FALSE
    /\ remover' = IF remover = "send" THEN "done" ELSE remover
    /\ UNCHANGED <<setup, entry, call, events, overlap>>

Next ==
    \/ \E c \in Call : run(c) \/ Unwind(c)
    \/ Remove \/ SendDelete
    \/ \E i \in DOMAIN chan, ok \in BOOLEAN : Write(i, ok)
    \/ Crash

Spec == Init /\ [][Next]_vars

\* The runtime polls every run, every client that is about to send and the
\* background task; handlers and queries end, and executors where they must.
FairSpec ==
    /\ Spec
    /\ \A c \in Call : WF_vars((pc[c] = "execute" => ExecutorReturns(c)) /\ run(c))
    /\ WF_vars(SendDelete)
    /\ WF_vars(\E i \in DOMAIN chan, ok \in BOOLEAN : Write(i, ok))

-----------------------------------------------------------------------------
(* Properties. *)

Labels == {"called", "send_start", "register", "execute", "finalize", "rollback", "report",
           "persist", "send_end", "drop_guard", "done", "unwound", "crashed"}

FlowEvent == {"flow_started", "flow_completed", "flow_rolled_back",
              "failed", "cancelled", "rolled_back"}

Final == {"Completed", "Failed", "RolledBack"}

Record == [state : Final \cup {"Running"}, by : Call] \cup {NoRecord}

TypeOK ==
    /\ setup \in Setup
    /\ entry \in [Call -> Entry]
    /\ pc \in [Call -> Labels]
    /\ results \in [Call -> SUBSET (Ids \X Status)]
    /\ cancelled \in [Call -> BOOLEAN]
    /\ undone \in [Call -> Seq([step : Step, ok : BOOLEAN])]
    /\ all \in [Call -> BOOLEAN]
    /\ events \in [Call -> Seq(FlowEvent)]
    /\ answer \in [Call -> [kind : {"none", "Ok", "Err"}, success : BOOLEAN, rolled_back : BOOLEAN]]
    /\ heartbeat \in BOOLEAN
    /\ remover \in {"idle", "send", "done"}
    /\ mirror \in Record /\ db \in Record /\ chan \in Seq(Record)
    /\ faults \subseteq {"db_error", "crash"}

Over(c) == pc[c] \in {"done", "unwound", "crashed"}

AtRest == \A c \in Call : Over(c)

Finished(c) == answer[c].kind = "Ok"

MayRollBack(c) == HasFailures(c) /\ setup.rollback_on_failure /\ setup.rollback_handler

\* Rollbacks come last step first and each step once; only a failed run has
\* them.  When a run that may roll back is over, all its completed rollbackable
\* steps were tried, those behind a failed rollback too, and rolled_back is
\* claimed exactly if none of them failed.
RollbackOrder ==
    \A c \in Call :
        /\ \A i, j \in DOMAIN undone[c] : i < j => undone[c][i].step > undone[c][j].step
        /\ Undone(c) \subseteq ToUndo(c)
        /\ undone[c] # <<>> => HasFailures(c)
        /\ Finished(c) /\ MayRollBack(c) => Undone(c) = ToUndo(c)
        /\ Finished(c) =>
              (answer[c].rolled_back <=> MayRollBack(c) /\ \A i \in DOMAIN undone[c] : undone[c][i].ok)

\* FlowResult, events and record tell the same story.  success goes with
\* flow_completed and nothing else, rolled_back with flow_rolled_back before
\* the failure, and a final state, in the mirror or in the table, with both.
OutputsAgree ==
    \A c \in Call : Finished(c) =>
        /\ answer[c].success <=> events[c] = <<"flow_started", "flow_completed">>
        /\ answer[c].rolled_back <=> (Len(events[c]) = 3 /\ events[c][2] = "flow_rolled_back")
        /\ ~answer[c].success =>
              events[c][Len(events[c])] \in {"failed", "cancelled", "rolled_back"}
        /\ \A r \in {mirror, db} : r.by = c /\ r.state # "Running" =>
              /\ r.state = "Completed" <=> answer[c].success
              /\ r.state = "RolledBack" <=> answer[c].rolled_back

\* When every call is over the record is a final one, unless the last one to
\* save took the queue path, panicked or was dropped; the heartbeat entry is gone.
NothingLeftBehind ==
    AtRest =>
        /\ mirror.state = "Running" => Queued(mirror.by) \/ pc[mirror.by] = "unwound"
        /\ ~heartbeat

\* A call that was refused left no trace: no event, no record of its own.
RefusedIsSilent ==
    \A c \in Call : answer[c].kind = "Err" => events[c] = <<>> /\ mirror.by # c

\* A local run alone on its flow is seen by the tracker while its steps execute.
SeenWhileRunning ==
    \A c \in Call :
        /\ pc[c] \in {"execute", "finalize", "rollback", "report"}
        /\ setup.calls = {c} /\ entry[c] # "distributed"
        => heartbeat

\* The state is well typed, refusals are silent, a run is seen alive, and what it
\* left behind in the end is as it should be.
Inv == TypeOK /\ RefusedIsSilent /\ SeenWhileRunning /\ NothingLeftBehind

\* Once the background task caught up, the table holds what readers of the
\* mirror see, unless a write failed, the process died, or two clients
\* were between mirror and channel at the same time.
Durable ==
    /\ setup.store = "sql" /\ chan = <<>> /\ ~InBetween
    /\ faults = {} /\ ~overlap
    => db = mirror

\* The comment on SpawnSink: "a flow's `Running` save must not overwrite its
\* later `Completed` save", whatever fails and whoever else saves.
DbForward ==
    [][db.state \in Final /\ db'.state = "Running" => db'.by # db.by]_vars

\* Every write is applied or logged as an error, and every call ends, but for one
\* whose executor may wait for ever: on a queue where a call that unwound left an
\* item running, or in a distributed run, which a worker's panic holds up.
CallsEnd ==
    <>[](/\ chan = <<>>
         /\ \A c \in Call : Over(c) \/ (pc[c] = "execute" /\ ~ExecutorReturns(c)))

\* The comment on with_execution_store: the engine saves a record "at flow start
\* (state `Running`) and flow end (state `Completed`, `Failed`, or `RolledBack`)".
\* Of run, which saves the Running record on every path.
FinalRecordSaved ==
    \A c \in Call : pc[c] = "done" /\ Finished(c) /\ entry[c] = "run" /\ setup.store # "none" =>
        mirror.state \in Final

-----------------------------------------------------------------------------
(***************************************************************************)
(* The inductive invariant.  A call's own state follows from where it is;  *)
(* a record, wherever it is on its way to the table, tells the truth about *)
(* the call that saved it.                                                 *)
(***************************************************************************)
Working == {"send_start", "register", "execute", "finalize", "rollback", "report"}

Story(c) ==
    /\ c \notin setup.calls => pc[c] = "done"
    /\ pc[c] = "called" => events[c] = <<>>
    /\ pc[c] \in Working => events[c] = <<"flow_started">>
    /\ pc[c] \in Working \cup {"called"} => answer[c] = NoAnswer
    /\ pc[c] \in {"persist", "send_end", "drop_guard"} => Finished(c)
    /\ pc[c] = "send_start" => PersistsStart(c)
    /\ pc[c] \in {"persist", "send_end"} => PersistsEnd(c)
    /\ answer[c].kind = "Err" => events[c] = <<>> /\ pc[c] = "done"
    /\ cancelled[c] => entry[c] = "cancellation"
    /\ Finished(c) =>
          /\ events[c] = <<"flow_started">> \o TerminalEvents(c)
          /\ answer[c] = [kind |-> "Ok", success |-> Success(c), rolled_back |-> RolledBack(c)]

UndoneFirst(c) ==
    /\ \A i, j \in DOMAIN undone[c] : i < j => undone[c][i].step > undone[c][j].step
    /\ Undone(c) \subseteq ToUndo(c)
    /\ \A u \in ToUndo(c) \ Undone(c), v \in Undone(c) : u < v

Rollback(c) ==
    /\ UndoneFirst(c)
    /\ undone[c] # <<>> => MayRollBack(c)
    /\ pc[c] \in (Working \cup {"called"}) \ {"rollback", "report"} => undone[c] = <<>>
    /\ pc[c] = "rollback" => MayRollBack(c)
    /\ pc[c] \in {"rollback", "report"} \/ Finished(c) =>
          (all[c] <=> MayRollBack(c) /\ \A i \in DOMAIN undone[c] : undone[c][i].ok)
    /\ pc[c] = "report" \/ Finished(c) => (MayRollBack(c) => ToUndo(c) \subseteq Undone(c))

Guarded == {"execute", "finalize", "rollback", "report", "persist", "send_end", "drop_guard"}

\* The guard of a local run that registered the flow is still to be dropped.
Beats == heartbeat => \E c \in Call : entry[c] # "distributed" /\ pc[c] \in Guarded

\* A record is that of a call that persists, and a final one says what it answers.
Truthful(r) ==
    r # NoRecord =>
        /\ r.by \in Call
        /\ PersistsStart(r.by)
        /\ events[r.by] # <<>>
        /\ r.state # "Running" => Finished(r.by) /\ r.state = FinalState(r.by)

\* Where a call is whose last save was that of its Running record.
Unsaved == Working \cup {"persist", "unwound"}

Records ==
    /\ Truthful(mirror) /\ Truthful(db)
    /\ \A i \in DOMAIN chan : Truthful(chan[i])
    /\ mirror.state = "Running" =>
          Queued(mirror.by) \/ pc[mirror.by] \in Unsaved

\* s is the final record of the call whose Running record r is.
Later(r, s) == r.state = "Running" /\ s.state \in Final /\ s.by = r.by

\* No Running record is on its way behind a final one of its call.
InOrder ==
    /\ \A j \in DOMAIN chan : ~Later(chan[j], db)
    /\ \A i, j \in DOMAIN chan : i < j => ~Later(chan[j], chan[i])

\* The last write sent; the one that a call in between is about to send.
LastWrite == IF chan = <<>> THEN db ELSE chan[Len(chan)]

ToSend(c) == [state |-> IF pc[c] = "send_start" THEN "Running" ELSE FinalState(c), by |-> c]

\* As long as nothing failed and nobody overlapped, the mirror is what the last
\* write sent says, or what the only client in between is about to send.
Pending ==
    setup.store = "sql" /\ faults = {} /\ ~overlap =>
        /\ ~InBetween => mirror = LastWrite
        /\ remover = "send" => mirror = NoRecord
        /\ \A c \in Call : pc[c] \in Sending =>
              /\ mirror = ToSend(c) /\ remover # "send"
              /\ \A d \in Call : pc[d] \in Sending => d = c

IInv ==
    /\ TypeOK
    /\ \A c \in Call : Story(c) /\ Rollback(c)
    /\ Beats
    /\ SeenWhileRunning
    /\ Records
    /\ InOrder
    /\ Pending

=============================================================================
