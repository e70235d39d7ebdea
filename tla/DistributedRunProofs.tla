------------------------ MODULE DistributedRunProofs ------------------------
(***************************************************************************)
(* run_distributed_dag, for every number of steps, every valid flow and    *)
(* every fleet on which no earlier run left items: IInv is inductive, the  *)
(* safety properties follow, and the executor keeps its contract.          *)
(***************************************************************************)
EXTENDS DistributedRun, DagBookProofs, SequenceTheorems

(***************************************************************************)
(* What is where.                                                          *)
(***************************************************************************)

LEMMA FlowValid == ASSUME TypeOK PROVE flow \in FlowDef /\ validate(flow)
BY FlowsAssumption DEF TypeOK

\* On a clean fleet every item is a step of this run.
LEMMA Clean == ASSUME leftover = 0 PROVE Item = Step /\ Result = StepResult
<1>1. Item = Step
  BY NAssumption DEF Item, Step
<1> QED
  BY <1>1 DEF Result, StepResult

\* The types as the proofs use them.
LEMMA Typed ==
  ASSUME IInv
  PROVE  /\ N \in Nat /\ Step \subseteq Nat /\ 0 \notin Step
         /\ flow \in FlowDef /\ validate(flow)
         /\ ready \in Seq(Step) /\ Len(ready) \in Nat /\ DOMAIN ready = 1 .. Len(ready)
         /\ ready_head \in 0 .. Len(ready) /\ ready_head \in Nat
         /\ in_degree \in [Step -> Nat] /\ failed \in [Step -> BOOLEAN] /\ in_flight \in 0 .. N
         /\ results \in Seq(StepResult) /\ Len(results) \in Nat /\ DOMAIN results = 1 .. Len(results)
         /\ \A i \in DOMAIN results : results[i] \in StepResult /\ results[i].step \in Step
         /\ chan \in Seq(StepResult) /\ Len(chan) \in Nat /\ DOMAIN chan = 1 .. Len(chan)
         /\ \A i \in DOMAIN chan : chan[i] \in StepResult /\ chan[i].step \in Step
         /\ queue \in [Node -> SUBSET Step] /\ item \in [Node -> Step \cup {0}]
         /\ worker \in [Node -> {"none", "top", "dequeue", "executing", "exited", "panicked"}]
         /\ nodes \subseteq Node /\ begun \subseteq Step
<1>0. leftover = 0 /\ TypeOK
  BY DEF IInv
<1>1. N \in Nat /\ Step \subseteq Nat /\ 0 \notin Step
  BY NAssumption DEF Step
<1>2. /\ ready \in Seq(Step) /\ ready_head \in 0 .. Len(ready)
      /\ in_degree \in [Step -> Nat] /\ failed \in [Step -> BOOLEAN] /\ in_flight \in 0 .. N
      /\ results \in Seq(StepResult) /\ chan \in Seq(StepResult)
      /\ queue \in [Node -> SUBSET Step] /\ item \in [Node -> Step \cup {0}]
      /\ worker \in [Node -> {"none", "top", "dequeue", "executing", "exited", "panicked"}]
      /\ begun \subseteq Step
  BY <1>0, Clean DEF TypeOK
<1>3. Len(ready) \in Nat /\ DOMAIN ready = 1 .. Len(ready) /\ ready_head \in Nat
  <2>1. Len(ready) \in Nat /\ DOMAIN ready = 1 .. Len(ready)
    BY <1>2, LenProperties
  <2> QED
    BY <1>2, <2>1
<1>4. \A r \in StepResult : r.step \in Step
  BY DEF StepResult
<1>5. /\ Len(results) \in Nat /\ DOMAIN results = 1 .. Len(results)
      /\ \A i \in DOMAIN results : results[i] \in StepResult
  BY <1>2, LenProperties, ElementOfSeq
<1>6. /\ Len(chan) \in Nat /\ DOMAIN chan = 1 .. Len(chan)
      /\ \A i \in DOMAIN chan : chan[i] \in StepResult
  BY <1>2, LenProperties, ElementOfSeq
<1>7. nodes \subseteq Node
  BY <1>0, FleetAssumption DEF TypeOK
<1> QED
  BY <1>0, <1>1, <1>2, <1>3, <1>4, <1>5, <1>6, <1>7, FlowValid

LEMMA InOutstanding ==
  ASSUME NEW x
  PROVE  x \in Outstanding <=> \/ \E n \in Node : x \in queue[n]
                               \/ \E n \in Node : item[n] = x /\ x # 0
                               \/ \E i \in DOMAIN chan : chan[i].step = x
BY DEF Outstanding

LEMMA OutstandingSteps ==
  ASSUME IInv
  PROVE  /\ Outstanding \subseteq Step
         /\ IsFiniteSet(Outstanding) /\ Cardinality(Outstanding) \in Nat
<1>1. Outstanding \subseteq Step
  <2> SUFFICES ASSUME NEW x \in Outstanding PROVE x \in Step
    OBVIOUS
  <2>1. /\ \A n \in Node : queue[n] \subseteq Step /\ item[n] \in Step \cup {0}
        /\ \A i \in DOMAIN chan : chan[i].step \in Step
    BY Typed
  <2> QED
    BY <2>1, InOutstanding
<1> QED
  BY <1>1, StepFinite

\* The steps and the step behind them, on the queue.
LEMMA NextIsFresh ==
  ASSUME IInv, NEW s \in Step, Take(s)
  PROVE  /\ s \in Queued(ready) /\ s \notin TakenSteps
         /\ s \notin Outstanding /\ s \notin Reported(results) /\ s \notin begun
         /\ ready_head' \in 1 .. Len(ready)
         /\ \A k \in 1 .. ready_head : k \in 1 .. ready_head'
         /\ \A k \in 1 .. ready_head' : k \in 1 .. ready_head \/ k = ready_head'
         /\ ready_head' \in 1 .. ready_head' /\ ready[ready_head'] = s
<1>1. /\ ready \in Seq(Step) /\ ready_head \in Nat /\ ready_head < Len(ready) /\ Len(ready) \in Nat
      /\ DOMAIN ready = 1 .. Len(ready) /\ s = ready[ready_head + 1] /\ ready_head' = ready_head + 1
      /\ Open
  BY Typed DEF Take, Open
<1>2. ready_head + 1 \in DOMAIN ready
  BY <1>1
<1>3. s \notin TakenSteps
  <2> SUFFICES ASSUME NEW k \in 1 .. ready_head, ready[k] = s PROVE FALSE
    BY DEF TakenSteps
  <2>1. k \in DOMAIN ready /\ k # ready_head + 1
    BY <1>1, <1>2
  <2> QED
    BY <1>1, <1>2, <2>1 DEF IInv, Accounts, BookInv
<1>4. s \notin Outstanding /\ s \notin Reported(results) /\ s \notin begun
  BY <1>1, <1>3 DEF IInv, Accounts, BegunOnce
<1>5. s \in Queued(ready)
  BY <1>1, <1>2 DEF Queued
<1>6. /\ ready_head' \in 1 .. Len(ready)
      /\ \A k \in 1 .. ready_head : k \in 1 .. ready_head'
      /\ \A k \in 1 .. ready_head' : k \in 1 .. ready_head \/ k = ready_head'
      /\ ready_head' \in 1 .. ready_head'
  BY <1>1
<1> QED
  BY <1>1, <1>3, <1>4, <1>5, <1>6

\* One result more.
LEMMA ResultPushed ==
  ASSUME IInv, NEW r \in StepResult, results' = Append(results, r)
  PROVE  /\ results' \in Seq(StepResult) /\ Len(results') = Len(results) + 1
         /\ DOMAIN results' = 1 .. Len(results) + 1
         /\ \A i \in DOMAIN results : i \in DOMAIN results' /\ results'[i] = results[i]
         /\ \A i \in DOMAIN results' : i \in DOMAIN results \/ i = Len(results) + 1
         /\ Len(results) + 1 \in DOMAIN results' /\ results'[Len(results) + 1] = r
         /\ Reported(results') = Reported(results) \cup {r.step}
<1>1. results \in Seq(StepResult) /\ Len(results) \in Nat /\ DOMAIN results = 1 .. Len(results)
  BY Typed
<1>2. /\ results' \in Seq(StepResult) /\ Len(results') = Len(results) + 1
      /\ DOMAIN results' = 1 .. Len(results) + 1
      /\ \A i \in 1 .. Len(results) : results'[i] = results[i]
      /\ results'[Len(results) + 1] = r
  BY <1>1, AppendProperties, LenProperties
<1>3. /\ \A i \in DOMAIN results : i \in DOMAIN results'
      /\ \A i \in DOMAIN results' : i \in DOMAIN results \/ i = Len(results) + 1
      /\ Len(results) + 1 \in DOMAIN results'
  BY <1>1, <1>2
<1>4. Reported(results') \subseteq Reported(results) \cup {r.step}
  BY <1>1, <1>2, <1>3 DEF Reported
<1>5. Reported(results) \cup {r.step} \subseteq Reported(results')
  BY <1>1, <1>2, <1>3 DEF Reported
<1> QED
  BY <1>1, <1>2, <1>3, <1>4, <1>5


(***************************************************************************)
(* Frames.                                                                 *)
(***************************************************************************)

\* The fleet and the channel are left alone.
LEMMA FleetSame ==
  ASSUME IInv, nodes' = nodes, queue' = queue, worker' = worker, item' = item, chan' = chan
  PROVE  Outstanding' = Outstanding /\ Apart' /\ Hands' /\ Panicked' = Panicked
<1>1. Outstanding' = Outstanding
  BY DEF Outstanding
<1>2. Apart'
  BY DEF IInv, Apart
<1>3. Hands'
  BY DEF IInv, Hands
<1> QED
  BY <1>1, <1>2, <1>3 DEF Panicked

\* What is begun or out was so before, and no result is taken back.
LEMMA OrderKept ==
  ASSUME IInv, flow' = flow, Longer(results, results'),
         \A s \in Step : s \in begun' \/ s \in Outstanding' => s \in begun \/ s \in Outstanding
  PROVE  DependencyOrder'
<1>1. \A d : Passed(d) => Passed(d)'
  BY DEF Passed, Longer
<1> SUFFICES ASSUME NEW s \in Step, s \in begun' \/ s \in Outstanding'
             PROVE  IF flow.trigger[s] = "All"
                    THEN \A d \in flow.deps[s] : Passed(d)'
                    ELSE \E d \in flow.deps[s] : Passed(d)'
  BY DEF DependencyOrder
<1>2. s \in begun \/ s \in Outstanding
  OBVIOUS
<1>3. IF flow.trigger[s] = "All"
      THEN \A d \in flow.deps[s] : Passed(d)
      ELSE \E d \in flow.deps[s] : Passed(d)
  BY <1>2 DEF IInv, DependencyOrder
<1> QED
  BY <1>1, <1>3

\* A result is pushed for a step without one and its dependents are unlocked.
LEMMA Push ==
  ASSUME IInv, Open, NEW r \in StepResult, r.step \notin Reported(results),
         results' = Append(results, r), unlock_dependents(r.step), flow' = flow
  PROVE  /\ in_degree' \in [Step -> Nat] /\ ready' \in Seq(Step)
         /\ Len(ready') \in Nat /\ Len(ready) <= Len(ready')
         /\ \A k \in 1 .. Len(ready) : ready'[k] = ready[k]
         /\ BookInv(flow, in_degree, ready, Reported(results))'
         /\ OneResultPerStep'
<1>1. /\ ready \in Seq(Step) /\ in_degree \in [Step -> Nat] /\ flow \in FlowDef /\ validate(flow)
      /\ \A i \in DOMAIN results : results[i].step \in Step
  BY Typed
<1>2. r.step \in Step
  BY DEF StepResult
<1>3. Book(flow, in_degree, ready, Reported(results))
  <2>1. BookInv(flow, in_degree, ready, Reported(results))
    BY DEF IInv, Accounts
  <2>2. Reported(results) \in SUBSET Step
    BY <1>1 DEF Reported
  <2> QED
    BY <1>1, <2>1, <2>2 DEF Book
<1>4. /\ in_degree' = UnlockDegree(flow, in_degree, r.step)
      /\ ready' = UnlockReady(flow, in_degree, ready, r.step)
  BY DEF unlock_dependents
<1>5. /\ Book(flow, in_degree', ready', Reported(results) \cup {r.step})
      /\ Extended(ready, ready')
  BY <1>2, <1>3, <1>4, BookStep
<1>6. Reported(results') = Reported(results) \cup {r.step}
  BY ResultPushed
<1>7. Book(flow', in_degree', ready', Reported(results'))
  BY <1>5, <1>6
<1>8. OneResultPerStep'
  <2>1. \A i \in DOMAIN results : results[i].step # r.step
    BY DEF Reported
  <2>2. /\ \A i \in DOMAIN results : results'[i] = results[i]
        /\ \A i \in DOMAIN results' : i \in DOMAIN results \/ i = Len(results) + 1
        /\ results'[Len(results) + 1] = r
    BY ResultPushed
  <2> QED
    BY <2>1, <2>2 DEF IInv, OneResultPerStep
<1>9. ready' \in Seq(Step) /\ in_degree' \in [Step -> Nat]
  BY <1>5 DEF Book
<1>10. Len(ready') \in Nat
  BY <1>9, LenProperties
<1> QED
  BY <1>5, <1>7, <1>8, <1>9, <1>10 DEF Book, Extended

\* Only the coordinator moves, or the token or the clock does.
LEMMA PcMove ==
  ASSUME IInv, TypeOK',
         UNCHANGED <<flow, nodes, book, in_flight, results, fleet, chan, begun>>,
         Open' => Open, pc = "dropped" => pc' = "dropped",
         Motives', Closed', NoWorkerLeft'
  PROVE  IInv'
<1>0. /\ flow' = flow /\ nodes' = nodes /\ ready' = ready /\ ready_head' = ready_head
      /\ in_degree' = in_degree /\ failed' = failed /\ in_flight' = in_flight /\ results' = results
      /\ queue' = queue /\ worker' = worker /\ item' = item /\ chan' = chan /\ begun' = begun
  BY DEF book, fleet
<1>1. Outstanding' = Outstanding /\ Apart' /\ Hands'
  BY <1>0, FleetSame
<1>2. InFlightIsOutstanding'
  BY <1>0, <1>1 DEF IInv, InFlightIsOutstanding
<1>3. TakenSteps' = TakenSteps
  BY <1>0 DEF TakenSteps
<1>4. Accounts'
  <2>1. Open' => /\ BookInv(flow, in_degree, ready, Reported(results))
                 /\ TakenSteps = Outstanding \cup Reported(results)
                 /\ Outstanding \cap Reported(results) = {}
                 /\ \A i \in DOMAIN results : /\ results[i].reason # "not_scheduled"
                                              /\ \/ results[i].reason = "condition_not_met"
                                                 \/ results[i].status = "Completed"
                                                 \/ failed[results[i].step]
    BY DEF IInv, Accounts
  <2>2. BookInv(flow, in_degree, ready, Reported(results)) = BookInv(flow, in_degree, ready, Reported(results))'
    BY <1>0
  <2> QED
    BY <1>0, <1>1, <1>3, <2>1, <2>2 DEF Accounts
<1>5. OneResultPerStep'
  BY <1>0 DEF IInv, OneResultPerStep
<1>6. BegunOnce'
  BY <1>0, <1>3 DEF IInv, BegunOnce
<1>7. DependencyOrder'
  BY <1>0, <1>1, OrderKept DEF Longer
<1> QED
  BY <1>1, <1>2, <1>4, <1>5, <1>6, <1>7 DEF IInv

(***************************************************************************)
(* The coordinator takes a step.                                           *)
(***************************************************************************)

\* The step gets a result at once: it is skipped, or no node can take it.
LEMMA KeepSettle ==
  ASSUME IInv, NEW s \in Step, Take(s), NEW r \in StepResult, r.step = s,
         r.status # "Completed", r.reason # "not_scheduled",
         results' = Append(results, r), unlock_dependents(s),
         failed' \in [Step -> BOOLEAN], \A x \in Step : failed[x] => failed'[x],
         r.reason = "condition_not_met" \/ failed'[s],
         UNCHANGED <<flow, nodes, pc, in_flight, fleet, chan, done, begun, env>>
  PROVE  IInv'
<1>0. /\ flow' = flow /\ nodes' = nodes /\ pc' = pc /\ in_flight' = in_flight /\ begun' = begun
      /\ queue' = queue /\ worker' = worker /\ item' = item /\ chan' = chan /\ done' = done
      /\ cancelled' = cancelled /\ clock' = clock /\ pc = "submit"
  BY DEF fleet, env, Take
<1>1. Open /\ leftover = 0 /\ TypeOK
  BY <1>0 DEF Open, IInv
<1>2. /\ s \notin TakenSteps /\ s \notin Outstanding /\ s \notin Reported(results)
      /\ ready_head' \in 1 .. Len(ready)
      /\ \A k \in 1 .. ready_head : k \in 1 .. ready_head'
      /\ \A k \in 1 .. ready_head' : k \in 1 .. ready_head \/ k = ready_head'
      /\ ready_head' \in 1 .. ready_head' /\ ready[ready_head'] = s
  BY NextIsFresh
<1>3. /\ in_degree' \in [Step -> Nat] /\ ready' \in Seq(Step)
      /\ Len(ready') \in Nat /\ Len(ready) <= Len(ready')
      /\ \A k \in 1 .. Len(ready) : ready'[k] = ready[k]
      /\ BookInv(flow, in_degree, ready, Reported(results))'
      /\ OneResultPerStep'
  BY <1>0, <1>1, <1>2, Push
<1>4. /\ results' \in Seq(StepResult)
      /\ \A i \in DOMAIN results : i \in DOMAIN results' /\ results'[i] = results[i]
      /\ \A i \in DOMAIN results' : i \in DOMAIN results \/ i = Len(results) + 1
      /\ results'[Len(results) + 1] = r
      /\ Reported(results') = Reported(results) \cup {s}
  BY ResultPushed
<1>5. Outstanding' = Outstanding /\ Apart' /\ Hands' /\ Panicked' = Panicked
  BY <1>0, FleetSame
<1>6. TakenSteps' = TakenSteps \cup {s}
  <2>1. Len(ready) \in Nat /\ ready_head \in 0 .. Len(ready)
    BY Typed
  <2>2. \A k \in 1 .. ready_head' : k \in 1 .. Len(ready)
    BY <1>2, <2>1
  <2>3. \A k \in 1 .. ready_head' : ready'[k] = ready[k]
    BY <1>3, <2>2
  <2> QED
    BY <1>2, <2>3 DEF TakenSteps
<1>7. TypeOK'
  <2>1. ready_head' \in 0 .. Len(ready')
    <3>1. Len(ready) \in Nat
      BY Typed
    <3> QED
      BY <1>2, <1>3, <3>1
  <2>2. results' \in Seq(Result)
    BY <1>1, <1>4, Clean
  <2> QED
    BY <1>0, <1>1, <1>3, <2>1, <2>2 DEF TypeOK
<1>8. InFlightIsOutstanding'
  BY <1>0, <1>5 DEF IInv, InFlightIsOutstanding
<1>9. Accounts'
  <2>1. /\ TakenSteps = Outstanding \cup Reported(results)
        /\ Outstanding \cap Reported(results) = {}
        /\ \A i \in DOMAIN results : /\ results[i].reason # "not_scheduled"
                                     /\ \/ results[i].reason = "condition_not_met"
                                        \/ results[i].status = "Completed"
                                        \/ failed[results[i].step]
    BY <1>1 DEF IInv, Accounts
  <2>2. TakenSteps' = Outstanding' \cup Reported(results')
    BY <1>4, <1>5, <1>6, <2>1
  <2>3. Outstanding' \cap Reported(results') = {}
    BY <1>2, <1>4, <1>5, <2>1
  <2>4. \A i \in DOMAIN results : results[i].step \in Step
    BY Typed
  <2>5. \A i \in DOMAIN results' : /\ results'[i].reason # "not_scheduled"
                                   /\ \/ results'[i].reason = "condition_not_met"
                                      \/ results'[i].status = "Completed"
                                      \/ failed'[results'[i].step]
    BY <1>4, <2>1, <2>4
  <2> QED
    BY <1>3, <2>2, <2>3, <2>5 DEF Accounts
<1>10. BegunOnce'
  <2>1. \A i \in DOMAIN results' : results'[i].status = "Completed" => results'[i].step \in begun
    BY <1>4 DEF IInv, BegunOnce
  <2> QED
    BY <1>0, <1>1, <1>6, <2>1 DEF IInv, BegunOnce
<1>11. DependencyOrder'
  BY <1>0, <1>4, <1>5, OrderKept DEF Longer
<1>12. Motives' /\ Closed' /\ NoWorkerLeft'
  BY <1>0 DEF Motives, Closed, NoWorkerLeft
<1> QED
  BY <1>1, <1>3, <1>5, <1>7, <1>8, <1>9, <1>10, <1>11, <1>12 DEF IInv

LEMMA KeepSkips ==
  ASSUME IInv, NEW s \in Step, SkipDepFailed(s) \/ SkipCondition(s) \/ Refuse(s)
  PROVE  IInv'
<1>1. failed \in [Step -> BOOLEAN]
  BY Typed
<1>2. CASE SkipDepFailed(s)
  <2>1. /\ Skip(s, "dependency_failed") \in StepResult /\ Skip(s, "dependency_failed").step = s
        /\ Skip(s, "dependency_failed").status # "Completed"
        /\ Skip(s, "dependency_failed").reason # "not_scheduled"
    BY DEF Skip, StepResult, Status, Reason
  <2>2. failed' \in [Step -> BOOLEAN] /\ failed'[s] /\ \A x \in Step : failed[x] => failed'[x]
    BY <1>1, <1>2 DEF SkipDepFailed
  <2>3. /\ Take(s) /\ unlock_dependents(s) /\ results' = Append(results, Skip(s, "dependency_failed"))
        /\ UNCHANGED <<flow, nodes, pc, in_flight, fleet, chan, done, begun, env>>
    BY <1>2 DEF SkipDepFailed
  <2> QED
    BY <2>1, <2>2, <2>3, KeepSettle
<1>3. CASE SkipCondition(s)
  <2>1. /\ Skip(s, "condition_not_met") \in StepResult /\ Skip(s, "condition_not_met").step = s
        /\ Skip(s, "condition_not_met").status # "Completed"
        /\ Skip(s, "condition_not_met").reason # "not_scheduled"
        /\ Skip(s, "condition_not_met").reason = "condition_not_met"
    BY DEF Skip, StepResult, Status, Reason
  <2>2. failed' \in [Step -> BOOLEAN] /\ \A x \in Step : failed[x] => failed'[x]
    BY <1>1, <1>3 DEF SkipCondition
  <2>3. /\ Take(s) /\ unlock_dependents(s) /\ results' = Append(results, Skip(s, "condition_not_met"))
        /\ UNCHANGED <<flow, nodes, pc, in_flight, fleet, chan, done, begun, env>>
    BY <1>3 DEF SkipCondition
  <2> QED
    BY <2>1, <2>2, <2>3, KeepSettle
<1>4. CASE Refuse(s)
  <2>1. /\ Fail(s, "no_fleet_node_available") \in StepResult /\ Fail(s, "no_fleet_node_available").step = s
        /\ Fail(s, "no_fleet_node_available").status # "Completed"
        /\ Fail(s, "no_fleet_node_available").reason # "not_scheduled"
    BY DEF Fail, StepResult, Status, Reason
  <2>2. failed' \in [Step -> BOOLEAN] /\ failed'[s] /\ \A x \in Step : failed[x] => failed'[x]
    BY <1>1, <1>4 DEF Refuse
  <2>3. /\ Take(s) /\ unlock_dependents(s) /\ results' = Append(results, Fail(s, "no_fleet_node_available"))
        /\ UNCHANGED <<flow, nodes, pc, in_flight, fleet, chan, done, begun, env>>
    BY <1>4 DEF Refuse
  <2> QED
    BY <2>1, <2>2, <2>3, KeepSettle
<1> QED
  BY <1>2, <1>3, <1>4

\* A step that the queue released, none of whose dependencies failed, has the
\* dependencies it needs behind it.
LEMMA Released ==
  ASSUME IInv, NEW s \in Step, Take(s), ~DepFailed(flow, failed, s)
  PROVE  IF flow.trigger[s] = "All"
         THEN \A d \in flow.deps[s] : Passed(d)
         ELSE \E d \in flow.deps[s] : Passed(d)
<1>0. Open
  BY DEF Take, Open
<1>1. s \in Queued(ready)
  BY NextIsFresh
<1>2. flow \in FlowDef
  BY Typed
<1>3. flow.trigger[s] \in {"All", "Any"}
  BY <1>2 DEF FlowDef, Trigger
<1>4. /\ flow.trigger[s] = "All" => flow.deps[s] \subseteq Reported(results)
      /\ flow.trigger[s] = "Any" => flow.deps[s] \cap Reported(results) # {}
  BY <1>0, <1>1 DEF IInv, Accounts, BookInv
<1>5. ASSUME NEW d \in flow.deps[s], d \in Reported(results)
      PROVE  Passed(d)
  <2>1. ~failed[d]
    BY DEF DepFailed
  <2>2. PICK i \in DOMAIN results : results[i].step = d
    BY <1>5 DEF Reported
  <2>3. results[i].reason = "condition_not_met" \/ results[i].status = "Completed"
    BY <1>0, <2>1, <2>2 DEF IInv, Accounts
  <2> QED
    BY <2>2, <2>3 DEF Passed
<1> QED
  BY <1>3, <1>4, <1>5

LEMMA KeepSubmit ==
  ASSUME IInv, NEW s \in Step, NEW n \in Node, Submit(s, n)
  PROVE  IInv'
<1>0. /\ flow' = flow /\ nodes' = nodes /\ pc' = pc /\ in_flight' = in_flight + 1 /\ begun' = begun
      /\ ready' = ready /\ in_degree' = in_degree /\ failed' = failed /\ results' = results
      /\ worker' = worker /\ item' = item /\ chan' = chan /\ done' = done
      /\ cancelled' = cancelled /\ clock' = clock /\ pc = "submit"
      /\ n \in nodes /\ queue' = [queue EXCEPT ![n] = @ \cup {s}]
      /\ Take(s) /\ ~DepFailed(flow, failed, s)
  BY DEF Submit, fleet_submit, Take, env
<1>1. Open /\ leftover = 0 /\ TypeOK
  BY <1>0 DEF Open, IInv
<1>2. /\ s \notin TakenSteps /\ s \notin Outstanding /\ s \notin Reported(results) /\ s \notin begun
      /\ ready_head' \in 1 .. Len(ready)
      /\ \A k \in 1 .. ready_head : k \in 1 .. ready_head'
      /\ \A k \in 1 .. ready_head' : k \in 1 .. ready_head \/ k = ready_head'
      /\ ready_head' \in 1 .. ready_head' /\ ready[ready_head'] = s
  BY <1>0, NextIsFresh
<1>3. /\ queue \in [Node -> SUBSET Step] /\ item \in [Node -> Step \cup {0}]
      /\ 0 \notin Step /\ Len(ready) \in Nat /\ N \in Nat /\ in_flight \in 0 .. N
  BY Typed
<1>4. /\ queue' \in [Node -> SUBSET Step] /\ s \in queue'[n]
      /\ \A m \in Node : queue[m] \subseteq queue'[m]
      /\ \A m \in Node : \A x \in queue'[m] : x \in queue[m] \/ (m = n /\ x = s)
  BY <1>0, <1>3
<1>5. /\ \A m \in Node : s \notin queue[m] /\ s # item[m]
      /\ \A i \in DOMAIN chan : chan[i].step # s
  BY <1>2, <1>3 DEF Outstanding
<1>6. Outstanding' = Outstanding \cup {s}
  <2>1. UNION {queue'[m] : m \in Node} = (UNION {queue[m] : m \in Node}) \cup {s}
    BY <1>4
  <2> QED
    BY <1>0, <2>1 DEF Outstanding
<1>7. Apart'
  <2>1. /\ \A k, m \in Node : k # m => queue[k] \cap queue[m] = {}
        /\ \A k, m \in Node : item[k] # 0 => item[k] \notin queue[m] /\ (item[m] = item[k] => k = m)
        /\ \A i \in DOMAIN chan, k \in Node : chan[i].step \notin queue[k] /\ chan[i].step # item[k]
        /\ \A i, j \in DOMAIN chan : chan[i].step = chan[j].step => i = j
    BY DEF IInv, Apart
  <2>2. \A k, m \in Node : k # m => queue'[k] \cap queue'[m] = {}
    BY <1>4, <1>5, <2>1
  <2>3. \A k, m \in Node : item[k] # 0 => item[k] \notin queue'[m]
    BY <1>4, <1>5, <2>1
  <2>4. \A i \in DOMAIN chan, k \in Node : chan[i].step \notin queue'[k]
    BY <1>4, <1>5, <2>1
  <2> QED
    BY <1>0, <2>1, <2>2, <2>3, <2>4 DEF Apart
<1>8. Hands'
  BY <1>0, <1>4 DEF IInv, Hands
<1>9. IsFiniteSet(Outstanding) /\ Cardinality(Outstanding) \in Nat /\ Outstanding \subseteq Step
  BY OutstandingSteps
<1>10. in_flight' = Cardinality(Outstanding') /\ in_flight' \in 0 .. N
  <2>1. in_flight = Cardinality(Outstanding)
    BY <1>0 DEF IInv, InFlightIsOutstanding
  <2>2. Cardinality(Outstanding \cup {s}) = Cardinality(Outstanding) + 1
    BY <1>2, <1>9, FS_AddElement
  <2>3. Outstanding \cup {s} \in SUBSET Step
    BY <1>9
  <2>4. Cardinality(Outstanding \cup {s}) \in Nat /\ Cardinality(Outstanding \cup {s}) <= N
    BY <2>3, StepFinite
  <2> QED
    BY <1>0, <1>3, <1>6, <2>1, <2>2, <2>4
<1>11. TypeOK'
  <2>1. ready_head' \in 0 .. Len(ready')
    BY <1>0, <1>2, <1>3
  <2>2. queue' \in [Node -> SUBSET Item]
    BY <1>1, <1>4, Clean
  <2> QED
    BY <1>0, <1>1, <1>10, <2>1, <2>2 DEF TypeOK
<1>12. TakenSteps' = TakenSteps \cup {s}
  BY <1>0, <1>2 DEF TakenSteps
<1>13. Accounts'
  <2>1. /\ BookInv(flow, in_degree, ready, Reported(results))
        /\ TakenSteps = Outstanding \cup Reported(results)
        /\ Outstanding \cap Reported(results) = {}
        /\ \A i \in DOMAIN results : /\ results[i].reason # "not_scheduled"
                                     /\ \/ results[i].reason = "condition_not_met"
                                        \/ results[i].status = "Completed"
                                        \/ failed[results[i].step]
    BY <1>1 DEF IInv, Accounts
  <2>2. BookInv(flow, in_degree, ready, Reported(results))'
    BY <1>0, <2>1
  <2>3. TakenSteps' = Outstanding' \cup Reported(results') /\ Outstanding' \cap Reported(results') = {}
    BY <1>0, <1>2, <1>6, <1>12, <2>1
  <2> QED
    BY <1>0, <2>1, <2>2, <2>3 DEF Accounts
<1>14. OneResultPerStep'
  BY <1>0 DEF IInv, OneResultPerStep
<1>15. BegunOnce'
  <2>1. \A m \in Node : queue'[m] \cap begun = {}
    BY <1>2, <1>4 DEF IInv, BegunOnce
  <2> QED
    BY <1>0, <1>1, <1>12, <2>1 DEF IInv, BegunOnce
<1>16. DependencyOrder'
  <2>1. \A d : Passed(d)' <=> Passed(d)
    BY <1>0 DEF Passed
  <2>2. ASSUME NEW x \in Step, x \in begun' \/ x \in Outstanding'
        PROVE  IF flow.trigger[x] = "All"
               THEN \A d \in flow.deps[x] : Passed(d)
               ELSE \E d \in flow.deps[x] : Passed(d)
    <3>1. CASE x = s
      BY <1>0, <3>1, Released
    <3>2. CASE x # s
      <4>1. x \in begun \/ x \in Outstanding
        BY <1>0, <1>6, <2>2, <3>2
      <4> QED
        BY <4>1 DEF IInv, DependencyOrder
    <3> QED
      BY <3>1, <3>2
  <2> QED
    BY <1>0, <2>1, <2>2 DEF DependencyOrder
<1>17. Motives' /\ Closed' /\ NoWorkerLeft'
  BY <1>0 DEF Motives, Closed, NoWorkerLeft
<1>18. InFlightIsOutstanding'
  BY <1>10 DEF InFlightIsOutstanding
<1> QED
  BY <1>1, <1>7, <1>8, <1>11, <1>13, <1>14, <1>15, <1>16, <1>17, <1>18 DEF IInv

(***************************************************************************)
(* A result arrives.                                                       *)
(***************************************************************************)

\* fleet_rebalance moves items and loses none, duplicates none.
LEMMA Rebalanced ==
  ASSUME IInv, fleet_rebalance, nodes' = nodes
  PROVE  /\ queue' \in [Node -> SUBSET Step]
         /\ \A x : (\E n \in Node : x \in queue'[n]) <=> (\E n \in Node : x \in queue[n])
         /\ \A n, m \in Node : n # m => queue'[n] \cap queue'[m] = {}
         /\ \A n \in Node : n \notin nodes => queue'[n] = {}
<1>1. queue \in [Node -> SUBSET Step]
  BY Typed
<1>2. PICK q \in [Node -> SUBSET UNION {queue[n] : n \in Node}] :
        /\ queue' = q
        /\ UNION {q[n] : n \in Node} = UNION {queue[n] : n \in Node}
        /\ \A n, m \in Node : n # m => q[n] \cap q[m] = {}
        /\ \A n \in Node \ nodes : q[n] = {}
  BY DEF fleet_rebalance
<1>3. UNION {queue[n] : n \in Node} \subseteq Step
  BY <1>1
<1>4. q \in [Node -> SUBSET Step]
  BY <1>3
<1>5. \A x : (\E n \in Node : x \in q[n]) <=> (\E n \in Node : x \in queue[n])
  <2> SUFFICES ASSUME NEW x PROVE (\E n \in Node : x \in q[n]) <=> (\E n \in Node : x \in queue[n])
    OBVIOUS
  <2>1. (\E n \in Node : x \in q[n]) <=> x \in UNION {q[n] : n \in Node}
    OBVIOUS
  <2>2. (\E n \in Node : x \in queue[n]) <=> x \in UNION {queue[n] : n \in Node}
    OBVIOUS
  <2> QED
    BY <1>2, <2>1, <2>2
<1> QED
  BY <1>2, <1>4, <1>5

\* The first message leaves the channel.
LEMMA Received ==
  ASSUME IInv, chan # <<>>, chan' = Tail(chan), item' = item, nodes' = nodes, fleet_rebalance
  PROVE  /\ Head(chan) = chan[1] /\ 1 \in DOMAIN chan
         /\ Head(chan) \in StepResult /\ Head(chan).step \in Step
         /\ chan' \in Seq(StepResult)
         /\ \A i \in DOMAIN chan' : i + 1 \in DOMAIN chan /\ chan'[i] = chan[i + 1]
         /\ Apart'
         /\ Head(chan).step \in Outstanding
         /\ Outstanding' = Outstanding \ {Head(chan).step}
<1>1. /\ chan \in Seq(StepResult) /\ Len(chan) \in Nat /\ DOMAIN chan = 1 .. Len(chan)
      /\ \A i \in DOMAIN chan : chan[i] \in StepResult /\ chan[i].step \in Step
      /\ 0 \notin Step
  BY Typed
<1>2. /\ Head(chan) = chan[1] /\ Len(chan) # 0 /\ chan' \in Seq(StepResult)
      /\ DOMAIN chan' = 1 .. Len(chan) - 1 /\ \A i \in 1 .. Len(chan) - 1 : chan'[i] = chan[i + 1]
  BY <1>1
<1>3. /\ 1 \in DOMAIN chan
      /\ \A i \in DOMAIN chan' : i + 1 \in DOMAIN chan /\ i + 1 # 1 /\ chan'[i] = chan[i + 1]
      /\ \A i, j \in DOMAIN chan' : i + 1 = j + 1 => i = j
      /\ \A i \in DOMAIN chan : i = 1 \/ (i - 1 \in DOMAIN chan' /\ chan'[i - 1] = chan[i])
  BY <1>1, <1>2
<1>4. PICK h : h = Head(chan)
  OBVIOUS
<1>5. h = chan[1] /\ h \in StepResult /\ h.step \in Step
  BY <1>1, <1>2, <1>3, <1>4
<1>6. /\ \A n, m \in Node : n # m => queue[n] \cap queue[m] = {}
      /\ \A n, m \in Node : item[n] # 0 => item[n] \notin queue[m] /\ (item[m] = item[n] => n = m)
      /\ \A i \in DOMAIN chan, n \in Node : chan[i].step \notin queue[n] /\ chan[i].step # item[n]
      /\ \A i, j \in DOMAIN chan : chan[i].step = chan[j].step => i = j
  BY DEF IInv, Apart
<1>7. /\ \A x : (\E n \in Node : x \in queue'[n]) <=> (\E n \in Node : x \in queue[n])
      /\ \A n, m \in Node : n # m => queue'[n] \cap queue'[m] = {}
  BY Rebalanced
<1>8. Apart'
  <2>1. \A n, m \in Node : item[n] # 0 => item[n] \notin queue'[m]
    BY <1>6, <1>7
  <2>2. \A i \in DOMAIN chan', n \in Node : chan'[i].step \notin queue'[n] /\ chan'[i].step # item[n]
    BY <1>3, <1>6, <1>7
  <2>3. \A i, j \in DOMAIN chan' : chan'[i].step = chan'[j].step => i = j
    BY <1>3, <1>6
  <2> QED
    BY <1>6, <1>7, <2>1, <2>2, <2>3 DEF Apart
<1>9. h.step \in Outstanding
  BY <1>3, <1>5, InOutstanding
<1>10. \A x : x \in Outstanding' <=> \/ \E n \in Node : x \in queue'[n]
                                     \/ \E n \in Node : item'[n] = x /\ x # 0
                                     \/ \E i \in DOMAIN chan' : chan'[i].step = x
  BY DEF Outstanding
<1>11. \A x : (\E i \in DOMAIN chan' : chan'[i].step = x)
                 <=> (x # h.step /\ \E i \in DOMAIN chan : chan[i].step = x)
  <2>1. ASSUME NEW i \in DOMAIN chan'
        PROVE  chan'[i].step # h.step /\ \E j \in DOMAIN chan : chan[j].step = chan'[i].step
    <3>1. chan[i + 1].step # chan[1].step
      BY <1>3, <1>6
    <3> QED
      BY <1>3, <1>5, <3>1
  <2>2. ASSUME NEW i \in DOMAIN chan, chan[i].step # h.step
        PROVE  \E j \in DOMAIN chan' : chan'[j].step = chan[i].step
    BY <1>3, <1>5, <2>2
  <2> SUFFICES ASSUME NEW x
               PROVE  (\E i \in DOMAIN chan' : chan'[i].step = x)
                         <=> (x # h.step /\ \E i \in DOMAIN chan : chan[i].step = x)
    OBVIOUS
  <2>3. ASSUME NEW i \in DOMAIN chan', chan'[i].step = x
        PROVE  x # h.step /\ \E j \in DOMAIN chan : chan[j].step = x
    BY <2>1, <2>3
  <2>4. ASSUME NEW i \in DOMAIN chan, chan[i].step = x, x # h.step
        PROVE  \E j \in DOMAIN chan' : chan'[j].step = x
    BY <2>2, <2>4
  <2> QED
    BY <2>3, <2>4
<1>12. /\ \A n \in Node : h.step \notin queue[n] /\ item[n] # h.step
  BY <1>3, <1>5, <1>6
<1>13. \A x : x \in Outstanding' <=> x \in Outstanding /\ x # h.step
  <2> SUFFICES ASSUME NEW x PROVE x \in Outstanding' <=> x \in Outstanding /\ x # h.step
    OBVIOUS
  <2>1. x \in Outstanding <=> \/ \E n \in Node : x \in queue[n]
                              \/ \E n \in Node : item[n] = x /\ x # 0
                              \/ \E i \in DOMAIN chan : chan[i].step = x
    BY InOutstanding
  <2> QED
    BY <1>7, <1>10, <1>11, <1>12, <2>1
<1> QED
  BY <1>2, <1>3, <1>4, <1>5, <1>8, <1>9, <1>13

LEMMA KeepReceive ==
  ASSUME IInv, Receive
  PROVE  IInv'
<1>0. /\ flow' = flow /\ nodes' = nodes /\ pc = "wait" /\ pc' = "submit" /\ begun' = begun
      /\ ready_head' = ready_head /\ worker' = worker /\ item' = item /\ done' = done
      /\ cancelled' = cancelled /\ clock' = clock /\ in_flight' = in_flight - 1
      /\ chan # <<>> /\ chan' = Tail(chan) /\ fleet_rebalance
  BY DEF Receive, env
<1>1. Open /\ leftover = 0 /\ TypeOK
  BY <1>0 DEF Open, IInv
<1>2. PICK h : h = Head(chan)
  OBVIOUS
<1>3. /\ h = chan[1] /\ 1 \in DOMAIN chan /\ h \in StepResult /\ h.step \in Step
      /\ chan' \in Seq(StepResult)
      /\ \A i \in DOMAIN chan' : i + 1 \in DOMAIN chan /\ chan'[i] = chan[i + 1]
      /\ Apart' /\ h.step \in Outstanding /\ Outstanding' = Outstanding \ {h.step}
  BY <1>0, <1>2, Received
<1>4. /\ results' = Append(results, h) /\ unlock_dependents(h.step)
      /\ failed' = [s \in Step |-> failed[s] \/ (s = h.step /\ h.status # "Completed")]
  BY <1>2, <1>3 DEF Receive
<1>5. /\ BookInv(flow, in_degree, ready, Reported(results))
      /\ TakenSteps = Outstanding \cup Reported(results)
      /\ Outstanding \cap Reported(results) = {}
      /\ \A i \in DOMAIN results : /\ results[i].reason # "not_scheduled"
                                   /\ \/ results[i].reason = "condition_not_met"
                                      \/ results[i].status = "Completed"
                                      \/ failed[results[i].step]
  BY <1>1 DEF IInv, Accounts
<1>6. h.step \notin Reported(results)
  BY <1>3, <1>5
<1>7. /\ in_degree' \in [Step -> Nat] /\ ready' \in Seq(Step)
      /\ Len(ready') \in Nat /\ Len(ready) <= Len(ready')
      /\ \A k \in 1 .. Len(ready) : ready'[k] = ready[k]
      /\ BookInv(flow, in_degree, ready, Reported(results))'
      /\ OneResultPerStep'
  BY <1>0, <1>1, <1>3, <1>4, <1>6, Push
<1>8. /\ results' \in Seq(StepResult)
      /\ \A i \in DOMAIN results : i \in DOMAIN results' /\ results'[i] = results[i]
      /\ \A i \in DOMAIN results' : i \in DOMAIN results \/ i = Len(results) + 1
      /\ results'[Len(results) + 1] = h
      /\ Reported(results') = Reported(results) \cup {h.step}
  BY <1>3, <1>4, ResultPushed
<1>9. /\ failed \in [Step -> BOOLEAN] /\ ready_head \in 0 .. Len(ready) /\ Len(ready) \in Nat
      /\ \A i \in DOMAIN results : results[i].step \in Step
      /\ in_flight \in 0 .. N /\ N \in Nat
  BY Typed
<1>10. failed' \in [Step -> BOOLEAN] /\ \A s \in Step : failed[s] => failed'[s]
  BY <1>4, <1>9
<1>11. TakenSteps' = TakenSteps
  <2>1. \A k \in 1 .. ready_head : k \in 1 .. Len(ready)
    BY <1>9
  <2>2. \A k \in 1 .. ready_head : ready'[k] = ready[k]
    BY <1>7, <2>1
  <2> QED
    BY <1>0, <2>2 DEF TakenSteps
<1>12. /\ queue' \in [Node -> SUBSET Step]
       /\ \A x : (\E n \in Node : x \in queue'[n]) <=> (\E n \in Node : x \in queue[n])
       /\ \A n \in Node : n \notin nodes => queue'[n] = {}
  BY <1>0, Rebalanced
<1>13. in_flight' \in 0 .. N /\ in_flight' = Cardinality(Outstanding')
  <2>1. IsFiniteSet(Outstanding) /\ Cardinality(Outstanding) \in Nat
    BY OutstandingSteps
  <2>2. in_flight = Cardinality(Outstanding)
    BY <1>0 DEF IInv, InFlightIsOutstanding
  <2>3. /\ IsFiniteSet(Outstanding \ {h.step})
        /\ Cardinality(Outstanding \ {h.step}) = Cardinality(Outstanding) - 1
    BY <1>3, <2>1, FS_RemoveElement
  <2>4. Cardinality(Outstanding \ {h.step}) \in Nat
    BY <2>3, FS_CardinalityType
  <2> QED
    BY <1>0, <1>3, <1>9, <2>2, <2>3, <2>4
<1>14. TypeOK'
  <2>1. ready_head' \in 0 .. Len(ready')
    BY <1>0, <1>7, <1>9
  <2>2. results' \in Seq(Result) /\ chan' \in Seq(Result) /\ queue' \in [Node -> SUBSET Item]
    BY <1>1, <1>3, <1>8, <1>12, Clean
  <2> QED
    BY <1>0, <1>1, <1>7, <1>10, <1>13, <2>1, <2>2 DEF TypeOK
<1>15. Hands'
  BY <1>0, <1>12 DEF IInv, Hands
<1>16. InFlightIsOutstanding'
  BY <1>13 DEF InFlightIsOutstanding
<1>17. h.reason # "not_scheduled" /\ h.step \in begun
  BY <1>3 DEF IInv, BegunOnce
<1>18. Accounts'
  <2>1. TakenSteps' = Outstanding' \cup Reported(results') /\ Outstanding' \cap Reported(results') = {}
    BY <1>3, <1>5, <1>8, <1>11
  <2>2. h.status = "Completed" \/ failed'[h.step]
    BY <1>3, <1>4
  <2>3. \A i \in DOMAIN results' : /\ results'[i].reason # "not_scheduled"
                                   /\ \/ results'[i].reason = "condition_not_met"
                                      \/ results'[i].status = "Completed"
                                      \/ failed'[results'[i].step]
    BY <1>5, <1>8, <1>9, <1>10, <1>17, <2>2
  <2> QED
    BY <1>7, <2>1, <2>3 DEF Accounts
<1>19. BegunOnce'
  <2>1. /\ \A n \in Node : queue[n] \cap begun = {} /\ (item[n] # 0 => item[n] \in begun)
        /\ \A i \in DOMAIN chan : chan[i].step \in begun /\ chan[i].reason # "not_scheduled"
        /\ \A i \in DOMAIN results : results[i].status = "Completed" => results[i].step \in begun
        /\ begun \subseteq TakenSteps
    BY <1>1 DEF IInv, BegunOnce
  <2>2. \A n \in Node : queue'[n] \cap begun = {}
    BY <1>12, <2>1
  <2>3. \A i \in DOMAIN chan' : chan'[i].step \in begun /\ chan'[i].reason # "not_scheduled"
    BY <1>3, <2>1
  <2>4. \A i \in DOMAIN results' : results'[i].status = "Completed" => results'[i].step \in begun
    BY <1>8, <1>17, <2>1
  <2> QED
    BY <1>0, <1>11, <2>1, <2>2, <2>3, <2>4 DEF BegunOnce
<1>20. DependencyOrder'
  BY <1>0, <1>3, <1>8, OrderKept DEF Longer
<1>21. Motives' /\ Closed' /\ NoWorkerLeft'
  BY <1>0 DEF Motives, Closed, NoWorkerLeft
<1> QED
  BY <1>1, <1>3, <1>7, <1>14, <1>15, <1>16, <1>18, <1>19, <1>20, <1>21 DEF IInv

(***************************************************************************)
(* The loop ends.                                                          *)
(***************************************************************************)

LEMMA KeepEndSubmit == ASSUME IInv, EndSubmit PROVE IInv'
<1>0. /\ pc = "submit" /\ ready_head = Len(ready)
      /\ pc' = IF Len(results) >= N \/ in_flight = 0 \/ Stopped THEN "finish" ELSE "wait"
      /\ UNCHANGED <<flow, nodes, book, in_flight, results, fleet, chan, begun>>
      /\ done' = done /\ cancelled' = cancelled /\ clock' = clock
  BY DEF EndSubmit, env
<1>1. TypeOK'
  BY <1>0 DEF IInv, TypeOK, book, fleet
<1>2. Open /\ pc # "dropped" /\ pc' \in {"finish", "wait"}
  BY <1>0 DEF Open
<1>3. Motives'
  <2>1. ready_head' = Len(ready') /\ in_flight' = in_flight /\ results' = results
    BY <1>0 DEF book
  <2>2. pc' = "wait" => in_flight # 0
    BY <1>0
  <2>3. pc' = "finish" => Len(results) >= N \/ in_flight = 0 \/ cancelled \/ clock # "before"
    BY <1>0 DEF Stopped
  <2> QED
    BY <1>0, <2>1, <2>2, <2>3 DEF Motives
<1>4. Closed' /\ NoWorkerLeft'
  BY <1>2 DEF Closed, NoWorkerLeft
<1> QED
  BY <1>0, <1>1, <1>2, <1>3, <1>4, PcMove

\* The last sender is gone only if a worker panicked: something is out.
LEMMA KeepStopWaiting == ASSUME IInv, StopWaiting PROVE IInv'
<1>0. /\ pc = "wait" /\ pc' = "finish" /\ chan = <<>>
      /\ UNCHANGED <<flow, nodes, book, in_flight, results, fleet, chan, begun>>
      /\ cancelled \/ clock # "before" \/ Senders = {}
      /\ done' = done /\ cancelled' = cancelled /\ clock' = clock
  BY DEF StopWaiting, env
<1>1. TypeOK'
  BY <1>0 DEF IInv, TypeOK, book, fleet
<1>2. Panicked' = Panicked
  BY <1>0 DEF Panicked, fleet
<1>3. ASSUME Senders = {} PROVE Panicked # {}
  <2>1. in_flight # 0 /\ in_flight = Cardinality(Outstanding)
    BY <1>0 DEF IInv, Motives, InFlightIsOutstanding
  <2>2. Outstanding # {}
    BY <2>1, FS_EmptySet
  <2>3. PICK x : x \in Outstanding
    BY <2>2
  <2>4. DOMAIN chan = {}
    BY <1>0
  <2>5. PICK n \in Node : x \in queue[n] \/ (item[n] = x /\ x # 0)
    BY <2>3, <2>4, InOutstanding
  <2>6. n \in nodes
    <3>1. /\ item[n] # 0 <=> worker[n] \in {"executing", "panicked"}
          /\ n \in nodes <=> worker[n] # "none"
          /\ n \notin nodes => queue[n] = {}
      BY DEF IInv, Hands
    <3> QED
      BY <2>5, <3>1
  <2> QED
    BY <1>3, <2>6 DEF Senders, Panicked
<1>4. Motives'
  <2>1. ready_head' = Len(ready')
    BY <1>0 DEF IInv, Motives, book
  <2> QED
    BY <1>0, <1>2, <1>3, <2>1 DEF Motives
<1>5. Closed' /\ NoWorkerLeft'
  BY <1>0 DEF Closed, NoWorkerLeft
<1> QED
  BY <1>0, <1>1, <1>4, <1>5, PcMove DEF Open

LEMMA KeepJoinWorkers == ASSUME IInv, JoinWorkers PROVE IInv'
<1>0. /\ pc = "join" /\ pc' = "done" /\ \A n \in nodes : worker[n] \in {"exited", "panicked"}
      /\ UNCHANGED <<flow, nodes, book, in_flight, results, fleet, chan, begun>>
      /\ done' = done /\ cancelled' = cancelled /\ clock' = clock
  BY DEF JoinWorkers, env
<1>1. TypeOK'
  BY <1>0 DEF IInv, TypeOK, book, fleet
<1>2. Motives' /\ NoWorkerLeft'
  BY <1>0 DEF Motives, NoWorkerLeft, fleet
<1>3. Closed'
  BY <1>0 DEF IInv, Closed, fleet, Panicked
<1> QED
  BY <1>0, <1>1, <1>2, <1>3, PcMove DEF Open

LEMMA KeepEnvironment == ASSUME IInv, Cancel \/ Tick \/ Abandon PROVE IInv'
<1>0. /\ UNCHANGED <<flow, nodes, book, in_flight, results, fleet, chan, begun>> /\ done' = done
      /\ Panicked' = Panicked
  BY DEF Cancel, Tick, Abandon, fleet, Panicked
<1>1. CASE Cancel \/ Tick
  <2>1. /\ pc' = pc /\ pc \notin {"join", "done", "dropped"} /\ (cancelled => cancelled')
        /\ (clock # "before" => clock' # "before")
        /\ cancelled' \in BOOLEAN /\ clock' \in {"before", "at", "past"}
    BY <1>1 DEF Cancel, Tick, Ended, IInv, TypeOK
  <2>2. TypeOK'
    BY <1>0, <2>1 DEF IInv, TypeOK, book, fleet
  <2>3. Motives'
    BY <1>0, <2>1 DEF IInv, Motives, book
  <2>4. Closed' /\ NoWorkerLeft'
    BY <2>1 DEF Closed, NoWorkerLeft
  <2> QED
    BY <1>0, <2>1, <2>2, <2>3, <2>4, PcMove DEF Open
<1>2. CASE Abandon
  <2>1. pc' = "dropped" /\ cancelled' = cancelled /\ clock' = clock
    BY <1>2 DEF Abandon, env
  <2>2. TypeOK'
    BY <1>0, <2>1 DEF IInv, TypeOK, book, fleet
  <2>3. Motives' /\ Closed' /\ NoWorkerLeft'
    BY <2>1 DEF Motives, Closed, NoWorkerLeft
  <2> QED
    BY <1>0, <2>1, <2>2, <2>3, PcMove DEF Open
<1> QED
  BY <1>1, <1>2

\* With nothing in flight and nothing ready every step has its result.
LEMMA NothingLeft ==
  ASSUME IInv, Open, in_flight = 0, ready_head = Len(ready)
  PROVE  Reported(results) = Step
<1>1. Outstanding = {}
  <2>1. Cardinality(Outstanding) = 0 /\ IsFiniteSet(Outstanding)
    BY OutstandingSteps DEF IInv, InFlightIsOutstanding, Open
  <2> QED
    BY <2>1, FS_EmptySet
<1>2. DOMAIN ready = 1 .. Len(ready) /\ flow \in FlowDef /\ validate(flow)
      /\ \A i \in DOMAIN results : results[i].step \in Step
  BY Typed
<1>3. Queued(ready) = TakenSteps
  BY <1>2 DEF Queued, TakenSteps
<1>4. /\ BookInv(flow, in_degree, ready, Reported(results))
      /\ TakenSteps = Outstanding \cup Reported(results)
  BY DEF IInv, Accounts
<1>5. Reported(results) \in SUBSET Step
  BY <1>2 DEF Reported
<1>6. Queued(ready) \subseteq Reported(results)
  BY <1>1, <1>3, <1>4
<1>7. Step \subseteq Queued(ready)
  BY <1>2, <1>4, <1>5, <1>6, NoneLocked
<1> QED
  BY <1>5, <1>6, <1>7

\* The results with a skip for every step without one.
WithSkips(why) ==
    results \o [i \in 1 .. Cardinality(Unseen) |-> Skip(Ascending(Unseen)[i], why)]

LEMMA Skipped ==
  ASSUME IInv, NEW why \in Reason
  PROVE  /\ WithSkips(why) \in Seq(StepResult) /\ Longer(results, WithSkips(why))
         /\ Reported(WithSkips(why)) = Step
         /\ \A i, j \in DOMAIN WithSkips(why) :
               WithSkips(why)[i].step = WithSkips(why)[j].step => i = j
         /\ \A i \in DOMAIN WithSkips(why) :
               \/ i \in DOMAIN results /\ WithSkips(why)[i] = results[i]
               \/ /\ WithSkips(why)[i].status = "Skipped" /\ WithSkips(why)[i].reason = why
                  /\ WithSkips(why)[i].step \in Unseen
<1> DEFINE c == Cardinality(Unseen)
           a == Ascending(Unseen)
           m == Len(results)
<1>1. Unseen \in SUBSET Step
  BY DEF Unseen
<1>2. /\ a \in Seq(Unseen) /\ Len(a) = c
      /\ \A i, j \in DOMAIN a : a[i] = a[j] => i = j
      /\ Queued(a) = Unseen
  BY <1>1, AscendingProperties
<1>3. c \in Nat /\ DOMAIN a = 1 .. c /\ \A i \in 1 .. c : a[i] \in Unseen
  BY <1>1, <1>2, StepFinite
<1>4. /\ results \in Seq(StepResult) /\ m \in Nat /\ DOMAIN results = 1 .. m
      /\ \A i \in DOMAIN results : results[i].step \in Step
  BY Typed
<1> HIDE DEF c, a, m
<1>5. PICK sk : /\ sk = [i \in 1 .. c |-> Skip(a[i], why)]
                /\ WithSkips(why) = results \o sk
  BY DEF c, a, WithSkips
<1>6. sk \in Seq(StepResult) /\ Len(sk) = c
  <2>1. \A i \in 1 .. c : Skip(a[i], why) \in StepResult
    BY <1>1, <1>3 DEF Skip, StepResult, Status
  <2>2. sk \in [1 .. c -> StepResult]
    BY <1>5, <2>1
  <2>3. sk \in Seq(StepResult)
    BY <1>3, <2>2, SeqDef
  <2>4. Len(sk) = c
    BY <1>3, <1>5
  <2> QED
    BY <2>3, <2>4
<1>7. PICK rs : rs = results \o sk /\ rs = WithSkips(why)
  BY <1>5
<1>8. /\ rs \in Seq(StepResult) /\ Len(rs) = m + c
      /\ \A i \in 1 .. Len(results) + Len(sk) :
           rs[i] = IF i <= Len(results) THEN results[i] ELSE sk[i - Len(results)]
  BY <1>4, <1>6, <1>7, ConcatProperties DEF m
<1>9. DOMAIN rs = 1 .. m + c
  BY <1>8, LenProperties
<1>10. \A i \in DOMAIN rs : \/ i \in DOMAIN results /\ rs[i] = results[i]
                            \/ i - m \in 1 .. c /\ i \notin DOMAIN results /\ rs[i] = sk[i - m]
  <2> SUFFICES ASSUME NEW i \in DOMAIN rs
               PROVE  \/ i \in DOMAIN results /\ rs[i] = results[i]
                      \/ i - m \in 1 .. c /\ i \notin DOMAIN results /\ rs[i] = sk[i - m]
    OBVIOUS
  <2>1. rs[i] = IF i <= m THEN results[i] ELSE sk[i - m]
    BY <1>6, <1>8, <1>9 DEF m
  <2>2. \/ i <= m /\ i \in 1 .. m
        \/ ~(i <= m) /\ i - m \in 1 .. c /\ i \notin 1 .. m
    BY <1>3, <1>4, <1>9
  <2> QED
    BY <1>4, <2>1, <2>2
<1>11. \A i \in DOMAIN results : i \in DOMAIN rs /\ rs[i] = results[i]
  <2>1. \A i \in 1 .. m : i \in 1 .. m + c /\ i <= m
    BY <1>3, <1>4
  <2> QED
    BY <1>4, <1>6, <1>8, <1>9, <2>1 DEF m
<1>12. \A i \in 1 .. c : /\ sk[i].status = "Skipped" /\ sk[i].reason = why /\ sk[i].step = a[i]
                         /\ sk[i].step \in Unseen
  <2> SUFFICES ASSUME NEW i \in 1 .. c
               PROVE  /\ sk[i].status = "Skipped" /\ sk[i].reason = why /\ sk[i].step = a[i]
                      /\ sk[i].step \in Unseen
    OBVIOUS
  <2>1. sk[i] = Skip(a[i], why)
    BY <1>5
  <2>2. a[i] \in Unseen
    BY <1>3
  <2> QED
    BY <2>1, <2>2 DEF Skip
<1>13. \A i \in DOMAIN results : results[i].step \notin Unseen
  BY DEF Unseen, Reported
<1>14. \A i, j \in DOMAIN rs : rs[i].step = rs[j].step => i = j
  <2> SUFFICES ASSUME NEW i \in DOMAIN rs, NEW j \in DOMAIN rs, rs[i].step = rs[j].step PROVE i = j
    OBVIOUS
  <2>1. CASE i \in DOMAIN results /\ j \in DOMAIN results
    BY <1>11, <2>1 DEF IInv, OneResultPerStep
  <2>2. CASE i \in DOMAIN results /\ j \notin DOMAIN results
    BY <1>10, <1>11, <1>12, <1>13, <2>2
  <2>3. CASE i \notin DOMAIN results /\ j \in DOMAIN results
    BY <1>10, <1>11, <1>12, <1>13, <2>3
  <2>4. CASE i \notin DOMAIN results /\ j \notin DOMAIN results
    <3>1. i - m \in 1 .. c /\ j - m \in 1 .. c /\ rs[i] = sk[i - m] /\ rs[j] = sk[j - m]
      BY <1>10, <2>4
    <3>2. a[i - m] = a[j - m]
      BY <1>12, <3>1
    <3>3. i - m = j - m
      BY <1>2, <1>3, <3>1, <3>2
    <3> QED
      BY <1>3, <1>4, <1>9, <3>3
  <2> QED
    BY <2>1, <2>2, <2>3, <2>4
<1>15. Reported(rs) = Step
  <2>1. ASSUME NEW i \in DOMAIN rs PROVE rs[i].step \in Step
    BY <1>1, <1>4, <1>10, <1>12
  <2>2. ASSUME NEW s \in Step PROVE \E i \in DOMAIN rs : rs[i].step = s
    <3>1. CASE s \in Reported(results)
      BY <1>11, <3>1 DEF Reported
    <3>2. CASE s \in Unseen
      <4>1. PICK i \in 1 .. c : a[i] = s
        BY <1>2, <1>3, <3>2 DEF Queued
      <4>2. m + i \in 1 .. m + c /\ ~(m + i <= m) /\ (m + i) - m = i
        BY <1>3, <1>4
      <4>3. rs[m + i] = IF m + i <= m THEN results[m + i] ELSE sk[(m + i) - m]
        BY <1>6, <1>8, <4>2 DEF m
      <4> QED
        BY <1>9, <1>12, <4>1, <4>2, <4>3
    <3> QED
      BY <3>1, <3>2 DEF Unseen
  <2> QED
    BY <2>1, <2>2 DEF Reported
<1>16. \A i \in DOMAIN rs : \/ i \in DOMAIN results /\ rs[i] = results[i]
                            \/ rs[i].status = "Skipped" /\ rs[i].reason = why /\ rs[i].step \in Unseen
  BY <1>10, <1>12
<1>17. Longer(results, rs)
  BY <1>11 DEF Longer
<1> QED
  BY <1>7, <1>8, <1>14, <1>15, <1>16, <1>17

LEMMA KeepFinish == ASSUME IInv, Finish PROVE IInv'
<1>0. /\ flow' = flow /\ nodes' = nodes /\ pc = "finish" /\ pc' = "join" /\ done' = TRUE
      /\ ready' = ready /\ ready_head' = ready_head /\ in_degree' = in_degree /\ failed' = failed
      /\ in_flight' = in_flight /\ queue' = queue /\ worker' = worker /\ item' = item
      /\ chan' = chan /\ begun' = begun /\ cancelled' = cancelled /\ clock' = clock
  BY DEF Finish, book, fleet, env
<1>1. Open /\ leftover = 0 /\ TypeOK
  BY <1>0 DEF Open, IInv
<1>2. /\ results \in Seq(StepResult) /\ Len(results) \in Nat /\ N \in Nat
      /\ \A i \in DOMAIN results : results[i].step \in Step
  BY Typed
<1>3. Len(results) <= N /\ (Len(results) = N <=> Reported(results) = Step)
  BY <1>2, ResultsCounted DEF IInv, OneResultPerStep
<1>4. FinishReason \in Reason
  BY DEF FinishReason, Reason
<1>5. \A i \in DOMAIN results : results[i].reason # "not_scheduled"
  BY <1>1 DEF IInv, Accounts
<1>6. /\ results' \in Seq(StepResult) /\ Longer(results, results')
      /\ Reported(results') = Step
      /\ \A i, j \in DOMAIN results' : results'[i].step = results'[j].step => i = j
      /\ \A i \in DOMAIN results' :
            \/ i \in DOMAIN results /\ results'[i] = results[i]
            \/ /\ results'[i].status = "Skipped" /\ results'[i].reason = FinishReason
               /\ results'[i].step \in Unseen
  <2>1. CASE Len(results) < N
    <3>1. results' = WithSkips(FinishReason)
      BY <2>1 DEF Finish, WithSkips
    <3>2. PICK why \in Reason : why = FinishReason
      BY <1>4
    <3> QED
      BY <3>1, <3>2, Skipped
  <2>2. CASE ~(Len(results) < N)
    <3>1. results' = results
      BY <2>2 DEF Finish
    <3>2. Reported(results) = Step
      BY <1>2, <1>3, <2>2
    <3>3. \A i, j \in DOMAIN results : results[i].step = results[j].step => i = j
      BY DEF IInv, OneResultPerStep
    <3> QED
      BY <1>2, <3>1, <3>2, <3>3 DEF Longer
  <2> QED
    BY <2>1, <2>2
<1>7. TypeOK'
  BY <1>0, <1>1, <1>6, Clean DEF TypeOK
<1>8. Outstanding' = Outstanding /\ Apart' /\ Hands' /\ Panicked' = Panicked
  BY <1>0, FleetSame
<1>9. InFlightIsOutstanding'
  BY <1>0, <1>8 DEF IInv, InFlightIsOutstanding
<1>10. Accounts' /\ Motives' /\ NoWorkerLeft'
  BY <1>0 DEF Accounts, Open, Motives, NoWorkerLeft
<1>11. OneResultPerStep'
  BY <1>6 DEF OneResultPerStep
<1>12. BegunOnce'
  <2>1. \A i \in DOMAIN results' : results'[i].status = "Completed" => results'[i].step \in begun
    BY <1>6 DEF IInv, BegunOnce
  <2> QED
    BY <1>0, <2>1 DEF IInv, BegunOnce, Open
<1>13. DependencyOrder'
  BY <1>0, <1>6, <1>8, OrderKept
<1>14. Closed'
  <2>1. Len(results') = N
    BY <1>6, ResultsCounted
  <2>2. ASSUME Panicked = {}, clock = "before", NEW i \in DOMAIN results'
        PROVE  results'[i].reason # "not_scheduled"
    <3>1. CASE i \in DOMAIN results /\ results'[i] = results[i]
      BY <1>5, <3>1
    <3>2. CASE results'[i].reason = FinishReason /\ results'[i].step \in Unseen
      <4>1. CASE cancelled
        BY <3>2, <4>1 DEF FinishReason
      <4>2. CASE ~cancelled
        <5>1. Len(results) >= N \/ in_flight = 0
          BY <1>0, <2>2, <4>2 DEF IInv, Motives
        <5>2. ready_head = Len(ready)
          BY <1>0 DEF IInv, Motives
        <5>3. Reported(results) = Step
          BY <1>1, <1>2, <1>3, <5>1, <5>2, NothingLeft
        <5> QED
          BY <3>2, <5>3 DEF Unseen
      <4> QED
        BY <4>1, <4>2
    <3> QED
      BY <1>6, <3>1, <3>2
  <2> QED
    BY <1>0, <1>6, <1>8, <2>1, <2>2 DEF Closed
<1> QED
  BY <1>1, <1>7, <1>8, <1>9, <1>10, <1>11, <1>12, <1>13, <1>14 DEF IInv

(***************************************************************************)
(* The workers.                                                            *)
(***************************************************************************)

\* A worker leaves the coordinator's state alone and the outstanding steps
\* what they are, unless the coordinator is gone.
LEMMA WorkerFrame ==
  ASSUME IInv, UNCHANGED <<flow, nodes, pc, book, in_flight, results, done, env>>,
         TypeOK', Apart', Hands',
         Outstanding' \subseteq Outstanding, pc # "dropped" => Outstanding' = Outstanding,
         begun \subseteq begun', begun' \subseteq begun \cup Outstanding,
         \A n \in Node : queue'[n] \cap begun' = {} /\ (item'[n] # 0 => item'[n] \in begun'),
         \A i \in DOMAIN chan' : chan'[i].step \in begun' /\ chan'[i].reason # "not_scheduled",
         Panicked \subseteq Panicked',
         \A n \in nodes : worker[n] \in {"exited", "panicked"} => worker'[n] = worker[n]
  PROVE  IInv'
<1>0. /\ flow' = flow /\ nodes' = nodes /\ pc' = pc /\ ready' = ready /\ ready_head' = ready_head
      /\ in_degree' = in_degree /\ failed' = failed /\ in_flight' = in_flight /\ results' = results
      /\ done' = done /\ cancelled' = cancelled /\ clock' = clock
  BY DEF book, env
<1>1. InFlightIsOutstanding'
  BY <1>0 DEF IInv, InFlightIsOutstanding
<1>2. TakenSteps' = TakenSteps
  BY <1>0 DEF TakenSteps
<1>3. Open' => Open /\ pc # "dropped"
  BY <1>0 DEF Open
<1>4. Accounts'
  <2>1. Open => /\ BookInv(flow, in_degree, ready, Reported(results))
                /\ TakenSteps = Outstanding \cup Reported(results)
                /\ Outstanding \cap Reported(results) = {}
                /\ \A i \in DOMAIN results : /\ results[i].reason # "not_scheduled"
                                             /\ \/ results[i].reason = "condition_not_met"
                                                \/ results[i].status = "Completed"
                                                \/ failed[results[i].step]
    BY DEF IInv, Accounts
  <2>2. BookInv(flow, in_degree, ready, Reported(results)) = BookInv(flow, in_degree, ready, Reported(results))'
    BY <1>0
  <2> QED
    BY <1>0, <1>2, <1>3, <2>1, <2>2 DEF Accounts
<1>5. OneResultPerStep'
  BY <1>0 DEF IInv, OneResultPerStep
<1>6. BegunOnce'
  <2>1. \A i \in DOMAIN results : results[i].status = "Completed" => results[i].step \in begun
    BY DEF IInv, BegunOnce
  <2>2. Open' => begun' \subseteq TakenSteps
    BY <1>3 DEF IInv, BegunOnce, Accounts
  <2> QED
    BY <1>0, <1>2, <2>1, <2>2 DEF BegunOnce
<1>7. DependencyOrder'
  BY <1>0, OrderKept DEF Longer
<1>8. Motives'
  BY <1>0 DEF IInv, Motives
<1>9. Closed'
  BY <1>0 DEF IInv, Closed
<1>10. NoWorkerLeft'
  BY <1>0 DEF IInv, NoWorkerLeft
<1> QED
  BY <1>1, <1>4, <1>5, <1>6, <1>7, <1>8, <1>9, <1>10 DEF IInv

\* A worker moves and takes, sends and drops nothing.
LEMMA KeepWalk ==
  ASSUME IInv, NEW n \in Node, LookAtDone(n) \/ Exit(n) \/ DequeueNothing(n) \/ Panic(n)
  PROVE  IInv'
<1>0. /\ UNCHANGED <<flow, nodes, pc, book, in_flight, results, done, env>>
      /\ nodes' = nodes /\ queue' = queue /\ item' = item /\ chan' = chan /\ begun' = begun
  BY DEF LookAtDone, Exit, DequeueNothing, Panic
<1>1. PICK w \in {"top", "dequeue", "executing", "exited", "panicked"} :
        /\ worker' = [worker EXCEPT ![n] = w]
        /\ worker[n] \in {"top", "dequeue", "executing"}
        /\ w \in {"executing", "panicked"} <=> worker[n] = "executing"
  BY DEF LookAtDone, Exit, DequeueNothing, Panic
<1>2. worker \in [Node -> {"none", "top", "dequeue", "executing", "exited", "panicked"}]
  BY Typed
<1>3. /\ worker' \in [Node -> {"none", "top", "dequeue", "executing", "exited", "panicked"}]
      /\ worker'[n] = w /\ \A m \in Node : m # n => worker'[m] = worker[m]
  BY <1>1, <1>2
<1>4. TypeOK'
  BY <1>0, <1>3 DEF IInv, TypeOK, book, env
<1>5. Outstanding' = Outstanding
  BY <1>0 DEF Outstanding
<1>6. Apart'
  BY <1>0 DEF IInv, Apart
<1>7. Hands'
  <2>1. \A m \in Node : /\ item[m] # 0 <=> worker[m] \in {"executing", "panicked"}
                        /\ m \in nodes <=> worker[m] # "none"
                        /\ m \notin nodes => queue[m] = {}
    BY DEF IInv, Hands
  <2>2. /\ item[n] # 0 <=> w \in {"executing", "panicked"}
        /\ n \in nodes /\ w # "none"
    BY <1>1, <2>1
  <2> QED
    BY <1>0, <1>3, <2>1, <2>2 DEF Hands
<1>8. nodes \subseteq Node
  BY Typed
<1>9. /\ Panicked \subseteq Panicked'
      /\ \A m \in nodes : worker[m] \in {"exited", "panicked"} => worker'[m] = worker[m]
  BY <1>0, <1>1, <1>3, <1>8 DEF Panicked
<1>10. /\ \A m \in Node : queue'[m] \cap begun' = {} /\ (item'[m] # 0 => item'[m] \in begun')
       /\ \A i \in DOMAIN chan' : chan'[i].step \in begun' /\ chan'[i].reason # "not_scheduled"
  BY <1>0 DEF IInv, BegunOnce
<1> QED
  BY <1>0, <1>4, <1>5, <1>6, <1>7, <1>9, <1>10, WorkerFrame

LEMMA KeepDequeue ==
  ASSUME IInv, NEW n \in Node, NEW x \in Item, dequeue(n, x)
  PROVE  IInv'
<1>0. /\ UNCHANGED <<flow, nodes, pc, book, in_flight, results, done, env>>
      /\ nodes' = nodes /\ chan' = chan /\ worker[n] = "dequeue" /\ x \in queue[n]
      /\ queue' = [queue EXCEPT ![n] = @ \ {x}] /\ item' = [item EXCEPT ![n] = x]
      /\ worker' = [worker EXCEPT ![n] = "executing"] /\ begun' = begun \cup ({x} \cap Step)
  BY DEF dequeue
<1>1. /\ queue \in [Node -> SUBSET Step] /\ item \in [Node -> Step \cup {0}]
      /\ worker \in [Node -> {"none", "top", "dequeue", "executing", "exited", "panicked"}]
      /\ nodes \subseteq Node /\ begun \subseteq Step /\ 0 \notin Step
  BY Typed
<1>2. x \in Step /\ x # 0 /\ leftover = 0 /\ begun' = begun \cup {x}
  BY <1>0, <1>1 DEF IInv
<1>3. /\ queue' \in [Node -> SUBSET Step] /\ x \notin queue'[n]
      /\ \A m \in Node : queue'[m] \subseteq queue[m]
      /\ \A m \in Node : \A y \in queue[m] : y \in queue'[m] \/ (m = n /\ y = x)
  BY <1>0, <1>1
<1>4. /\ item' \in [Node -> Step \cup {0}] /\ item'[n] = x
      /\ \A m \in Node : m # n => item'[m] = item[m]
  BY <1>0, <1>1, <1>2
<1>5. /\ worker' \in [Node -> {"none", "top", "dequeue", "executing", "exited", "panicked"}]
      /\ worker'[n] = "executing" /\ \A m \in Node : m # n => worker'[m] = worker[m]
  BY <1>0, <1>1
<1>6. TypeOK'
  <2>1. queue' \in [Node -> SUBSET Item] /\ item' \in [Node -> Item \cup {0}]
    BY <1>2, <1>3, <1>4, Clean
  <2>2. begun' \subseteq Step
    BY <1>1, <1>2
  <2> QED
    BY <1>0, <1>5, <2>1, <2>2 DEF IInv, TypeOK, book, env
<1>7. \A m \in Node : /\ item[m] # 0 <=> worker[m] \in {"executing", "panicked"}
                      /\ m \in nodes <=> worker[m] # "none"
                      /\ m \notin nodes => queue[m] = {}
  BY DEF IInv, Hands
<1>8. item[n] = 0 /\ n \in nodes
  BY <1>0, <1>7
<1>9. Hands'
  BY <1>0, <1>2, <1>3, <1>4, <1>5, <1>7, <1>8 DEF Hands
<1>10. /\ \A k, m \in Node : k # m => queue[k] \cap queue[m] = {}
       /\ \A k, m \in Node : item[k] # 0 => item[k] \notin queue[m] /\ (item[m] = item[k] => k = m)
       /\ \A i \in DOMAIN chan, k \in Node : chan[i].step \notin queue[k] /\ chan[i].step # item[k]
       /\ \A i, j \in DOMAIN chan : chan[i].step = chan[j].step => i = j
  BY DEF IInv, Apart
<1>11. Apart'
  <2>1. \A k, m \in Node : k # m => queue'[k] \cap queue'[m] = {}
    BY <1>3, <1>10
  <2>2. ASSUME NEW k \in Node, NEW m \in Node, item'[k] # 0
        PROVE  item'[k] \notin queue'[m] /\ (item'[m] = item'[k] => k = m)
    <3>1. CASE k = n
      BY <1>0, <1>2, <1>3, <1>4, <1>10, <3>1
    <3>2. CASE k # n
      BY <1>0, <1>2, <1>3, <1>4, <1>10, <2>2, <3>2
    <3> QED
      BY <3>1, <3>2
  <2>3. \A i \in DOMAIN chan, k \in Node : chan[i].step \notin queue'[k] /\ chan[i].step # item'[k]
    BY <1>0, <1>3, <1>4, <1>10
  <2> QED
    BY <1>0, <1>10, <2>1, <2>2, <2>3 DEF Apart
<1>12. Outstanding' = Outstanding
  <2>1. \A y : y \in Outstanding' <=> \/ \E k \in Node : y \in queue'[k]
                                      \/ \E k \in Node : item'[k] = y /\ y # 0
                                      \/ \E i \in DOMAIN chan' : chan'[i].step = y
    BY DEF Outstanding
  <2>2. ASSUME NEW y \in Outstanding PROVE y \in Outstanding'
    <3>1. CASE \E k \in Node : y \in queue[k]
      BY <1>2, <1>3, <1>4, <2>1, <3>1
    <3>2. CASE \E k \in Node : item[k] = y /\ y # 0
      BY <1>4, <1>8, <2>1, <3>2
    <3>3. CASE \E i \in DOMAIN chan : chan[i].step = y
      BY <1>0, <2>1, <3>3
    <3> QED
      BY <3>1, <3>2, <3>3, InOutstanding
  <2>3. ASSUME NEW y \in Outstanding' PROVE y \in Outstanding
    <3>1. CASE \E k \in Node : y \in queue'[k]
      BY <1>3, <3>1, InOutstanding
    <3>2. CASE \E k \in Node : item'[k] = y /\ y # 0
      BY <1>0, <1>4, <3>2, InOutstanding
    <3>3. CASE \E i \in DOMAIN chan' : chan'[i].step = y
      BY <1>0, <3>3, InOutstanding
    <3> QED
      BY <2>1, <3>1, <3>2, <3>3
  <2> QED
    BY <2>2, <2>3
<1>13. x \in Outstanding
  BY <1>0, InOutstanding
<1>14. /\ \A m \in Node : queue[m] \cap begun = {} /\ (item[m] # 0 => item[m] \in begun)
       /\ \A i \in DOMAIN chan : chan[i].step \in begun /\ chan[i].reason # "not_scheduled"
  BY DEF IInv, BegunOnce
<1>15. \A m \in Node : queue'[m] \cap begun' = {} /\ (item'[m] # 0 => item'[m] \in begun')
  <2> SUFFICES ASSUME NEW m \in Node
               PROVE  queue'[m] \cap begun' = {} /\ (item'[m] # 0 => item'[m] \in begun')
    OBVIOUS
  <2>1. x \notin queue'[m]
    BY <1>0, <1>3, <1>10
  <2>2. item'[m] = x \/ item'[m] = item[m]
    BY <1>4
  <2> QED
    BY <1>2, <1>3, <1>14, <2>1, <2>2
<1>16. /\ Panicked \subseteq Panicked'
       /\ \A m \in nodes : worker[m] \in {"exited", "panicked"} => worker'[m] = worker[m]
  BY <1>0, <1>1, <1>5 DEF Panicked
<1>17. \A i \in DOMAIN chan' : chan'[i].step \in begun' /\ chan'[i].reason # "not_scheduled"
  BY <1>0, <1>2, <1>14
<1>18. begun \subseteq begun' /\ begun' \subseteq begun \cup Outstanding
  BY <1>2, <1>13
<1> QED
  BY <1>0, <1>6, <1>9, <1>11, <1>12, <1>15, <1>16, <1>17, <1>18, WorkerFrame

LEMMA KeepDeliver ==
  ASSUME IInv, NEW n \in Node, NEW st \in {"Completed", "Failed"}, Deliver(n, st)
  PROVE  IInv'
<1>0. /\ UNCHANGED <<flow, nodes, pc, book, in_flight, results, done, env>>
      /\ nodes' = nodes /\ pc' = pc /\ queue' = queue /\ begun' = begun /\ worker[n] = "executing"
      /\ chan' = IF pc = "dropped" THEN chan ELSE Append(chan, Executed(item[n], st))
      /\ item' = [item EXCEPT ![n] = 0]
      /\ worker' = [worker EXCEPT ![n] = IF pc = "dropped" THEN "exited" ELSE "top"]
  BY DEF Deliver
<1>1. /\ queue \in [Node -> SUBSET Step] /\ item \in [Node -> Step \cup {0}]
      /\ worker \in [Node -> {"none", "top", "dequeue", "executing", "exited", "panicked"}]
      /\ nodes \subseteq Node /\ begun \subseteq Step /\ 0 \notin Step
      /\ chan \in Seq(StepResult) /\ Len(chan) \in Nat /\ DOMAIN chan = 1 .. Len(chan)
  BY Typed
<1>2. \A m \in Node : /\ item[m] # 0 <=> worker[m] \in {"executing", "panicked"}
                      /\ m \in nodes <=> worker[m] # "none"
                      /\ m \notin nodes => queue[m] = {}
  BY DEF IInv, Hands
<1>3. PICK x \in Step : x = item[n] /\ x # 0 /\ n \in nodes
  BY <1>0, <1>1, <1>2
<1>4. PICK r \in StepResult : r = Executed(x, st) /\ r.step = x /\ r.reason # "not_scheduled"
  <2>1. /\ Executed(x, st) \in StepResult /\ Executed(x, st).step = x
        /\ Executed(x, st).reason # "not_scheduled"
    BY DEF Executed, StepResult, Status, Reason
  <2> QED
    BY <2>1
<1>5. /\ item' \in [Node -> Step \cup {0}] /\ item'[n] = 0
      /\ \A m \in Node : m # n => item'[m] = item[m]
  BY <1>0, <1>1
<1>6. PICK w \in {"exited", "top"} : worker' = [worker EXCEPT ![n] = w]
  BY <1>0
<1>7. /\ worker' \in [Node -> {"none", "top", "dequeue", "executing", "exited", "panicked"}]
      /\ worker'[n] \in {"exited", "top"} /\ \A m \in Node : m # n => worker'[m] = worker[m]
  BY <1>1, <1>6
<1>8. /\ chan' \in Seq(StepResult)
      /\ \A i \in DOMAIN chan : i \in DOMAIN chan' /\ chan'[i] = chan[i]
      /\ \A i \in DOMAIN chan' : i \in DOMAIN chan \/ (i = Len(chan) + 1 /\ chan'[i] = r)
      /\ pc # "dropped" => Len(chan) + 1 \in DOMAIN chan' /\ chan'[Len(chan) + 1] = r
  <2>1. CASE pc = "dropped"
    <3>1. chan' = chan
      BY <1>0, <2>1
    <3> QED
      BY <1>1, <2>1, <3>1
  <2>2. CASE pc # "dropped"
    <3>1. chan' = Append(chan, r)
      BY <1>0, <1>3, <1>4, <2>2
    <3>2. /\ chan' \in Seq(StepResult) /\ Len(chan') = Len(chan) + 1
          /\ DOMAIN chan' = 1 .. Len(chan) + 1
          /\ \A i \in 1 .. Len(chan) : chan'[i] = chan[i]
          /\ chan'[Len(chan) + 1] = r
      BY <1>1, <3>1, AppendProperties, LenProperties
    <3>3. /\ \A i \in DOMAIN chan : i \in DOMAIN chan'
          /\ \A i \in DOMAIN chan' : i \in DOMAIN chan \/ i = Len(chan) + 1
          /\ Len(chan) + 1 \in DOMAIN chan'
      BY <1>1, <3>2
    <3> QED
      BY <1>1, <3>2, <3>3
  <2> QED
    BY <2>1, <2>2
<1>9. TypeOK'
  <2>1. item' \in [Node -> Item \cup {0}] /\ chan' \in Seq(Result)
    BY <1>5, <1>8, Clean DEF IInv
  <2> QED
    BY <1>0, <1>7, <2>1 DEF IInv, TypeOK, book, env
<1>10. Hands'
  BY <1>0, <1>2, <1>3, <1>5, <1>7 DEF Hands
<1>11. /\ \A k, m \in Node : k # m => queue[k] \cap queue[m] = {}
       /\ \A k, m \in Node : item[k] # 0 => item[k] \notin queue[m] /\ (item[m] = item[k] => k = m)
       /\ \A i \in DOMAIN chan, k \in Node : chan[i].step \notin queue[k] /\ chan[i].step # item[k]
       /\ \A i, j \in DOMAIN chan : chan[i].step = chan[j].step => i = j
  BY DEF IInv, Apart
<1>12. Apart'
  <2>1. ASSUME NEW k \in Node, NEW m \in Node, item'[k] # 0
        PROVE  item'[k] \notin queue[m] /\ (item'[m] = item'[k] => k = m)
    <3>1. k # n /\ item'[k] = item[k]
      BY <1>5, <2>1
    <3> QED
      BY <1>5, <1>11, <2>1, <3>1
  <2>2. ASSUME NEW i \in DOMAIN chan', NEW k \in Node
        PROVE  chan'[i].step \notin queue[k] /\ chan'[i].step # item'[k]
    <3>1. CASE i \in DOMAIN chan
      <4>1. chan'[i].step \in Step
        <5>1. chan'[i] \in StepResult
          BY <1>8, ElementOfSeq, LenProperties
        <5> QED
          BY <5>1 DEF StepResult
      <4> QED
        BY <1>1, <1>5, <1>8, <1>11, <3>1, <4>1
    <3>2. CASE chan'[i] = r
      BY <1>1, <1>3, <1>4, <1>5, <1>11, <3>2
    <3> QED
      BY <1>8, <3>1, <3>2
  <2>3. ASSUME NEW i \in DOMAIN chan', NEW j \in DOMAIN chan', chan'[i].step = chan'[j].step
        PROVE  i = j
    <3>1. \A k \in DOMAIN chan : chan[k].step # x
      BY <1>3, <1>11
    <3> QED
      BY <1>4, <1>8, <1>11, <2>3, <3>1
  <2> QED
    BY <1>0, <1>11, <2>1, <2>2, <2>3 DEF Apart
<1>13. \A y : y \in Outstanding' <=> \/ \E k \in Node : y \in queue'[k]
                                     \/ \E k \in Node : item'[k] = y /\ y # 0
                                     \/ \E i \in DOMAIN chan' : chan'[i].step = y
  BY DEF Outstanding
<1>14. ASSUME NEW y \in Outstanding' PROVE y \in Outstanding
  <2>1. CASE \E k \in Node : y \in queue'[k]
    BY <1>0, <2>1, InOutstanding
  <2>2. CASE \E k \in Node : item'[k] = y /\ y # 0
    BY <1>5, <2>2, InOutstanding
  <2>3. CASE \E i \in DOMAIN chan' : chan'[i].step = y
    BY <1>3, <1>4, <1>8, <2>3, InOutstanding
  <2> QED
    BY <1>13, <1>14, <2>1, <2>2, <2>3
<1>15. ASSUME pc # "dropped", NEW y \in Outstanding PROVE y \in Outstanding'
  <2>1. CASE \E k \in Node : y \in queue[k]
    BY <1>0, <1>13, <2>1
  <2>2. CASE \E k \in Node : item[k] = y /\ y # 0
    BY <1>3, <1>4, <1>5, <1>8, <1>13, <1>15, <2>2
  <2>3. CASE \E i \in DOMAIN chan : chan[i].step = y
    BY <1>8, <1>13, <2>3
  <2> QED
    BY <2>1, <2>2, <2>3, InOutstanding
<1>16. /\ \A m \in Node : queue[m] \cap begun = {} /\ (item[m] # 0 => item[m] \in begun)
       /\ \A i \in DOMAIN chan : chan[i].step \in begun /\ chan[i].reason # "not_scheduled"
  BY DEF IInv, BegunOnce
<1>17. \A m \in Node : queue'[m] \cap begun' = {} /\ (item'[m] # 0 => item'[m] \in begun')
  BY <1>0, <1>5, <1>16
<1>18. \A i \in DOMAIN chan' : chan'[i].step \in begun' /\ chan'[i].reason # "not_scheduled"
  BY <1>0, <1>3, <1>4, <1>8, <1>16
<1>19. /\ Panicked \subseteq Panicked'
       /\ \A m \in nodes : worker[m] \in {"exited", "panicked"} => worker'[m] = worker[m]
  BY <1>0, <1>1, <1>7 DEF Panicked
<1>20. /\ Outstanding' \subseteq Outstanding /\ (pc # "dropped" => Outstanding' = Outstanding)
       /\ begun \subseteq begun' /\ begun' \subseteq begun \cup Outstanding
  BY <1>0, <1>14, <1>15
<1> QED
  BY <1>0, <1>9, <1>10, <1>12, <1>17, <1>18, <1>19, <1>20, WorkerFrame

(***************************************************************************)
(* The invariant.                                                          *)
(***************************************************************************)

LEMMA InitIInv == ASSUME leftover = 0, Init PROVE IInv
<1>0. N + 1 .. N + leftover = {}
  BY NAssumption
<1>1. queue \in [Node -> SUBSET {}] /\ \A n \in Node : queue[n] = {}
  <2>1. queue \in [Node -> SUBSET {}]
    BY <1>0 DEF Init
  <2> QED
    BY <2>1
<1>2. Outstanding = {}
  BY <1>1 DEF Init, Outstanding
<1>3. flow \in FlowDef /\ validate(flow) /\ flow \in Flows /\ nodes \in Fleets
  BY FlowsAssumption DEF Init
<1>4. /\ ready \in Seq(Step) /\ in_degree \in [Step -> Nat]
      /\ BookInv(flow, in_degree, ready, {})
  BY <1>3, BookInit DEF Init
<1>5. Reported(results) = {} /\ DOMAIN results = {} /\ DOMAIN chan = {} /\ begun = {}
  BY DEF Init, Reported
<1>6. TypeOK
  <2>1. ready_head \in 0 .. Len(ready)
    BY <1>4 DEF Init
  <2>2. in_flight \in 0 .. N
    BY NAssumption DEF Init
  <2>3. results \in Seq(Result) /\ chan \in Seq(Result)
    BY DEF Init
  <2>4. queue \in [Node -> SUBSET Item]
    BY <1>1
  <2>5. /\ worker \in [Node -> {"none", "top", "dequeue", "executing", "exited", "panicked"}]
        /\ item \in [Node -> Item \cup {0}] /\ failed \in [Step -> BOOLEAN]
    BY DEF Init
  <2> QED
    BY <1>3, <1>4, <1>5, <2>1, <2>2, <2>3, <2>4, <2>5 DEF TypeOK, Init
<1>7. Apart
  BY <1>1, <1>5 DEF Apart, Init
<1>8. Hands
  BY <1>1 DEF Hands, Init
<1>9. InFlightIsOutstanding
  BY <1>2, FS_EmptySet DEF InFlightIsOutstanding, Init
<1>10. TakenSteps = {}
  BY DEF TakenSteps, Init
<1>11. Accounts
  BY <1>2, <1>4, <1>5, <1>10 DEF Accounts
<1>12. OneResultPerStep
  BY <1>5 DEF OneResultPerStep
<1>13. BegunOnce
  <2>1. \A n \in Node : item[n] = 0
    BY DEF Init
  <2> QED
    BY <1>1, <1>5, <2>1 DEF BegunOnce
<1>14. DependencyOrder
  BY <1>2, <1>5 DEF DependencyOrder
<1>15. Motives /\ Closed /\ NoWorkerLeft
  BY DEF Motives, Closed, NoWorkerLeft, Init
<1> QED
  BY <1>6, <1>7, <1>8, <1>9, <1>11, <1>12, <1>13, <1>14, <1>15 DEF IInv

LEMMA StutterIInv == ASSUME IInv, UNCHANGED vars PROVE IInv'
<1>0. /\ UNCHANGED <<flow, nodes, book, in_flight, results, fleet, chan, begun>> /\ pc' = pc
      /\ done' = done /\ cancelled' = cancelled /\ clock' = clock
  BY DEF vars, env
<1>1. TypeOK'
  BY <1>0 DEF IInv, TypeOK, book, fleet
<1>2. Panicked' = Panicked
  BY <1>0 DEF Panicked, fleet
<1>3. Motives' /\ Closed' /\ NoWorkerLeft'
  BY <1>0, <1>2 DEF IInv, Motives, Closed, NoWorkerLeft, book, fleet
<1> QED
  BY <1>0, <1>1, <1>3, PcMove DEF Open

LEMMA NextIInv == IInv /\ [Next]_vars => IInv'
<1> SUFFICES ASSUME IInv, [Next]_vars PROVE IInv'
  OBVIOUS
<1>1. CASE Coordinator
  BY <1>1, KeepEndSubmit, KeepReceive, KeepStopWaiting, KeepFinish, KeepJoinWorkers, KeepSkips,
     KeepSubmit DEF Coordinator
<1>2. CASE \E n \in Node : Worker(n)
  BY <1>2, KeepWalk, KeepDequeue, KeepDeliver DEF Worker
<1>3. CASE Cancel \/ Tick \/ Abandon
  BY <1>3, KeepEnvironment
<1>4. CASE UNCHANGED vars
  BY <1>4, StutterIInv
<1> QED
  BY <1>1, <1>2, <1>3, <1>4 DEF Next

\* On a fleet without items of an earlier run, every step that run_distributed_dag
\* took is queued, in a worker's hands, in a message or reported, and nowhere else.
THEOREM Invariance == ASSUME leftover = 0 PROVE Spec => []IInv
<1>1. Init => IInv
  BY InitIInv
<1> QED
  BY <1>1, NextIInv, PTL DEF Spec

\* On a fleet without items of an earlier run, in every interleaving of the
\* coordinator, the workers, panics, cancellation and the clock: in_flight is
\* the number of steps that are out, no step is submitted before its
\* dependencies passed, a run whose workers lived and whose time was not
\* reached leaves no step unscheduled, and no worker outlives the run.
THEOREM DistributedSafe == ASSUME leftover = 0 PROVE Spec => []Inv
<1>1. IInv => Inv
  <2> SUFFICES ASSUME IInv PROVE Inv
    OBVIOUS
  <2>1. NothingUnscheduled
    BY DEF IInv, Closed, NothingUnscheduled
  <2> QED
    BY <2>1 DEF IInv, Inv
<1> QED
  BY <1>1, Invariance, PTL

\* "Returns one [`StepResult`] per step", in the words of run_distributed_dag:
\* on a fleet without items of an earlier run it does, whatever panics, is
\* cancelled or runs out of time.
THEOREM DistributedReportsAll == ASSUME leftover = 0 PROVE Spec => []OneResultForEachStep
<1>1. IInv => OneResultForEachStep
  BY DEF IInv, Closed, OneResultForEachStep
<1> QED
  BY <1>1, Invariance, PTL

-----------------------------------------------------------------------------
(***************************************************************************)
(* run_distributed_dag implements FlowContract with MayAbandon = TRUE.  A  *)
(* dequeue begins a step, a push is a report, JoinWorkers returns, and     *)
(* every other step of the model is a stutter of the contract.             *)
(***************************************************************************)

LEMMA RefineStutter ==
  ASSUME results' = results, begun' = begun, pc' = "done" <=> pc = "done"
  PROVE  UNCHANGED Contract!vars
<1>1. Outcome' = Outcome
  BY DEF Outcome
<1>2. (pc = "done")' = (pc = "done")
  OBVIOUS
<1> QED
  BY <1>1, <1>2 DEF Contract!vars

LEMMA RefineReport ==
  ASSUME IInv, IInv', Longer(results, results'), begun' = begun, pc # "done", pc' # "done"
  PROVE  Contract!Report
<1>1. (pc = "done") = FALSE /\ (pc = "done")' = FALSE
  OBVIOUS
<1> DEFINE o == OutcomeIn(results)
           p == OutcomeIn(results')
<1>2. Outcome = o /\ Outcome' = p
  BY DEF Outcome, OutcomeIn, Reported
<1>3. /\ results \in Seq(StepResult) /\ results' \in Seq(StepResult)
      /\ \A i, j \in DOMAIN results : results[i].step = results[j].step => i = j
      /\ \A i, j \in DOMAIN results' : results'[i].step = results'[j].step => i = j
  BY Clean DEF IInv, TypeOK, OneResultPerStep
<1>4. /\ \A i \in DOMAIN results : o[results[i].step] = results[i].status
      /\ \A s \in Step : (\A i \in DOMAIN results : results[i].step # s) => o[s] = "none"
  BY <1>3, OutcomeOf
<1>5. /\ \A i \in DOMAIN results' : p[results'[i].step] = results'[i].status
      /\ \A s \in Step : (\A i \in DOMAIN results' : results'[i].step # s) => p[s] = "none"
      /\ p \in [Step -> Status \cup {"none"}]
  BY <1>3, OutcomeOf
<1> HIDE DEF o, p
<1>6. ASSUME NEW s \in Step, p[s] # o[s]
      PROVE  o[s] = "none" /\ (p[s] = "Completed" => s \in begun)
  <2>1. \A i \in DOMAIN results : results[i].step # s
    BY <1>4, <1>5, <1>6 DEF Longer
  <2>2. o[s] = "none"
    BY <1>4, <2>1
  <2>3. PICK i \in DOMAIN results' : results'[i].step = s
    BY <1>5, <1>6, <2>2
  <2>4. p[s] = results'[i].status
    BY <1>5, <2>3
  <2> QED
    BY <2>2, <2>3, <2>4 DEF IInv, BegunOnce
<1> QED
  BY <1>1, <1>2, <1>5, <1>6 DEF Contract!Report, Contract!Status, Contract!Step, Status, Step

LEMMA RefinePush ==
  ASSUME IInv, IInv', NEW r \in StepResult, results' = Append(results, r), begun' = begun,
         pc # "done", pc' # "done"
  PROVE  Contract!Report
<1>1. Longer(results, results')
  BY ResultPushed DEF Longer
<1> QED
  BY <1>1, RefineReport

LEMMA RefineSettle ==
  ASSUME IInv, IInv', NEW s \in Step, SkipDepFailed(s) \/ SkipCondition(s) \/ Refuse(s)
  PROVE  Contract!Report
<1>1. /\ Skip(s, "dependency_failed") \in StepResult /\ Skip(s, "condition_not_met") \in StepResult
      /\ Fail(s, "no_fleet_node_available") \in StepResult
  BY DEF Skip, Fail, StepResult, Status, Reason
<1>2. PICK r \in StepResult : results' = Append(results, r)
  BY <1>1 DEF SkipDepFailed, SkipCondition, Refuse
<1>3. pc # "done" /\ pc' # "done" /\ begun' = begun
  BY DEF SkipDepFailed, SkipCondition, Refuse, Take
<1> QED
  BY <1>2, <1>3, RefinePush

LEMMA RefineReceive == ASSUME IInv, IInv', Receive PROVE Contract!Report
<1>1. /\ pc # "done" /\ pc' # "done" /\ begun' = begun /\ results' = Append(results, Head(chan))
      /\ chan # <<>> /\ chan \in Seq(StepResult)
  BY Typed DEF Receive
<1>2. Head(chan) \in StepResult
  BY <1>1, HeadTailProperties
<1> QED
  BY <1>1, <1>2, RefinePush

LEMMA RefineFinish == ASSUME IInv, IInv', Finish PROVE Contract!Report
<1>1. pc # "done" /\ pc' # "done" /\ begun' = begun
  BY DEF Finish
<1>2. FinishReason \in Reason
  BY DEF FinishReason, Reason
<1>3. results' = results \/ results' = WithSkips(FinishReason)
  BY DEF Finish, WithSkips
<1>4. Longer(results, WithSkips(FinishReason))
  BY <1>2, Skipped
<1>5. Longer(results, results')
  BY <1>3, <1>4 DEF Longer
<1> QED
  BY <1>1, <1>5, RefineReport

LEMMA RefineDequeue ==
  ASSUME IInv, NEW n \in Node, NEW x \in Item, dequeue(n, x)
  PROVE  x \in Step /\ Contract!Begin(x)
<1>1. /\ x \in queue[n] /\ begun' = begun \cup ({x} \cap Step) /\ results' = results /\ pc' = pc
  BY DEF dequeue
<1>2. x \in Step
  BY <1>1, Typed
<1>3. x \notin begun /\ begun' = begun \cup {x}
  BY <1>1, <1>2 DEF IInv, BegunOnce
<1>4. Outcome' = Outcome /\ (pc = "done")' = (pc = "done")
  BY <1>1 DEF Outcome
<1> QED
  BY <1>2, <1>3, <1>4 DEF Contract!Begin

LEMMA RefineReturn == ASSUME JoinWorkers PROVE Contract!Return
<1>1. pc = "join" /\ pc' = "done" /\ results' = results /\ begun' = begun
  BY DEF JoinWorkers
<1>2. Outcome' = Outcome
  BY <1>1 DEF Outcome
<1> QED
  BY <1>1, <1>2 DEF Contract!Return

\* The steps of the model that the contract does not see.
LEMMA RefineQuiet ==
  ASSUME \/ EndSubmit \/ StopWaiting \/ Cancel \/ Tick \/ Abandon \/ UNCHANGED vars
         \/ \E s \in Step, n \in Node : Submit(s, n)
         \/ \E n \in Node : \/ LookAtDone(n) \/ Exit(n) \/ DequeueNothing(n) \/ Panic(n)
                            \/ \E st \in {"Completed", "Failed"} : Deliver(n, st)
  PROVE  UNCHANGED Contract!vars
<1>1. CASE EndSubmit \/ StopWaiting \/ Abandon
  <2>1. results' = results /\ begun' = begun /\ pc # "done" /\ pc' # "done"
    BY <1>1 DEF EndSubmit, StopWaiting, Abandon
  <2> QED
    BY <2>1, RefineStutter
<1>2. CASE Cancel \/ Tick \/ UNCHANGED vars \/ \E s \in Step, n \in Node : Submit(s, n)
  <2>1. results' = results /\ begun' = begun /\ pc' = pc
    BY <1>2 DEF Cancel, Tick, Submit, vars
  <2> QED
    BY <2>1, RefineStutter
<1>3. CASE \E n \in Node : \/ LookAtDone(n) \/ Exit(n) \/ DequeueNothing(n) \/ Panic(n)
                           \/ \E st \in {"Completed", "Failed"} : Deliver(n, st)
  <2>1. results' = results /\ begun' = begun /\ pc' = pc
    BY <1>3 DEF LookAtDone, Exit, DequeueNothing, Panic, Deliver
  <2> QED
    BY <2>1, RefineStutter
<1> QED
  BY <1>1, <1>2, <1>3

LEMMA RefineNext == IInv /\ [Next]_vars => [Contract!Next]_(Contract!vars)
<1> SUFFICES ASSUME IInv, [Next]_vars PROVE [Contract!Next]_(Contract!vars)
  OBVIOUS
<1>0. IInv'
  BY NextIInv
<1>1. CASE JoinWorkers
  BY <1>1, RefineReturn DEF Contract!Next
<1>2. CASE Receive \/ Finish \/ \E s \in Step : SkipDepFailed(s) \/ SkipCondition(s) \/ Refuse(s)
  BY <1>0, <1>2, RefineReceive, RefineFinish, RefineSettle DEF Contract!Next
<1>3. CASE \E n \in Node, x \in Item : dequeue(n, x)
  BY <1>3, RefineDequeue DEF Contract!Next, Contract!Step, Step
<1>4. CASE \/ EndSubmit \/ StopWaiting \/ Cancel \/ Tick \/ Abandon \/ UNCHANGED vars
           \/ \E s \in Step, n \in Node : Submit(s, n)
           \/ \E n \in Node : \/ LookAtDone(n) \/ Exit(n) \/ DequeueNothing(n) \/ Panic(n)
                              \/ \E st \in {"Completed", "Failed"} : Deliver(n, st)
  BY <1>4, RefineQuiet
<1> QED
  BY <1>1, <1>2, <1>3, <1>4 DEF Next, Coordinator, Worker

LEMMA RefineInit == Init => Contract!Init
<1> SUFFICES ASSUME Init PROVE Contract!Init
  OBVIOUS
<1>1. results = <<>> /\ begun = {} /\ pc = "submit"
  BY DEF Init
<1>2. Outcome = [s \in Step |-> "none"]
  BY <1>1 DEF Outcome, Reported
<1> QED
  BY <1>1, <1>2 DEF Contract!Init, Contract!Step, Step

\* On a fleet without items of an earlier run run_distributed_dag keeps the
\* executors' contract: a handler is invoked at most once although items move
\* between nodes, a step is reported Completed only behind its handler, no
\* report changes, and none follows the return.
THEOREM DistributedKeepsContract == ASSUME leftover = 0 PROVE Spec => RefinesContract
BY RefineInit, RefineNext, Invariance, PTL DEF Spec, RefinesContract, Contract!Spec

=============================================================================
