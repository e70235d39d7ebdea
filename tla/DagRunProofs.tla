---------------------------- MODULE DagRunProofs ----------------------------
(***************************************************************************)
(* run_dag, for every number of steps, every valid flow and every          *)
(* max_concurrency: IInv is inductive, and the safety properties follow.   *)
(***************************************************************************)
EXTENDS DagRun, DagBookProofs

\* The flow of a run was accepted by validate.
LEMMA FlowValid ==
  ASSUME TypeOK
  PROVE  flow \in FlowDef /\ validate(flow)
BY FlowsAssumption DEF TypeOK

LEMMA PermitsType == Permits \in Nat /\ Permits > 0
BY ConcurrencyAssumption DEF Permits

\* A settled step has a result.
LEMMA SettledReported ==
  ASSUME NEW rs, NEW s \in SettledIn(rs)
  PROVE  \E i \in DOMAIN rs : rs[i].step = s
BY DEF SettledIn

\* Pushing a result whose reason is not a stop settles its step.
LEMMA SettledAppend ==
  ASSUME NEW rs \in Seq(StepResult), NEW r \in StepResult, r.reason \notin StopReason
  PROVE  /\ SettledIn(Append(rs, r)) = SettledIn(rs) \cup {r.step}
         /\ SettledIn(rs) \in SUBSET Step
<1> DEFINE ra == Append(rs, r)
<1>1. /\ DOMAIN ra = 1 .. Len(rs) + 1 /\ DOMAIN rs = 1 .. Len(rs) /\ Len(rs) \in Nat
      /\ \A i \in 1 .. Len(rs) : ra[i] = rs[i]
      /\ ra[Len(rs) + 1] = r
  OBVIOUS
<1> HIDE DEF ra
<1>2. \A i \in DOMAIN ra : i \in DOMAIN rs \/ i = Len(rs) + 1
  BY <1>1
<1>3. SettledIn(ra) \subseteq SettledIn(rs) \cup {r.step}
  BY <1>1, <1>2 DEF SettledIn
<1>4. SettledIn(rs) \subseteq SettledIn(ra)
  BY <1>1 DEF SettledIn
<1>5. r.step \in SettledIn(ra)
  <2>1. Len(rs) + 1 \in DOMAIN ra
    BY <1>1
  <2> QED
    BY <1>1, <2>1 DEF SettledIn
<1>6. SettledIn(rs) \in SUBSET Step
  <2>1. \A x \in StepResult : x.step \in Step
    BY DEF StepResult
  <2>2. \A i \in DOMAIN rs : rs[i] \in StepResult
    OBVIOUS
  <2> QED
    BY <2>1, <2>2 DEF SettledIn
<1> QED
  BY <1>3, <1>4, <1>5, <1>6 DEF ra

\* A step that was not taken yet is neither reported nor in the wave.
LEMMA NextIsFresh ==
  ASSUME IInv, NEW s \in Step, ready_head < Len(ready), s = ready[ready_head + 1]
  PROVE  /\ ~Taken(s)
         /\ \A i \in DOMAIN results : results[i].step # s
         /\ \A k \in DOMAIN handles : handles[k] # s
         /\ s \notin SettledIn(results)
         /\ s \in Queued(ready)
<1>1. /\ ready \in Seq(Step) /\ ready_head \in Nat /\ Len(ready) \in Nat
      /\ DOMAIN ready = 1 .. Len(ready)
  BY DEF IInv, TypeOK, PoolTypeOK
<1>2. ready_head + 1 \in DOMAIN ready
  BY <1>1
<1>3. ~Taken(s)
  <2> SUFFICES ASSUME NEW k \in 1 .. ready_head, ready[k] = s PROVE FALSE
    BY DEF Taken
  <2>1. k \in DOMAIN ready /\ k # ready_head + 1
    BY <1>1, <1>2
  <2> QED
    BY <1>2, <2>1 DEF IInv, BookInv
<1>4. \A i \in DOMAIN results : results[i].step # s
  BY <1>3 DEF IInv, Positions
<1>5. \A k \in DOMAIN handles : handles[k] # s
  BY <1>3 DEF IInv, Positions
<1>6. s \notin SettledIn(results)
  BY <1>4, SettledReported
<1>7. s \in Queued(ready)
  BY <1>2 DEF Queued
<1> QED
  BY <1>3, <1>4, <1>5, <1>6, <1>7

(***************************************************************************)
(* What SkipDepFailed, SkipCondition and Join share: a result is pushed    *)
(* for a step without one and its dependents are unlocked.                 *)
(***************************************************************************)
LEMMA Push ==
  ASSUME IInv, NEW s \in Step, NEW r \in StepResult,
         r.step = s, r.reason \notin StopReason,
         \A i \in DOMAIN results : results[i].step # s,
         results' = Append(results, r),
         unlock_dependents(s),
         flow' = flow
  PROVE  /\ in_degree' \in [Step -> Nat] /\ ready' \in Seq(Step)
         /\ results' \in Seq(StepResult)
         /\ Len(ready) <= Len(ready')
         /\ \A i \in 1 .. Len(ready) : ready'[i] = ready[i]
         /\ BookInv(flow, in_degree, ready, SettledIn(results))'
         /\ OneResultPerStep'
         /\ DOMAIN results' = 1 .. Len(results) + 1
         /\ DOMAIN results = 1 .. Len(results)
         /\ Len(results) \in Nat
         /\ \A i \in DOMAIN results : results'[i] = results[i]
         /\ results'[Len(results) + 1] = r
<1>1. /\ results \in Seq(StepResult) /\ ready \in Seq(Step) /\ in_degree \in [Step -> Nat]
      /\ BookInv(flow, in_degree, ready, SettledIn(results))
  BY DEF IInv, TypeOK, PoolTypeOK
<1>2. flow \in FlowDef /\ validate(flow)
  BY FlowValid DEF IInv
<1>3. /\ DOMAIN results' = 1 .. Len(results) + 1 /\ DOMAIN results = 1 .. Len(results)
      /\ Len(results) \in Nat /\ results' \in Seq(StepResult)
      /\ \A i \in DOMAIN results : results'[i] = results[i]
      /\ results'[Len(results) + 1] = r
  BY <1>1
<1>4. s \notin SettledIn(results)
  BY SettledReported
<1>5. SettledIn(results') = SettledIn(results) \cup {s} /\ SettledIn(results) \in SUBSET Step
  BY <1>1, SettledAppend
<1>6. /\ in_degree' = UnlockDegree(flow, in_degree, s)
      /\ ready' = UnlockReady(flow, in_degree, ready, s)
  BY DEF unlock_dependents
<1>7. /\ in_degree' \in [Step -> Nat] /\ ready' \in Seq(Step)
      /\ Len(ready) <= Len(ready')
      /\ \A i \in 1 .. Len(ready) : ready'[i] = ready[i]
      /\ BookInv(flow, in_degree', ready', SettledIn(results) \cup {s})
  <2>1. Book(flow, in_degree, ready, SettledIn(results))
    BY <1>1, <1>2, <1>5 DEF Book
  <2>2. /\ Book(flow, UnlockDegree(flow, in_degree, s),
                UnlockReady(flow, in_degree, ready, s), SettledIn(results) \cup {s})
        /\ Extended(ready, UnlockReady(flow, in_degree, ready, s))
    BY <1>4, <2>1, BookStep
  <2> QED
    BY <1>6, <2>2 DEF Book, Extended
<1>8. BookInv(flow, in_degree, ready, SettledIn(results))'
  BY <1>5, <1>7
<1>9. OneResultPerStep'
  <2> SUFFICES ASSUME NEW i \in DOMAIN results', NEW j \in DOMAIN results',
                      results'[i].step = results'[j].step
               PROVE  i = j
    BY DEF OneResultPerStep
  <2>1. \A k \in DOMAIN results' : k \in DOMAIN results \/ k = Len(results) + 1
    BY <1>3
  <2> QED
    BY <1>3, <2>1 DEF IInv, OneResultPerStep
<1> QED
  BY <1>3, <1>7, <1>8, <1>9

LEMMA HoldingUnchanged ==
  ASSUME PermitsConserved, permits' = permits,
         \A s \in Step : worker'[s] \in {"running", "stored"} <=> worker[s] \in {"running", "stored"}
  PROVE  PermitsConserved'
<1>1. {s \in Step : worker'[s] \in {"running", "stored"}} =
      {s \in Step : worker[s] \in {"running", "stored"}}
  OBVIOUS
<1> QED
  BY <1>1 DEF PermitsConserved

(***************************************************************************)
(* The coordinator's actions.                                              *)
(***************************************************************************)

LEMMA KeepStartWave == ASSUME IInv, StartWave PROVE IInv'
<1>1. handles = <<>> /\ hj = 0
  BY DEF IInv, Positions, StartWave
<1> USE DEF StartWave, env, pool
<1>2. TypeOK'
  BY <1>1 DEF IInv, TypeOK, PoolTypeOK
<1>3. Positions'
  BY <1>1 DEF IInv, Positions, Taken, Pending
<1>4. /\ BookInv(flow, in_degree, ready, SettledIn(results))'
      /\ OneResultPerStep' /\ FailedMarks' /\ PermitsConserved'
  BY DEF IInv, OneResultPerStep, FailedMarks, PermitsConserved
<1>5. DependencyOrder'
  BY DEF IInv, DependencyOrder, Passed
<1>6. LiveArePending'
  BY <1>1 DEF IInv, LiveArePending, Live, Pending
<1> QED
  BY <1>2, <1>3, <1>4, <1>5, <1>6 DEF IInv

LEMMA KeepReturn == ASSUME IInv, Return PROVE IInv'
<1> USE DEF Return, coord, env, pool
<1>1. TypeOK'
  BY DEF IInv, TypeOK, PoolTypeOK
<1>2. Positions' /\ LiveArePending'
  BY DEF IInv, Positions, LiveArePending, Live, Taken, Pending
<1>3. /\ BookInv(flow, in_degree, ready, SettledIn(results))'
      /\ OneResultPerStep' /\ FailedMarks' /\ PermitsConserved'
  BY DEF IInv, OneResultPerStep, FailedMarks, PermitsConserved
<1>4. DependencyOrder'
  BY DEF IInv, DependencyOrder, Passed
<1> QED
  BY <1>1, <1>2, <1>3, <1>4 DEF IInv

LEMMA KeepStartJoin == ASSUME IInv, StartJoin PROVE IInv'
<1> USE DEF StartJoin, env, pool
<1>0. hj = 0 /\ hj' = 0
  BY DEF IInv, Positions
<1>1. TypeOK'
  BY <1>0 DEF IInv, TypeOK, PoolTypeOK
<1>2. Positions' /\ LiveArePending'
  BY <1>0 DEF IInv, Positions, LiveArePending, Live, Taken, Pending
<1>3. /\ BookInv(flow, in_degree, ready, SettledIn(results))'
      /\ OneResultPerStep' /\ FailedMarks' /\ PermitsConserved'
  BY DEF IInv, OneResultPerStep, FailedMarks, PermitsConserved
<1>4. DependencyOrder'
  BY DEF IInv, DependencyOrder, Passed
<1> QED
  BY <1>1, <1>2, <1>3, <1>4 DEF IInv

LEMMA KeepEndWave == ASSUME IInv, EndWave PROVE IInv'
<1> USE DEF EndWave, env, pool
<1>1. TypeOK'
  BY DEF IInv, TypeOK, PoolTypeOK
<1>2. \A s \in Step : ~Pending(s)
  <2>1. handles \in Seq(Step) /\ hj = Len(handles)
    BY DEF IInv, TypeOK, PoolTypeOK
  <2> QED
    BY <2>1 DEF Pending
<1>3. \A s : ~Pending(s)'
  BY DEF Pending
<1>4. Positions'
  BY <1>3 DEF IInv, Positions, Taken
<1>5. LiveArePending'
  BY <1>2 DEF IInv, LiveArePending, Live
<1>6. /\ BookInv(flow, in_degree, ready, SettledIn(results))'
      /\ OneResultPerStep' /\ FailedMarks' /\ PermitsConserved'
  BY DEF IInv, OneResultPerStep, FailedMarks, PermitsConserved
<1>7. DependencyOrder'
  BY DEF IInv, DependencyOrder, Passed
<1> QED
  BY <1>1, <1>4, <1>5, <1>6, <1>7 DEF IInv

LEMMA KeepSpawn ==
  ASSUME IInv, NEW s \in Step, Spawn(s)
  PROVE  IInv'
<1>a. /\ pc = "batch" /\ ready_head < batch_end /\ s = ready[ready_head + 1]
      /\ ready_head' = ready_head + 1 /\ ~DepFailed(flow, failed, s)
      /\ worker' = [worker EXCEPT ![s] = "waiting"] /\ handles' = Append(handles, s)
      /\ flow' = flow /\ pc' = pc /\ ready' = ready /\ batch_end' = batch_end
      /\ in_degree' = in_degree /\ failed' = failed /\ hj' = hj /\ results' = results
      /\ slot' = slot /\ permits' = permits
      /\ cancelled' = cancelled /\ timed_out' = timed_out
  BY DEF Spawn, PoolSpawn, Take, env, pool
<1>0. /\ ready \in Seq(Step) /\ handles \in Seq(Step) /\ worker \in [Step -> WorkerState]
      /\ ready_head \in 0 .. Len(ready) /\ batch_end \in 0 .. Len(ready) /\ hj = 0
      /\ results \in Seq(StepResult)
  BY <1>a DEF IInv, TypeOK, PoolTypeOK, Positions
<1>1. /\ ready_head < Len(ready) /\ ready_head + 1 \in 1 .. Len(ready)
  <2>1. Len(ready) \in Nat
    BY <1>0
  <2> QED
    BY <1>0, <1>a, <2>1
<1>2. /\ \A i \in DOMAIN results : results[i].step # s
      /\ \A k \in DOMAIN handles : handles[k] # s
      /\ s \in Queued(ready)
  BY <1>1, <1>a, NextIsFresh
<1>3. /\ DOMAIN handles' = 1 .. Len(handles) + 1 /\ DOMAIN handles = 1 .. Len(handles)
      /\ \A k \in DOMAIN handles : handles'[k] = handles[k]
      /\ handles'[Len(handles) + 1] = s /\ Len(handles) \in Nat
      /\ Len(handles') = Len(handles) + 1 /\ handles' \in Seq(Step)
      /\ \A k \in DOMAIN handles' : k \in DOMAIN handles \/ k = Len(handles) + 1
  <2>1. handles' = Append(handles, s) /\ handles \in Seq(Step)
    BY <1>0, <1>a
  <2> QED
    BY <2>1
<1>4. TypeOK'
  <2>1. worker' \in [Step -> WorkerState]
    BY <1>0, <1>a DEF WorkerState
  <2>2. ready_head' \in 0 .. Len(ready)
    BY <1>0, <1>1, <1>a
  <2> QED
    BY <1>0, <1>3, <1>a, <2>1, <2>2 DEF IInv, TypeOK, PoolTypeOK
<1>5. Taken(s)' /\ \A t : Taken(t) => Taken(t)'
  <2>1. ready_head + 1 \in 1 .. ready_head' /\ 1 .. ready_head \subseteq 1 .. ready_head'
    BY <1>0, <1>a
  <2> QED
    BY <2>1, <1>a DEF Taken
<1>6. \A t : Pending(t)' => Pending(t) \/ t = s
  BY <1>0, <1>3, <1>a DEF Pending
<1>7. Pending(s)' /\ \A t : Pending(t) => Pending(t)'
  <2>1. Len(handles) + 1 \in DOMAIN handles' /\ Len(handles) + 1 > hj'
    BY <1>0, <1>3, <1>a
  <2>2. DOMAIN handles \subseteq DOMAIN handles'
    BY <1>3
  <2> QED
    BY <1>3, <1>a, <2>1, <2>2 DEF Pending
<1>8. Positions'
  <2>1. (\A i \in DOMAIN results : Taken(results[i].step) /\ ~Pending(results[i].step))'
    BY <1>2, <1>5, <1>6, <1>a DEF IInv, Positions
  <2>2. (\A k \in DOMAIN handles : Taken(handles[k]))'
    BY <1>3, <1>5 DEF IInv, Positions
  <2>3. \A k, m \in DOMAIN handles' : handles'[k] = handles'[m] => k = m
    BY <1>2, <1>3 DEF IInv, Positions
  <2> QED
    BY <1>0, <1>a, <2>1, <2>2, <2>3 DEF Positions
<1>9. DependencyOrder'
  <2>1. \A d \in SettledIn(results) : ~failed[d] => Passed(d)
    BY DEF SettledIn, IInv, FailedMarks, Passed
  <2>2. /\ flow.trigger[s] = "All" => flow.deps[s] \subseteq SettledIn(results)
        /\ flow.trigger[s] = "Any" => flow.deps[s] \cap SettledIn(results) # {}
        /\ flow.trigger[s] \in {"All", "Any"}
    BY <1>2, FlowValid DEF IInv, BookInv, FlowDef, Trigger
  <2>3. \A d \in flow.deps[s] : ~failed[d]
    BY <1>a DEF DepFailed
  <2>4. IF flow.trigger[s] = "All"
        THEN \A d \in flow.deps[s] : Passed(d)
        ELSE \E d \in flow.deps[s] : Passed(d)
    BY <2>1, <2>2, <2>3
  <2>5. \A d : Passed(d)' <=> Passed(d)
    BY <1>a DEF Passed
  <2>6. \A t \in Step : t # s => worker'[t] = worker[t]
    BY <1>0, <1>a
  <2> QED
    BY <1>a, <2>4, <2>5, <2>6 DEF IInv, DependencyOrder
<1>10. LiveArePending'
  <2>1. \A t \in Step : t # s => worker'[t] = worker[t]
    BY <1>0, <1>a
  <2> QED
    BY <1>a, <1>7, <2>1 DEF IInv, LiveArePending, Live
<1>11. PermitsConserved'
  <2>1. worker[s] \notin {"running", "stored"}
    BY <1>2 DEF IInv, LiveArePending, Live, Pending
  <2>2. \A t \in Step :
          worker'[t] \in {"running", "stored"} <=> worker[t] \in {"running", "stored"}
    BY <1>0, <1>a, <2>1
  <2>3. PermitsConserved /\ permits' = permits
    BY <1>a DEF IInv
  <2> QED
    BY <2>2, <2>3, HoldingUnchanged
<1>12. /\ BookInv(flow, in_degree, ready, SettledIn(results))'
       /\ OneResultPerStep' /\ FailedMarks'
  BY <1>a DEF IInv, OneResultPerStep, FailedMarks
<1> QED
  BY <1>4, <1>8, <1>9, <1>10, <1>11, <1>12 DEF IInv

\* The result r does not contradict the failed set f.
Marked(r, f) ==
    \/ r.reason \in StopReason \cup {"condition_not_met"}
    \/ r.status = "Completed"
    \/ f[r.step]

LEMMA MarkedAll == FailedMarks <=> \A i \in DOMAIN results : Marked(results[i], failed)
BY DEF FailedMarks, Marked

LEMMA MarkedMonotonic ==
  ASSUME NEW r \in StepResult, NEW f, NEW g, Marked(r, f),
         \A t \in Step : f[t] => g[t]
  PROVE  Marked(r, g)
<1>1. r.step \in Step
  BY DEF StepResult
<1> QED
  BY <1>1 DEF Marked

(***************************************************************************)
(* The conjuncts that Push leaves open, apart from the types and the       *)
(* positions.                                                              *)
(***************************************************************************)
LEMMA Settle ==
  ASSUME IInv, NEW s \in Step, NEW r \in StepResult,
         r.step = s, r.reason \notin StopReason,
         \A i \in DOMAIN results : results[i].step # s,
         results' = Append(results, r),
         unlock_dependents(s),
         flow' = flow, worker' = worker, permits' = permits,
         \A t \in Step : failed[t] => failed'[t],
         Marked(r, failed')
  PROVE  FailedMarks' /\ DependencyOrder' /\ PermitsConserved'
<1>1. /\ DOMAIN results' = 1 .. Len(results) + 1 /\ DOMAIN results = 1 .. Len(results)
      /\ Len(results) \in Nat
      /\ \A i \in DOMAIN results : results'[i] = results[i]
      /\ results'[Len(results) + 1] = r
  BY Push
<1>2. /\ \A k \in DOMAIN results' : k \in DOMAIN results \/ k = Len(results) + 1
      /\ DOMAIN results \subseteq DOMAIN results'
  BY <1>1
<1>3. FailedMarks'
  <2>1. results \in Seq(StepResult)
    BY DEF IInv, TypeOK, PoolTypeOK
  <2>2. \A k \in DOMAIN results : results[k] \in StepResult
    BY <2>1
  <2>3. \A k \in DOMAIN results : Marked(results[k], failed)
    BY MarkedAll DEF IInv
  <2>4. \A k \in DOMAIN results : Marked(results[k], failed')
    BY <2>2, <2>3, MarkedMonotonic
  <2>5. \A k \in DOMAIN results' : Marked(results'[k], failed')
    BY <1>1, <1>2, <2>4
  <2> QED
    BY <2>5 DEF FailedMarks, Marked
<1>4. DependencyOrder'
  <2>1. \A d : Passed(d) => Passed(d)'
    BY <1>1, <1>2 DEF Passed
  <2> QED
    BY <2>1 DEF IInv, DependencyOrder
<1>5. PermitsConserved'
  BY DEF IInv, PermitsConserved
<1> QED
  BY <1>3, <1>4, <1>5

\* A step of the batch that is skipped.
LEMMA KeepSkip ==
  ASSUME IInv, NEW s \in Step, NEW r \in StepResult,
         Take(s), r.step = s, r.reason \notin StopReason,
         results' = Append(results, r),
         unlock_dependents(s),
         failed' \in [Step -> BOOLEAN],
         \A t \in Step : failed[t] => failed'[t],
         Marked(r, failed'),
         UNCHANGED <<flow, pc, batch_end, handles, hj, pool, env>>
  PROVE  IInv'
<1>0. /\ ready_head < batch_end /\ s = ready[ready_head + 1] /\ ready_head' = ready_head + 1
      /\ flow' = flow /\ pc' = pc /\ batch_end' = batch_end /\ handles' = handles
      /\ hj' = hj /\ worker' = worker /\ slot' = slot /\ permits' = permits
      /\ cancelled' = cancelled /\ timed_out' = timed_out
  BY DEF Take, env, pool
<1>1. /\ ready \in Seq(Step) /\ ready_head \in 0 .. Len(ready) /\ batch_end \in 0 .. Len(ready)
  BY DEF IInv, TypeOK, PoolTypeOK
<1>2. ready_head < Len(ready) /\ Len(ready) \in Nat /\ ready_head \in Nat
  BY <1>0, <1>1
<1>3. /\ \A i \in DOMAIN results : results[i].step # s
      /\ \A k \in DOMAIN handles : handles[k] # s
  BY <1>0, <1>2, NextIsFresh
<1>4. /\ in_degree' \in [Step -> Nat] /\ ready' \in Seq(Step)
      /\ results' \in Seq(StepResult)
      /\ Len(ready) <= Len(ready')
      /\ \A i \in 1 .. Len(ready) : ready'[i] = ready[i]
      /\ BookInv(flow, in_degree, ready, SettledIn(results))'
      /\ OneResultPerStep'
      /\ DOMAIN results' = 1 .. Len(results) + 1
      /\ DOMAIN results = 1 .. Len(results)
      /\ Len(results) \in Nat
      /\ \A i \in DOMAIN results : results'[i] = results[i]
      /\ results'[Len(results) + 1] = r
  BY <1>0, <1>3, Push
<1>5. FailedMarks' /\ DependencyOrder' /\ PermitsConserved'
  BY <1>0, <1>3, Settle
<1>6. TypeOK'
  <2>1. ready_head' \in 0 .. Len(ready') /\ batch_end' \in 0 .. Len(ready')
    <3>1. Len(ready') \in Nat
      BY <1>4
    <3> QED
      BY <1>0, <1>1, <1>2, <1>4, <3>1
  <2> QED
    BY <1>0, <1>4, <2>1 DEF IInv, TypeOK, PoolTypeOK
<1>7. Taken(s)' /\ \A t : Taken(t) => Taken(t)'
  <2>1. /\ ready_head + 1 \in 1 .. ready_head' /\ 1 .. ready_head \subseteq 1 .. ready_head'
        /\ ready_head + 1 \in 1 .. Len(ready) /\ 1 .. ready_head \subseteq 1 .. Len(ready)
    BY <1>0, <1>2
  <2> QED
    BY <1>0, <1>4, <2>1 DEF Taken
<1>8. \A t : Pending(t)' <=> Pending(t)
  BY <1>0 DEF Pending
<1>9. Positions'
  <2>1. ~Pending(s)
    BY <1>3 DEF Pending
  <2>2. \A k \in DOMAIN results' : k \in DOMAIN results \/ k = Len(results) + 1
    BY <1>4
  <2>3. (\A i \in DOMAIN results : Taken(results[i].step) /\ ~Pending(results[i].step))'
    BY <1>4, <1>7, <1>8, <2>1, <2>2 DEF IInv, Positions
  <2>4. (\A k \in DOMAIN handles : Taken(handles[k]))'
    BY <1>0, <1>7 DEF IInv, Positions
  <2> QED
    BY <1>0, <2>3, <2>4 DEF IInv, Positions
<1>10. LiveArePending'
  BY <1>0, <1>8 DEF IInv, LiveArePending, Live
<1> QED
  BY <1>4, <1>5, <1>6, <1>9, <1>10 DEF IInv

LEMMA KeepSkipDepFailed == ASSUME IInv, NEW s \in Step, SkipDepFailed(s) PROVE IInv'
<1> DEFINE r == Skip(s, "dependency_failed")
<1>1. /\ r \in StepResult /\ r.step = s /\ r.reason \notin StopReason
  BY DEF Skip, StepResult, Status, Reason, StopReason
<1>2. /\ Take(s) /\ results' = Append(results, r) /\ unlock_dependents(s)
      /\ failed' = [failed EXCEPT ![s] = TRUE]
      /\ UNCHANGED <<flow, pc, batch_end, handles, hj, pool, env>>
  BY DEF SkipDepFailed
<1>3. failed \in [Step -> BOOLEAN]
  BY DEF IInv, TypeOK, PoolTypeOK
<1> HIDE DEF r
<1>4. /\ failed' \in [Step -> BOOLEAN] /\ failed'[s]
      /\ \A t \in Step : failed[t] => failed'[t]
  BY <1>2, <1>3
<1>5. Marked(r, failed')
  BY <1>1, <1>4 DEF Marked
<1> QED
  BY <1>1, <1>2, <1>4, <1>5, KeepSkip

LEMMA KeepSkipCondition == ASSUME IInv, NEW s \in Step, SkipCondition(s) PROVE IInv'
<1> DEFINE r == Skip(s, "condition_not_met")
<1>1. /\ r \in StepResult /\ r.step = s /\ r.reason \notin StopReason
  BY DEF Skip, StepResult, Status, Reason, StopReason
<1>2. /\ Take(s) /\ results' = Append(results, r) /\ unlock_dependents(s)
      /\ failed' = failed
      /\ UNCHANGED <<flow, pc, batch_end, handles, hj, pool, env>>
  BY DEF SkipCondition
<1>3. failed \in [Step -> BOOLEAN]
  BY DEF IInv, TypeOK, PoolTypeOK
<1>4. Marked(r, failed')
  BY DEF Marked, Skip
<1> HIDE DEF r
<1> QED
  BY <1>1, <1>2, <1>3, <1>4, KeepSkip

LEMMA KeepJoin == ASSUME IInv, NEW s \in Step, Join(s) PROVE IInv'
<1> DEFINE r == JoinResult(s)
<1>0. /\ pc = "join" /\ hj < Len(handles) /\ s = handles[hj + 1]
      /\ worker[s] = "exited"
      /\ failed' = [failed EXCEPT ![s] = @ \/ slot[s] # "Completed"]
      /\ unlock_dependents(s) /\ results' = Append(results, r) /\ hj' = hj + 1
      /\ flow' = flow /\ pc' = pc /\ ready_head' = ready_head /\ batch_end' = batch_end
      /\ handles' = handles /\ worker' = worker /\ slot' = slot /\ permits' = permits
      /\ cancelled' = cancelled /\ timed_out' = timed_out
  BY DEF Join, Joined, env, pool
<1>1. /\ ready \in Seq(Step) /\ ready_head \in 0 .. Len(ready) /\ batch_end \in 0 .. Len(ready)
      /\ handles \in Seq(Step) /\ hj \in 0 .. Len(handles)
      /\ failed \in [Step -> BOOLEAN]
      /\ slot \in [Step -> {"empty", "Completed", "Failed"}]
  BY DEF IInv, TypeOK, PoolTypeOK
<1>2. /\ DOMAIN handles = 1 .. Len(handles) /\ Len(handles) \in Nat /\ hj \in Nat
      /\ hj + 1 \in DOMAIN handles /\ hj + 1 > hj
      /\ hj' \in 0 .. Len(handles)
  BY <1>0, <1>1
<1>3. Pending(s) /\ Taken(s)
  BY <1>0, <1>2 DEF Pending, IInv, Positions
<1>4. \A i \in DOMAIN results : results[i].step # s
  BY <1>3 DEF IInv, Positions
<1>5. /\ r \in StepResult /\ r.step = s /\ r.reason \notin StopReason
      /\ slot[s] = "Completed" => r.status = "Completed"
  <2>1. slot[s] \in {"empty", "Completed", "Failed"}
    BY <1>1
  <2> QED
    BY <2>1 DEF JoinResult, Fail, Executed, StepResult, Status, Reason, StopReason
<1> HIDE DEF r
<1>6. /\ failed' \in [Step -> BOOLEAN]
      /\ \A t \in Step : failed[t] => failed'[t]
      /\ slot[s] # "Completed" => failed'[s]
  <2>1. failed' = [t \in Step |-> IF t = s THEN failed[s] \/ slot[s] # "Completed" ELSE failed[t]]
    BY <1>0, <1>1
  <2> QED
    BY <1>1, <2>1
<1>7. Marked(r, failed')
  BY <1>5, <1>6 DEF Marked
<1>8. /\ in_degree' \in [Step -> Nat] /\ ready' \in Seq(Step)
      /\ results' \in Seq(StepResult)
      /\ Len(ready) <= Len(ready')
      /\ \A i \in 1 .. Len(ready) : ready'[i] = ready[i]
      /\ BookInv(flow, in_degree, ready, SettledIn(results))'
      /\ OneResultPerStep'
      /\ DOMAIN results' = 1 .. Len(results) + 1
      /\ DOMAIN results = 1 .. Len(results)
      /\ Len(results) \in Nat
      /\ \A i \in DOMAIN results : results'[i] = results[i]
      /\ results'[Len(results) + 1] = r
  BY <1>0, <1>4, <1>5, Push
<1>9. FailedMarks' /\ DependencyOrder' /\ PermitsConserved'
  BY <1>0, <1>4, <1>5, <1>6, <1>7, Settle
<1>10. TypeOK'
  <2>1. ready_head' \in 0 .. Len(ready') /\ batch_end' \in 0 .. Len(ready')
    <3>1. Len(ready') \in Nat /\ Len(ready) \in Nat
      BY <1>1, <1>8
    <3> QED
      BY <1>0, <1>1, <1>8, <3>1
  <2> QED
    BY <1>0, <1>2, <1>6, <1>8, <2>1 DEF IInv, TypeOK, PoolTypeOK
<1>11. \A t : Taken(t) => Taken(t)'
  <2>1. 1 .. ready_head \subseteq 1 .. Len(ready)
    BY <1>1
  <2> QED
    BY <1>0, <1>8, <2>1 DEF Taken
\* The handles stay, and s is the one handle that leaves the pending ones.
<1>12. /\ \A t : Pending(t)' => Pending(t)
       /\ \A t : Pending(t) /\ t # s => Pending(t)'
       /\ ~Pending(s)'
  <2>1. \A k \in DOMAIN handles : (k > hj' <=> k > hj /\ k # hj + 1)
    BY <1>0, <1>2
  <2>2. \A k, m \in DOMAIN handles : handles[k] = handles[m] => k = m
    BY DEF IInv, Positions
  <2>3. \A k \in DOMAIN handles : handles[k] = s => k = hj + 1
    BY <1>0, <1>2, <2>2
  <2> QED
    BY <1>0, <2>1, <2>3 DEF Pending
<1>13. Positions'
  <2>1. \A k \in DOMAIN results' : k \in DOMAIN results \/ k = Len(results) + 1
    BY <1>8
  <2>2. (\A i \in DOMAIN results : Taken(results[i].step) /\ ~Pending(results[i].step))'
    BY <1>3, <1>5, <1>8, <1>11, <1>12, <2>1 DEF IInv, Positions
  <2>3. (\A k \in DOMAIN handles : Taken(handles[k]))'
    BY <1>0, <1>11 DEF IInv, Positions
  <2> QED
    BY <1>0, <2>2, <2>3 DEF IInv, Positions
<1>14. LiveArePending'
  BY <1>0, <1>12 DEF IInv, LiveArePending, Live
<1> QED
  BY <1>8, <1>9, <1>10, <1>13, <1>14 DEF IInv

\* The results of StopSkip, for the steps ready[ready_head + 1] onwards.
StopResults ==
    [i \in 1 .. Len(ready) - ready_head |->
        Skip(ready[ready_head + i],
             IF cancelled THEN "cancelled" ELSE "flow_timeout_exceeded")]

LEMMA ResultsConcat ==
  ASSUME NEW p \in Seq(StepResult), NEW q \in Seq(StepResult)
  PROVE  p \o q \in Seq(StepResult) /\ Len(p \o q) = Len(p) + Len(q)
OBVIOUS

\* StopSkip pushes one stop result for each step that was ready and not taken;
\* none of those had a result.
LEMMA StopShape ==
  ASSUME IInv, StopSkip, NEW m, m = Len(ready) - ready_head
  PROVE  /\ m \in Nat /\ \A i \in 1 .. m : ready_head + i \in 1 .. Len(ready)
         /\ \A i \in 1 .. m : /\ StopResults[i] \in StepResult
                              /\ StopResults[i].step = ready[ready_head + i]
                              /\ StopResults[i].reason \in StopReason
         /\ results' \in Seq(StepResult) /\ DOMAIN results = 1 .. Len(results)
         /\ DOMAIN results' = 1 .. Len(results) + m /\ Len(results) \in Nat
         /\ \A i \in DOMAIN results : results'[i] = results[i]
         /\ \A i \in 1 .. m : results'[Len(results) + i] = StopResults[i]
         /\ \A k \in DOMAIN results' :
               k \in DOMAIN results \/ \E i \in 1 .. m : k = Len(results) + i
         /\ \A i \in DOMAIN results, j \in 1 .. m : results[i].step # ready[ready_head + j]
<1>0. /\ pc = "top" /\ ready_head < Len(ready) /\ results' = results \o StopResults
  BY DEF StopSkip, StopResults
<1>1. /\ ready \in Seq(Step) /\ ready_head \in 0 .. Len(ready) /\ batch_end \in 0 .. Len(ready)
      /\ results \in Seq(StepResult) /\ Len(ready) \in Nat
      /\ DOMAIN ready = 1 .. Len(ready)
  BY DEF IInv, TypeOK, PoolTypeOK
<1>2. m \in Nat /\ \A i \in 1 .. m : ready_head + i \in 1 .. Len(ready)
  BY <1>0, <1>1
<1>3. \A i \in 1 .. m : /\ StopResults[i] \in StepResult
                        /\ StopResults[i].step = ready[ready_head + i]
                        /\ StopResults[i].reason \in StopReason
  <2> SUFFICES ASSUME NEW i \in 1 .. m
               PROVE  /\ StopResults[i] \in StepResult
                      /\ StopResults[i].step = ready[ready_head + i]
                      /\ StopResults[i].reason \in StopReason
    OBVIOUS
  <2>1. ready[ready_head + i] \in Step
    BY <1>1, <1>2
  <2> DEFINE why == IF cancelled THEN "cancelled" ELSE "flow_timeout_exceeded"
  <2>2. StopResults[i] = Skip(ready[ready_head + i], why)
    BY DEF StopResults
  <2>3. why \in StopReason /\ why \in Reason
    BY DEF StopReason, Reason
  <2> HIDE DEF why
  <2> QED
    BY <2>1, <2>2, <2>3 DEF Skip, StepResult, Status
<1>4. StopResults \in Seq(StepResult) /\ Len(StopResults) = m
  <2>1. StopResults = [i \in 1 .. m |-> StopResults[i]]
    BY DEF StopResults
  <2>2. StopResults \in [1 .. m -> StepResult]
    BY <1>3, <2>1
  <2> QED
    BY <1>2, <2>2
<1>5. /\ results' \in Seq(StepResult) /\ DOMAIN results = 1 .. Len(results)
      /\ DOMAIN results' = 1 .. Len(results) + m /\ Len(results) \in Nat
      /\ \A i \in DOMAIN results : results'[i] = results[i]
      /\ \A i \in 1 .. m : results'[Len(results) + i] = StopResults[i]
  <2>1. results' = results \o StopResults /\ results \in Seq(StepResult) /\ m \in Nat
    BY <1>0, <1>1, <1>2
  <2>2. Len(results) \in Nat /\ DOMAIN results = 1 .. Len(results)
    BY <2>1
  <2>3. results' \in Seq(StepResult) /\ Len(results') = Len(results) + m
    BY <1>4, <2>1, ResultsConcat
  <2>4. \A i \in 1 .. Len(results) + m :
          results'[i] = IF i <= Len(results) THEN results[i] ELSE StopResults[i - Len(results)]
    BY <1>4, <2>1, <2>2
  <2>5. \A i \in 1 .. m : /\ Len(results) + i \in 1 .. Len(results) + m
                          /\ ~(Len(results) + i <= Len(results))
                          /\ (Len(results) + i) - Len(results) = i
    BY <2>1, <2>2
  <2>6. \A i \in 1 .. Len(results) : i \in 1 .. Len(results) + m /\ i <= Len(results)
    BY <2>1, <2>2
  <2>7. \A i \in 1 .. m : results'[Len(results) + i] = StopResults[i]
    BY <2>4, <2>5
  <2>8. \A i \in DOMAIN results : results'[i] = results[i]
    BY <2>2, <2>4, <2>6
  <2> QED
    BY <2>2, <2>3, <2>7, <2>8
<1>6. \A k \in DOMAIN results' : k \in DOMAIN results \/ \E i \in 1 .. m : k = Len(results) + i
  <2> SUFFICES ASSUME NEW k \in 1 .. Len(results) + m, k \notin 1 .. Len(results)
               PROVE  \E i \in 1 .. m : k = Len(results) + i
    BY <1>5
  <2>1. k - Len(results) \in 1 .. m /\ k = Len(results) + (k - Len(results))
    BY <1>2, <1>5
  <2> QED
    BY <2>1
<1>7. /\ \A k, l \in DOMAIN ready : ready[k] = ready[l] => k = l
      /\ \A i \in DOMAIN results : Taken(results[i].step)
  BY DEF IInv, BookInv, Positions
<1>8. \A i \in DOMAIN results, j \in 1 .. m : results[i].step # ready[ready_head + j]
  <2> SUFFICES ASSUME NEW i \in DOMAIN results, NEW j \in 1 .. m,
                      results[i].step = ready[ready_head + j]
               PROVE  FALSE
    OBVIOUS
  <2>1. PICK k \in 1 .. ready_head : ready[k] = ready[ready_head + j]
    BY <1>7 DEF Taken
  <2>2. k \in DOMAIN ready /\ ready_head + j \in DOMAIN ready /\ k # ready_head + j
    BY <1>1, <1>2
  <2> QED
    BY <1>7, <2>1, <2>2
<1> QED
  BY <1>2, <1>3, <1>5, <1>6, <1>8

LEMMA KeepStopSkip == ASSUME IInv, StopSkip PROVE IInv'
<1>0. /\ pc = "top" /\ ready_head < Len(ready) /\ results' = results \o StopResults
      /\ ready_head' = Len(ready)
      /\ flow' = flow /\ pc' = pc /\ ready' = ready /\ batch_end' = batch_end
      /\ in_degree' = in_degree /\ failed' = failed /\ handles' = handles /\ hj' = hj
      /\ worker' = worker /\ slot' = slot /\ permits' = permits
      /\ cancelled' = cancelled /\ timed_out' = timed_out
  BY DEF StopSkip, StopResults, env, pool
<1>1. /\ ready \in Seq(Step) /\ ready_head \in 0 .. Len(ready) /\ batch_end \in 0 .. Len(ready)
      /\ results \in Seq(StepResult) /\ Len(ready) \in Nat
      /\ DOMAIN ready = 1 .. Len(ready)
  BY DEF IInv, TypeOK, PoolTypeOK
<1> DEFINE m == Len(ready) - ready_head
<1>2. m \in Nat /\ \A i \in 1 .. m : ready_head + i \in 1 .. Len(ready)
  BY StopShape
<1>3. \A i \in 1 .. m : /\ StopResults[i] \in StepResult
                        /\ StopResults[i].step = ready[ready_head + i]
                        /\ StopResults[i].reason \in StopReason
  BY StopShape
<1>5. /\ results' \in Seq(StepResult) /\ DOMAIN results = 1 .. Len(results)
      /\ DOMAIN results' = 1 .. Len(results) + m /\ Len(results) \in Nat
      /\ \A i \in DOMAIN results : results'[i] = results[i]
      /\ \A i \in 1 .. m : results'[Len(results) + i] = StopResults[i]
  BY StopShape
<1>6. \A k \in DOMAIN results' : k \in DOMAIN results \/ \E i \in 1 .. m : k = Len(results) + i
  BY StopShape
<1>8. \A i \in DOMAIN results, j \in 1 .. m : results[i].step # ready[ready_head + j]
  BY StopShape
<1> HIDE DEF m
<1>7. /\ \A k, l \in DOMAIN ready : ready[k] = ready[l] => k = l
      /\ \A i \in DOMAIN results : Taken(results[i].step)
  BY DEF IInv, BookInv, Positions
<1>9. OneResultPerStep'
  <2> SUFFICES ASSUME NEW k \in DOMAIN results', NEW l \in DOMAIN results',
                      results'[k].step = results'[l].step
               PROVE  k = l
    BY DEF OneResultPerStep
  <2>1. CASE k \in DOMAIN results /\ l \in DOMAIN results
    BY <1>5, <2>1 DEF IInv, OneResultPerStep
  <2>2. ASSUME NEW i \in 1 .. m, k = Len(results) + i, l \in DOMAIN results PROVE FALSE
    BY <1>3, <1>5, <1>8, <2>2
  <2>3. ASSUME NEW i \in 1 .. m, l = Len(results) + i, k \in DOMAIN results PROVE FALSE
    BY <1>3, <1>5, <1>8, <2>3
  <2>4. ASSUME NEW i \in 1 .. m, NEW j \in 1 .. m, k = Len(results) + i, l = Len(results) + j
        PROVE  k = l
    <3>1. ready[ready_head + i] = ready[ready_head + j]
      BY <1>3, <1>5, <2>4
    <3>2. ready_head + i \in DOMAIN ready /\ ready_head + j \in DOMAIN ready
      BY <1>1, <1>2
    <3>3. ready_head + i = ready_head + j
      BY <1>7, <3>1, <3>2
    <3> QED
      BY <1>1, <2>4, <3>3
  <2> QED
    BY <1>6, <2>1, <2>2, <2>3, <2>4
<1>10. SettledIn(results') = SettledIn(results)
  <2>1. \A k \in DOMAIN results' : results'[k].reason \notin StopReason => k \in DOMAIN results
    BY <1>3, <1>5, <1>6
  <2>2. DOMAIN results \subseteq DOMAIN results'
    BY <1>2, <1>5
  <2> QED
    BY <1>5, <2>1, <2>2 DEF SettledIn
<1>11. BookInv(flow, in_degree, ready, SettledIn(results))'
  BY <1>0, <1>10 DEF IInv
<1>12. FailedMarks'
  <2>1. \A k \in DOMAIN results : Marked(results[k], failed)
    BY MarkedAll DEF IInv
  <2>2. \A i \in 1 .. m : Marked(StopResults[i], failed)
    BY <1>3 DEF Marked
  <2>3. \A k \in DOMAIN results' : Marked(results'[k], failed')
    BY <1>0, <1>5, <1>6, <2>1, <2>2
  <2> QED
    BY <2>3 DEF FailedMarks, Marked
<1>13. DependencyOrder'
  <2>1. DOMAIN results \subseteq DOMAIN results'
    BY <1>2, <1>5
  <2>2. \A d : Passed(d) => Passed(d)'
    BY <1>5, <2>1 DEF Passed
  <2> QED
    BY <1>0, <2>2 DEF IInv, DependencyOrder
<1>14. handles = <<>> /\ \A t : ~Pending(t)'
  BY <1>0 DEF IInv, Positions, Pending
<1>15. Positions'
  <2>1. \A t : (\E i \in 1 .. m : t = ready[ready_head + i]) => Taken(t)'
    BY <1>0, <1>2 DEF Taken
  <2>2. \A t : Taken(t) => Taken(t)'
    <3>1. 1 .. ready_head \subseteq 1 .. ready_head'
      BY <1>0, <1>1
    <3> QED
      BY <1>0, <3>1 DEF Taken
  <2>3. (\A i \in DOMAIN results : Taken(results[i].step) /\ ~Pending(results[i].step))'
    BY <1>3, <1>5, <1>6, <1>7, <1>14, <2>1, <2>2
  <2> QED
    BY <1>0, <1>14, <2>3 DEF IInv, Positions
<1>16. TypeOK'
  <2>1. ready_head' \in 0 .. Len(ready)
    BY <1>0, <1>1
  <2> QED
    BY <1>0, <1>5, <2>1 DEF IInv, TypeOK, PoolTypeOK
<1>17. LiveArePending' /\ PermitsConserved'
  BY <1>0 DEF IInv, LiveArePending, Live, Pending, PermitsConserved
<1> QED
  BY <1>9, <1>11, <1>12, <1>13, <1>15, <1>16, <1>17 DEF IInv

(***************************************************************************)
(* The workers' actions touch only worker, slot and permits.               *)
(***************************************************************************)
LEMMA WorkerFrame ==
  ASSUME IInv, flow' = flow, UNCHANGED <<pc, coord, env>>,
         NEW s \in Step, worker[s] \in {"waiting", "running", "stored"},
         worker' \in [Step -> WorkerState],
         \A t \in Step : t # s => worker'[t] = worker[t],
         slot' \in [Step -> {"empty", "Completed", "Failed"}],
         permits' \in 0 .. Permits,
         PermitsConserved'
  PROVE  IInv'
<1>0. /\ pc' = pc /\ ready' = ready /\ ready_head' = ready_head /\ batch_end' = batch_end
      /\ in_degree' = in_degree /\ failed' = failed /\ handles' = handles /\ hj' = hj
      /\ results' = results /\ cancelled' = cancelled /\ timed_out' = timed_out
  BY DEF coord, env, pool
<1>1. TypeOK'
  BY <1>0 DEF IInv, TypeOK, PoolTypeOK
<1>2. /\ BookInv(flow, in_degree, ready, SettledIn(results))'
      /\ OneResultPerStep' /\ FailedMarks'
  BY <1>0 DEF IInv, OneResultPerStep, FailedMarks
<1>3. Positions'
  BY <1>0 DEF IInv, Positions, Taken, Pending
<1>4. DependencyOrder'
  <2>1. \A d : Passed(d)' <=> Passed(d)
    BY <1>0 DEF Passed
  <2> QED
    BY <1>0, <2>1 DEF IInv, DependencyOrder
<1>5. LiveArePending'
  <2>1. \A t : Pending(t)' <=> Pending(t)
    BY <1>0 DEF Pending
  <2> QED
    BY <2>1 DEF IInv, LiveArePending, Live
<1> QED
  BY <1>1, <1>2, <1>3, <1>4, <1>5 DEF IInv

LEMMA KeepAcquire == ASSUME IInv, NEW s \in Step, Acquire(s) PROVE IInv'
<1> DEFINE H == {t \in Step : worker[t] \in {"running", "stored"}}
<1>0. /\ worker[s] = "waiting" /\ permits > 0 /\ permits' = permits - 1
      /\ worker' = [worker EXCEPT ![s] = "running"]
      /\ flow' = flow /\ slot' = slot /\ UNCHANGED <<pc, coord, env>>
  BY DEF Acquire, PoolAcquire
<1>1. /\ worker \in [Step -> WorkerState] /\ permits \in 0 .. Permits
      /\ slot \in [Step -> {"empty", "Completed", "Failed"}]
      /\ permits + Cardinality(H) = Permits
  BY DEF IInv, TypeOK, PoolTypeOK, PermitsConserved
<1>2. /\ worker' \in [Step -> WorkerState]
      /\ \A t \in Step : t # s => worker'[t] = worker[t]
      /\ permits' \in 0 .. Permits
  BY <1>0, <1>1, PermitsType DEF WorkerState
<1>3. PermitsConserved'
  <2>1. {t \in Step : worker'[t] \in {"running", "stored"}} = H \cup {s}
    BY <1>0, <1>1
  <2>2. IsFiniteSet(H) /\ Cardinality(H) \in Nat /\ s \notin H
    BY <1>0, StepFinite
  <2>3. Cardinality(H \cup {s}) = Cardinality(H) + 1
    BY <2>2, FS_AddElement
  <2> HIDE DEF H
  <2>4. permits' + Cardinality(H \cup {s}) = Permits
    BY <1>0, <1>1, <2>2, <2>3, PermitsType
  <2> QED
    BY <2>1, <2>4 DEF PermitsConserved, Permits
<1> QED
  BY <1>0, <1>1, <1>2, <1>3, WorkerFrame

LEMMA KeepStore ==
  ASSUME IInv, NEW s \in Step, NEW st \in {"Completed", "Failed"}, Store(s, st)
  PROVE  IInv'
<1>0. /\ worker[s] = "running" /\ permits' = permits
      /\ worker' = [worker EXCEPT ![s] = "stored"]
      /\ flow' = flow /\ slot' = [slot EXCEPT ![s] = st] /\ UNCHANGED <<pc, coord, env>>
  BY DEF Store, PoolStore
<1>1. /\ worker \in [Step -> WorkerState] /\ permits \in 0 .. Permits
      /\ slot \in [Step -> {"empty", "Completed", "Failed"}]
      /\ PermitsConserved
  BY DEF IInv, TypeOK, PoolTypeOK
<1>2. /\ worker' \in [Step -> WorkerState]
      /\ \A t \in Step : t # s => worker'[t] = worker[t]
      /\ permits' \in 0 .. Permits
      /\ slot' \in [Step -> {"empty", "Completed", "Failed"}]
  BY <1>0, <1>1 DEF WorkerState
<1>3. \A t \in Step :
        worker'[t] \in {"running", "stored"} <=> worker[t] \in {"running", "stored"}
  BY <1>0, <1>1
<1>4. PermitsConserved'
  BY <1>0, <1>1, <1>3, HoldingUnchanged
<1> QED
  BY <1>0, <1>2, <1>4, WorkerFrame

\* A task ends: it returned, or its handler panicked.
LEMMA KeepRelease ==
  ASSUME IInv, NEW s \in Step, Release(s) \/ Panic(s)
  PROVE  IInv'
<1> DEFINE H == {t \in Step : worker[t] \in {"running", "stored"}}
<1>0. /\ worker[s] \in {"running", "stored"} /\ permits' = permits + 1
      /\ worker' = [worker EXCEPT ![s] = "exited"]
      /\ flow' = flow /\ slot' = slot /\ UNCHANGED <<pc, coord, env>>
  BY DEF Release, PoolRelease, Panic, PoolUnwind
<1>1. /\ worker \in [Step -> WorkerState] /\ permits \in 0 .. Permits
      /\ slot \in [Step -> {"empty", "Completed", "Failed"}]
      /\ permits + Cardinality(H) = Permits
  BY DEF IInv, TypeOK, PoolTypeOK, PermitsConserved
<1>2. /\ worker' \in [Step -> WorkerState]
      /\ \A t \in Step : t # s => worker'[t] = worker[t]
  BY <1>0, <1>1 DEF WorkerState
<1>3. /\ IsFiniteSet(H) /\ Cardinality(H) \in Nat /\ s \in H
      /\ Cardinality(H \ {s}) = Cardinality(H) - 1
      /\ Cardinality(H \ {s}) \in Nat
  <2>1. IsFiniteSet(H) /\ Cardinality(H) \in Nat /\ s \in H
    BY <1>0, StepFinite
  <2>2. IsFiniteSet(H \ {s}) /\ Cardinality(H \ {s}) \in Nat
    BY StepFinite
  <2> QED
    BY <2>1, <2>2, FS_RemoveElement
<1>4. PermitsConserved' /\ permits' \in 0 .. Permits
  <2>1. {t \in Step : worker'[t] \in {"running", "stored"}} = H \ {s}
    BY <1>0, <1>1
  <2> HIDE DEF H
  <2>2. permits' + Cardinality(H \ {s}) = Permits /\ permits' \in 0 .. Permits
    BY <1>0, <1>1, <1>3, PermitsType
  <2> QED
    BY <2>1, <2>2 DEF PermitsConserved, Permits
<1> QED
  BY <1>0, <1>1, <1>2, <1>4, WorkerFrame

\* The environment, and steps that change nothing.
LEMMA KeepEnvironment ==
  ASSUME IInv, UNCHANGED <<flow, pc, coord, pool>>,
         cancelled' \in BOOLEAN, timed_out' \in BOOLEAN
  PROVE  IInv'
<1>0. /\ flow' = flow /\ pc' = pc /\ ready' = ready /\ ready_head' = ready_head
      /\ batch_end' = batch_end /\ in_degree' = in_degree /\ failed' = failed
      /\ handles' = handles /\ hj' = hj /\ results' = results
      /\ worker' = worker /\ slot' = slot /\ permits' = permits
  BY DEF coord, pool
<1>1. TypeOK'
  BY <1>0 DEF IInv, TypeOK, PoolTypeOK
<1>2. /\ BookInv(flow, in_degree, ready, SettledIn(results))'
      /\ OneResultPerStep' /\ FailedMarks' /\ PermitsConserved'
  BY <1>0 DEF IInv, OneResultPerStep, FailedMarks, PermitsConserved
<1>3. Positions' /\ LiveArePending'
  BY <1>0 DEF IInv, Positions, LiveArePending, Live, Taken, Pending
<1>4. DependencyOrder'
  BY <1>0 DEF IInv, DependencyOrder, Passed
<1> QED
  BY <1>1, <1>2, <1>3, <1>4 DEF IInv

(***************************************************************************)
(* IInv holds initially and every step keeps it.                           *)
(***************************************************************************)
LEMMA InitIInv == Init => IInv
<1> SUFFICES ASSUME Init PROVE IInv
  OBVIOUS
<1>0. flow \in FlowDef /\ validate(flow) /\ flow \in Flows
  BY FlowsAssumption DEF Init
<1>1. /\ results = <<>> /\ handles = <<>> /\ hj = 0 /\ pc = "top" /\ permits = Permits
      /\ worker = [s \in Step |-> "idle"] /\ ready_head = 0 /\ batch_end = 0
      /\ ready = InitReady(flow) /\ in_degree = InitDegree(flow)
      /\ failed = [s \in Step |-> FALSE] /\ slot = [s \in Step |-> "empty"]
      /\ cancelled = FALSE /\ timed_out = FALSE
  BY DEF Init, PoolInit
<1>2. SettledIn(results) = {}
  BY <1>1 DEF SettledIn
<1>3. Book(flow, in_degree, ready, {})
  BY <1>0, <1>1, BookInit DEF Book
<1>4. TypeOK
  <2>1. ready \in Seq(Step) /\ in_degree \in [Step -> Nat]
    BY <1>3 DEF Book
  <2>2. 0 \in 0 .. Len(ready) /\ 0 \in 0 .. Len(handles) /\ handles \in Seq(Step)
        /\ results \in Seq(StepResult)
    BY <1>1, <2>1
  <2>3. permits \in 0 .. Permits
    BY <1>1, PermitsType
  <2>4. /\ worker \in [Step -> WorkerState] /\ failed \in [Step -> BOOLEAN]
        /\ slot \in [Step -> {"empty", "Completed", "Failed"}]
    BY <1>1 DEF WorkerState
  <2> QED
    BY <1>0, <1>1, <2>1, <2>2, <2>3, <2>4 DEF TypeOK, PoolTypeOK
<1>5. Positions /\ OneResultPerStep /\ FailedMarks
  BY <1>1 DEF Positions, OneResultPerStep, FailedMarks
<1>6. DependencyOrder /\ LiveArePending
  BY <1>1 DEF DependencyOrder, LiveArePending, Live
<1>7. PermitsConserved
  <2>1. {s \in Step : worker[s] \in {"running", "stored"}} = {}
    BY <1>1
  <2>2. Cardinality({s \in Step : worker[s] \in {"running", "stored"}}) = 0
    BY <2>1, FS_EmptySet
  <2> QED
    BY <1>1, <2>2, PermitsType DEF PermitsConserved
<1> QED
  BY <1>2, <1>3, <1>4, <1>5, <1>6, <1>7 DEF IInv, Book

LEMMA NextIInv == IInv /\ [Next]_vars => IInv'
<1> SUFFICES ASSUME IInv, [Next]_vars PROVE IInv'
  OBVIOUS
<1>0. cancelled \in BOOLEAN /\ timed_out \in BOOLEAN
  BY DEF IInv, TypeOK, PoolTypeOK
<1>1. CASE Coordinator
  BY <1>1, KeepStartWave, KeepStopSkip, KeepReturn, KeepStartJoin, KeepEndWave,
     KeepSkipDepFailed, KeepSkipCondition, KeepJoin, KeepSpawn DEF Coordinator
<1>2. CASE \E s \in Step : Worker(s)
  BY <1>2, KeepAcquire, KeepStore, KeepRelease DEF Worker
<1>3. CASE Cancel
  BY <1>0, <1>3, KeepEnvironment DEF Cancel
<1>4. CASE Deadline
  BY <1>0, <1>4, KeepEnvironment DEF Deadline
<1>5. CASE UNCHANGED vars
  BY <1>0, <1>5, KeepEnvironment DEF vars, env
<1> QED
  BY <1>1, <1>2, <1>3, <1>4, <1>5 DEF Next

\* Every state of every run of run_dag satisfies the inductive invariant.
THEOREM Invariance == Spec => []IInv
BY InitIInv, NextIInv, PTL DEF Spec

\* The coordinator's cursors, queues and sets and the tasks' states keep
\* their types; in particular the semaphore stays between 0 and its size.
THEOREM TypeCorrect == Spec => []TypeOK
<1>1. IInv => TypeOK
  BY DEF IInv
<1> QED
  BY <1>1, Invariance, PTL

\* run_dag spawns a task only behind the dependencies of its step.
THEOREM DependenciesFirst == Spec => []DependencyOrder
<1>1. IInv => DependencyOrder
  BY DEF IInv
<1> QED
  BY <1>1, Invariance, PTL

\* run_dag pushes no second result for a step, however often it is unlocked.
THEOREM ResultsUnique == Spec => []OneResultPerStep
<1>1. IInv => OneResultPerStep
  BY DEF IInv
<1> QED
  BY <1>1, Invariance, PTL

\* The semaphore of run_dag neither loses nor invents a permit.
THEOREM PermitsKept == Spec => []PermitsConserved
<1>1. IInv => PermitsConserved
  BY DEF IInv
<1> QED
  BY <1>1, Invariance, PTL

\* run_dag joins every task it spawned before it returns.
THEOREM WorkersJoined == Spec => []NoWorkerLeft
<1>1. IInv => NoWorkerLeft
  <2> SUFFICES ASSUME IInv, pc = "done", NEW s \in Step
               PROVE  s \notin Live
    BY DEF NoWorkerLeft, Live
  <2>1. ~Pending(s)
    BY DEF IInv, Positions, Pending
  <2>2. worker[s] \in WorkerState
    BY DEF IInv, TypeOK, PoolTypeOK
  <2> QED
    BY <2>1, <2>2 DEF IInv, LiveArePending, Live, WorkerState
<1> QED
  BY <1>1, Invariance, PTL

\* Types, permits and the end of every task together, as the run checks them.
THEOREM RunSafe == Spec => []Inv
BY TypeCorrect, PermitsKept, WorkersJoined, PTL DEF Inv

-----------------------------------------------------------------------------
(***************************************************************************)
(* The second layer: DInv, relative to IInv.                               *)
(***************************************************************************)

LEMMA FlowTyped ==
  ASSUME IInv
  PROVE  /\ \A s \in Step : flow.deps[s] \in SUBSET Step
         /\ \A s \in Step : flow.trigger[s] \in {"All", "Any"}
         /\ \A s \in Step : flow.cond[s] \in Condition
BY FlowValid DEF IInv, FlowDef, Trigger

\* A step that leaves the results, the queue and the failed set alone.
LEMMA KeepQuiet ==
  ASSUME IInv, DInv,
         results' = results, ready' = ready, ready_head' = ready_head,
         flow' = flow, failed' = failed, Stopped => Stopped',
         \A s \in Step : Pending(s) => Pending(s)',
         \A s \in Step : worker[s] = "idle" => worker'[s] = "idle",
         pc' = "done" => ready_head = Len(ready)
  PROVE  DInv'
<1>1. \A s : Taken(s)' <=> Taken(s)
  BY DEF Taken
<1>2. \A d : Failed(d)' <=> Failed(d)
  BY DEF Failed
<1>3. TakenAccounted' /\ SpawnedTaken'
  BY <1>1 DEF DInv, TakenAccounted, SpawnedTaken, Reported
<1>4. StopsAreStopped' /\ DrainedWhenDone'
  BY DEF DInv, StopsAreStopped, DrainedWhenDone
<1>5. FailuresMarked' /\ FailedPassOn'
  BY <1>1, <1>2 DEF DInv, FailuresMarked, FailedPassOn
<1>6. ConditionSeesDependency'
  BY DEF DInv, ConditionSeesDependency, HasResult
<1> QED
  BY <1>3, <1>4, <1>5, <1>6 DEF DInv

\* A taken step with the trigger All has every dependency settled, so that none
\* of its dependencies can still get a result.
LEMMA TakenSettled ==
  ASSUME IInv, NEW s \in Step, Taken(s), flow.trigger[s] = "All", NEW d \in flow.deps[s]
  PROVE  \E i \in DOMAIN results : results[i].step = d
<1>1. s \in Queued(ready)
  <2>1. ready \in Seq(Step) /\ ready_head \in 0 .. Len(ready)
    BY DEF IInv, TypeOK, PoolTypeOK
  <2>2. 1 .. ready_head \subseteq DOMAIN ready
    BY <2>1
  <2> QED
    BY <2>2 DEF Taken, Queued
<1>2. d \in SettledIn(results)
  BY <1>1 DEF IInv, BookInv
<1> QED
  BY <1>2, SettledReported

LEMMA KeepDSpawn == ASSUME IInv, DInv, NEW s \in Step, Spawn(s) PROVE DInv'
<1>a. /\ pc = "batch" /\ ready_head < batch_end /\ s = ready[ready_head + 1]
      /\ ready_head' = ready_head + 1 /\ ~DepFailed(flow, failed, s)
      /\ ~check_condition_false(flow, s, results)
      /\ worker' = [worker EXCEPT ![s] = "waiting"] /\ handles' = Append(handles, s)
      /\ flow' = flow /\ pc' = pc /\ ready' = ready
      /\ failed' = failed /\ hj' = hj /\ results' = results
      /\ cancelled' = cancelled /\ timed_out' = timed_out
  BY DEF Spawn, PoolSpawn, Take, env, pool
<1>0. /\ ready \in Seq(Step) /\ handles \in Seq(Step) /\ worker \in [Step -> WorkerState]
      /\ ready_head \in Nat /\ hj = 0
  BY <1>a DEF IInv, TypeOK, PoolTypeOK, Positions
<1>1. \A t : Taken(t)' <=> Taken(t) \/ t = s
  <2>1. 1 .. ready_head' = 1 .. ready_head \cup {ready_head + 1}
    BY <1>0, <1>a
  <2> QED
    BY <1>a, <2>1 DEF Taken
<1>2. Pending(s)' /\ \A t : Pending(t) => Pending(t)'
  <2>1. /\ DOMAIN handles' = 1 .. Len(handles) + 1 /\ DOMAIN handles = 1 .. Len(handles)
        /\ \A k \in DOMAIN handles : handles'[k] = handles[k]
        /\ handles'[Len(handles) + 1] = s /\ Len(handles) \in Nat
    BY <1>0, <1>a
  <2>2. Len(handles) + 1 \in DOMAIN handles' /\ Len(handles) + 1 > hj'
    BY <1>0, <1>a, <2>1
  <2>3. DOMAIN handles \subseteq DOMAIN handles'
    BY <2>1
  <2> QED
    BY <1>a, <2>1, <2>2, <2>3 DEF Pending
<1>3. TakenAccounted'
  BY <1>1, <1>2, <1>a DEF DInv, TakenAccounted, Reported
<1>4. SpawnedTaken'
  BY <1>0, <1>1, <1>a DEF DInv, SpawnedTaken
<1>5. StopsAreStopped' /\ DrainedWhenDone'
  BY <1>a DEF DInv, StopsAreStopped, DrainedWhenDone, Stopped
<1>6. \A d : Failed(d)' <=> Failed(d)
  BY <1>a DEF Failed
<1>7. FailuresMarked'
  BY <1>6, <1>a DEF DInv, FailuresMarked
<1>8. FailedPassOn'
  <2>1. \A d \in flow.deps[s] : ~Failed(d)
    BY <1>a, FlowTyped DEF DInv, FailuresMarked, DepFailed
  <2> QED
    BY <1>1, <1>6, <1>a, <2>1 DEF DInv, FailedPassOn
<1>9. ConditionSeesDependency'
  <2>1. flow.cond[s].kind = "status" => HasResult(results, flow.cond[s].on, flow.cond[s].is)
    BY <1>a DEF check_condition_false
  <2>2. \A t \in Step : t # s => worker'[t] = worker[t]
    BY <1>0, <1>a
  <2> QED
    BY <1>a, <2>1, <2>2 DEF DInv, ConditionSeesDependency
<1> QED
  BY <1>3, <1>4, <1>5, <1>7, <1>8, <1>9 DEF DInv

(***************************************************************************)
(* What the steps that push results share.  New is the set of steps that   *)
(* get their result; none had one before.                                  *)
(***************************************************************************)
LEMMA KeepPushed ==
  ASSUME IInv, DInv, NEW New \in SUBSET Step,
         flow' = flow, worker' = worker,
         Longer(results, results'), Stopped => Stopped', pc' # "done",
         \A i \in DOMAIN results' : i \in DOMAIN results \/ results'[i].step \in New,
         \A s \in New : \E i \in DOMAIN results' : results'[i].step = s,
         \A s \in New : \A i \in DOMAIN results : results[i].step # s,
         \A s \in Step : Taken(s) => Taken(s)',
         \A s \in Step : Taken(s)' => Taken(s) \/ s \in New,
         \A s \in Step : Pending(s) => Pending(s)' \/ s \in New,
         \A s \in Step : failed[s] => failed'[s],
         \A s \in New : Failed(s)' => failed'[s],
         (\E i \in DOMAIN results' \ DOMAIN results : results'[i].reason \in StopReason)
            => Stopped',
         \A s \in New : \A d \in flow.deps[s] :
            flow.trigger[s] = "All" /\ Taken(s)' /\ ~Taken(s) /\ Failed(d)' =>
              \E i \in DOMAIN results' :
                \/ results'[i] = Skip(s, "dependency_failed")
                \/ results'[i].step = s /\ results'[i].reason \in StopReason,
         \A s \in New : \A i \in DOMAIN results' :
            results'[i] = Skip(s, "condition_not_met") =>
              ~HasResult(results, flow.cond[s].on, flow.cond[s].is)
              /\ (flow.trigger[s] = "All" => flow.deps[s] \subseteq SettledIn(results))
  PROVE  DInv'
<1>0. results \in Seq(StepResult) /\ \A i \in DOMAIN results : results[i] \in StepResult
  BY DEF IInv, TypeOK, PoolTypeOK
<1>1. /\ \A s : s \in Reported(results) => s \in Reported(results')
      /\ New \subseteq Reported(results')
  BY DEF Longer, Reported
<1>2. TakenAccounted'
  BY <1>1 DEF DInv, TakenAccounted
<1>3. SpawnedTaken'
  BY DEF DInv, SpawnedTaken
<1>4. StopsAreStopped'
  BY DEF DInv, StopsAreStopped, Longer
<1>5. DrainedWhenDone'
  BY DEF DrainedWhenDone
<1>6. /\ \A d : Failed(d) => Failed(d)'
      /\ \A d : Failed(d)' => Failed(d) \/ d \in New
  BY DEF Failed, Longer
<1>7. FailuresMarked'
  BY <1>6 DEF DInv, FailuresMarked
<1>8. FailedPassOn'
  <2> SUFFICES ASSUME NEW s \in Step, NEW d \in flow.deps[s],
                      flow.trigger[s] = "All", Taken(s)', Failed(d)'
               PROVE  \E i \in DOMAIN results' :
                        \/ results'[i] = Skip(s, "dependency_failed")
                        \/ results'[i].step = s /\ results'[i].reason \in StopReason
    BY DEF FailedPassOn
  <2>1. CASE ~Taken(s)
    BY <2>1
  <2>2. CASE Taken(s)
    <3>1. d \notin New
      BY <2>2, TakenSettled
    <3>2. Failed(d)
      BY <1>6, <3>1
    <3> QED
      BY <2>2, <3>2 DEF DInv, FailedPassOn, Longer
  <2> QED
    BY <2>1, <2>2
<1>9. ConditionSeesDependency'
  <2> SUFFICES ASSUME NEW s \in Step, flow.cond[s].kind = "status",
                      flow.cond[s].on \in flow.deps[s], flow.trigger[s] = "All"
               PROVE  /\ worker[s] # "idle" => HasResult(results', flow.cond[s].on, flow.cond[s].is)
                      /\ (\E i \in DOMAIN results' : results'[i] = Skip(s, "condition_not_met")) =>
                            \E st \in Status \ {flow.cond[s].is} :
                                HasResult(results', flow.cond[s].on, st)
    BY DEF ConditionSeesDependency
  <2> DEFINE c == flow.cond[s]
  <2>1. \A d, st : HasResult(results, d, st) => HasResult(results', d, st)
    BY DEF HasResult, Longer
  <2>2. worker[s] # "idle" => HasResult(results', c.on, c.is)
    BY <2>1 DEF DInv, ConditionSeesDependency
  <2>3. ASSUME NEW i \in DOMAIN results', results'[i] = Skip(s, "condition_not_met")
        PROVE  \E st \in Status \ {c.is} : HasResult(results', c.on, st)
    <3>1. CASE i \in DOMAIN results
      BY <2>1, <2>3, <3>1 DEF DInv, ConditionSeesDependency, Longer
    <3>2. CASE i \notin DOMAIN results
      <4>1. s \in New
        BY <2>3, <3>2 DEF Skip
      <4>2. ~HasResult(results, c.on, c.is) /\ c.on \in SettledIn(results)
        BY <2>3, <4>1
      <4>3. PICK k \in DOMAIN results : results[k].step = c.on
        BY <4>2, SettledReported
      <4>4. results[k].status \in Status
        BY <1>0 DEF StepResult
      <4>5. results[k].status # c.is
        BY <4>2, <4>3 DEF HasResult
      <4>6. HasResult(results, c.on, results[k].status)
        BY <4>3 DEF HasResult
      <4> QED
        BY <2>1, <4>4, <4>5, <4>6
    <3> QED
      BY <3>1, <3>2
  <2> QED
    BY <2>2, <2>3
<1> QED
  BY <1>2, <1>3, <1>4, <1>5, <1>7, <1>8, <1>9 DEF DInv

\* The batch's next step s is skipped or, at the join, a task's step gets its
\* result: one result r is pushed and s was not reported before.
LEMMA KeepDPushOne ==
  ASSUME IInv, DInv, NEW s \in Step, NEW r \in StepResult,
         r.step = s, r.reason \notin StopReason, pc \in {"batch", "join"},
         \A i \in DOMAIN results : results[i].step # s,
         results' = Append(results, r), unlock_dependents(s),
         UNCHANGED <<flow, pc, worker, env>>,
         \A t \in Step : Taken(t)' => Taken(t) \/ t = s,
         \A t \in Step : Taken(t) => Taken(t)',
         \A t \in Step : Pending(t) => Pending(t)' \/ t = s,
         \A t \in Step : failed[t] => failed'[t],
         r.status = "Failed" \/ r.reason = "dependency_failed" => failed'[s],
         r = Skip(s, "dependency_failed") \/ Taken(s) \/ ~DepFailed(flow, failed, s),
         r = Skip(s, "condition_not_met") =>
            check_condition_false(flow, s, results) /\ s \in Queued(ready)
  PROVE  DInv'
<1>1. /\ DOMAIN results' = 1 .. Len(results) + 1 /\ DOMAIN results = 1 .. Len(results)
      /\ Len(results) \in Nat
      /\ \A i \in DOMAIN results : results'[i] = results[i]
      /\ results'[Len(results) + 1] = r
  BY Push
<1> DEFINE last == Len(results) + 1
<1>2. /\ \A i \in DOMAIN results' : i \in DOMAIN results \/ i = last
      /\ last \in DOMAIN results' /\ last \notin DOMAIN results
      /\ DOMAIN results \subseteq DOMAIN results' /\ results'[last] = r
  BY <1>1
<1> HIDE DEF last
<1>3. Longer(results, results')
  BY <1>1, <1>2 DEF Longer
<1>4. flow' = flow /\ worker' = worker /\ pc' # "done" /\ (Stopped => Stopped')
  BY DEF env, Stopped
<1>5. Failed(s)' => failed'[s]
  BY <1>1, <1>2 DEF Failed
<1>6. \A d \in flow.deps[s] : d # s
  <2>1. PICK rank \in [Step -> Step] : \A t \in Step : \A d \in flow.deps[t] : rank[d] < rank[t]
    BY FlowValid DEF IInv, validate, Acyclic
  <2>2. rank[s] \in Nat
    BY NAssumption DEF Step
  <2> QED
    BY <2>1, <2>2
<1>7. \A d \in flow.deps[s] :
        flow.trigger[s] = "All" /\ Taken(s)' /\ ~Taken(s) /\ Failed(d)' =>
          \E i \in DOMAIN results' :
            \/ results'[i] = Skip(s, "dependency_failed")
            \/ results'[i].step = s /\ results'[i].reason \in StopReason
  <2> SUFFICES ASSUME NEW d \in flow.deps[s], ~Taken(s), Failed(d)'
               PROVE  r = Skip(s, "dependency_failed")
    BY <1>2
  <2>1. Failed(d)
    BY <1>1, <1>2, <1>6 DEF Failed
  <2>2. DepFailed(flow, failed, s)
    BY <2>1, FlowTyped DEF DInv, FailuresMarked, DepFailed
  <2> QED
    BY <2>2
<1>8. \A i \in DOMAIN results' : results'[i] = Skip(s, "condition_not_met") =>
        /\ ~HasResult(results, flow.cond[s].on, flow.cond[s].is)
        /\ flow.trigger[s] = "All" => flow.deps[s] \subseteq SettledIn(results)
  <2> SUFFICES ASSUME r = Skip(s, "condition_not_met")
               PROVE  /\ ~HasResult(results, flow.cond[s].on, flow.cond[s].is)
                      /\ flow.trigger[s] = "All" => flow.deps[s] \subseteq SettledIn(results)
    BY <1>1, <1>2 DEF Skip
  <2>1. ~HasResult(results, flow.cond[s].on, flow.cond[s].is)
    BY DEF check_condition_false
  <2>2. flow.trigger[s] = "All" => flow.deps[s] \subseteq SettledIn(results)
    BY DEF IInv, BookInv
  <2> QED
    BY <2>1, <2>2
<1>9. ~(\E i \in DOMAIN results' \ DOMAIN results : results'[i].reason \in StopReason)
  BY <1>2
<1> DEFINE New == {s}
<1>10. /\ \A i \in DOMAIN results' : i \in DOMAIN results \/ results'[i].step \in New
       /\ \A t \in New : \E i \in DOMAIN results' : results'[i].step = t
       /\ \A t \in New : \A i \in DOMAIN results : results[i].step # t
       /\ New \in SUBSET Step
  BY <1>2
<1>11. /\ \A t \in Step : Taken(t)' => Taken(t) \/ t \in New
       /\ \A t \in Step : Pending(t) => Pending(t)' \/ t \in New
       /\ \A t \in New : Failed(t)' => failed'[t]
  BY <1>5
<1>12. \A t \in New : \A d \in flow.deps[t] :
         flow.trigger[t] = "All" /\ Taken(t)' /\ ~Taken(t) /\ Failed(d)' =>
           \E i \in DOMAIN results' :
             \/ results'[i] = Skip(t, "dependency_failed")
             \/ results'[i].step = t /\ results'[i].reason \in StopReason
  BY <1>7
<1>13. \A t \in New : \A i \in DOMAIN results' : results'[i] = Skip(t, "condition_not_met") =>
         /\ ~HasResult(results, flow.cond[t].on, flow.cond[t].is)
         /\ flow.trigger[t] = "All" => flow.deps[t] \subseteq SettledIn(results)
  BY <1>8
<1> HIDE DEF New
<1> QED
  BY <1>3, <1>4, <1>9, <1>10, <1>11, <1>12, <1>13, KeepPushed

\* A step of the batch that is skipped, and what its taking changes.
LEMMA TakeShape ==
  ASSUME IInv, NEW s \in Step, Take(s), unlock_dependents(s),
         NEW r \in StepResult, r.step = s, r.reason \notin StopReason,
         results' = Append(results, r), flow' = flow
  PROVE  /\ \A i \in DOMAIN results : results[i].step # s
         /\ s \in Queued(ready)
         /\ \A t \in Step : Taken(t)' <=> Taken(t) \/ t = s
<1>1. /\ ready_head < batch_end /\ s = ready[ready_head + 1] /\ ready_head' = ready_head + 1
      /\ ready_head \in Nat /\ Len(ready) \in Nat /\ ready_head < Len(ready)
  BY DEF Take, IInv, TypeOK, PoolTypeOK
<1>2. (\A i \in DOMAIN results : results[i].step # s) /\ s \in Queued(ready)
  BY <1>1, NextIsFresh
<1>3. \A i \in 1 .. Len(ready) : ready'[i] = ready[i]
  BY <1>2, Push
<1>4. 1 .. ready_head' = 1 .. ready_head \cup {ready_head + 1} /\ 1 .. ready_head' \subseteq 1 .. Len(ready)
  BY <1>1
<1> QED
  BY <1>1, <1>2, <1>3, <1>4 DEF Taken

LEMMA KeepDSkipDepFailed ==
  ASSUME IInv, DInv, NEW s \in Step, SkipDepFailed(s)
  PROVE  DInv'
<1> DEFINE r == Skip(s, "dependency_failed")
<1>1. r \in StepResult /\ r.step = s /\ r.reason \notin StopReason
  BY DEF Skip, StepResult, Status, Reason, StopReason
<1>2. /\ Take(s) /\ pc = "batch" /\ results' = Append(results, r) /\ unlock_dependents(s)
      /\ failed' = [failed EXCEPT ![s] = TRUE]
      /\ flow' = flow /\ handles' = handles /\ hj' = hj
      /\ UNCHANGED <<flow, pc, worker, env>>
  BY DEF SkipDepFailed, Take, pool
<1>3. r # Skip(s, "condition_not_met")
  BY DEF Skip
<1>4. r = Skip(s, "dependency_failed")
  OBVIOUS
<1> HIDE DEF r
<1>5. /\ \A i \in DOMAIN results : results[i].step # s
      /\ \A t \in Step : Taken(t)' <=> Taken(t) \/ t = s
  BY <1>1, <1>2, TakeShape
<1>6. \A t \in Step : Pending(t) => Pending(t)'
  BY <1>2 DEF Pending
<1>7. failed'[s] /\ \A t \in Step : failed[t] => failed'[t]
  BY <1>2 DEF IInv, TypeOK, PoolTypeOK
<1> QED
  BY <1>1, <1>2, <1>3, <1>4, <1>5, <1>6, <1>7, KeepDPushOne

LEMMA KeepDSkipCondition ==
  ASSUME IInv, DInv, NEW s \in Step, SkipCondition(s)
  PROVE  DInv'
<1> DEFINE r == Skip(s, "condition_not_met")
<1>1. /\ r \in StepResult /\ r.step = s /\ r.reason \notin StopReason
      /\ r.status # "Failed" /\ r.reason # "dependency_failed"
  BY DEF Skip, StepResult, Status, Reason, StopReason
<1>2. /\ Take(s) /\ pc = "batch" /\ results' = Append(results, r) /\ unlock_dependents(s)
      /\ ~DepFailed(flow, failed, s) /\ check_condition_false(flow, s, results)
      /\ failed' = failed /\ flow' = flow /\ handles' = handles /\ hj' = hj
      /\ UNCHANGED <<flow, pc, worker, env>>
  BY DEF SkipCondition, Take, pool
<1> HIDE DEF r
<1>3. /\ \A i \in DOMAIN results : results[i].step # s
      /\ s \in Queued(ready)
      /\ \A t \in Step : Taken(t)' <=> Taken(t) \/ t = s
  BY <1>1, <1>2, TakeShape
<1>4. \A t \in Step : Pending(t) => Pending(t)'
  BY <1>2 DEF Pending
<1> QED
  BY <1>1, <1>2, <1>3, <1>4, KeepDPushOne

LEMMA KeepDJoin == ASSUME IInv, DInv, NEW s \in Step, Join(s) PROVE DInv'
<1> DEFINE r == JoinResult(s)
<1>0. /\ pc = "join" /\ hj < Len(handles) /\ s = handles[hj + 1]
      /\ failed' = [failed EXCEPT ![s] = @ \/ slot[s] # "Completed"]
      /\ unlock_dependents(s) /\ results' = Append(results, r) /\ hj' = hj + 1
      /\ flow' = flow /\ ready_head' = ready_head /\ handles' = handles
      /\ UNCHANGED <<flow, pc, worker, env>>
  BY DEF Join, pool
<1>1. /\ ready \in Seq(Step) /\ ready_head \in 0 .. Len(ready)
      /\ handles \in Seq(Step) /\ hj \in Nat /\ Len(handles) \in Nat
      /\ DOMAIN handles = 1 .. Len(handles)
      /\ failed \in [Step -> BOOLEAN]
      /\ slot[s] \in {"empty", "Completed", "Failed"}
  BY DEF IInv, TypeOK, PoolTypeOK
<1>2. hj + 1 \in DOMAIN handles /\ hj + 1 > hj
  BY <1>0, <1>1
<1>3. Pending(s) /\ Taken(s)
  BY <1>0, <1>2 DEF Pending, IInv, Positions
<1>4. \A i \in DOMAIN results : results[i].step # s
  BY <1>3 DEF IInv, Positions
<1>5. /\ r \in StepResult /\ r.step = s /\ r.reason \notin StopReason
      /\ r.reason # "dependency_failed" /\ r # Skip(s, "condition_not_met")
      /\ r.status = "Failed" => slot[s] # "Completed"
  BY <1>1 DEF JoinResult, Fail, Executed, Skip, StepResult, Status, Reason, StopReason
<1> HIDE DEF r
<1>6. /\ \A t \in Step : failed[t] => failed'[t]
      /\ slot[s] # "Completed" => failed'[s]
  <2>1. failed' = [t \in Step |-> IF t = s THEN failed[s] \/ slot[s] # "Completed" ELSE failed[t]]
    BY <1>0, <1>1
  <2> QED
    BY <1>1, <2>1
<1>7. \A t \in Step : Taken(t)' <=> Taken(t)
  <2>1. \A i \in 1 .. Len(ready) : ready'[i] = ready[i]
    BY <1>0, <1>4, <1>5, Push
  <2>2. 1 .. ready_head \subseteq 1 .. Len(ready)
    BY <1>1
  <2> QED
    BY <1>0, <2>1, <2>2 DEF Taken
<1>8. \A t \in Step : Pending(t) => Pending(t)' \/ t = s
  <2>1. \A k \in DOMAIN handles : k > hj => k > hj' \/ k = hj + 1
    BY <1>0, <1>1
  <2> QED
    BY <1>0, <2>1 DEF Pending
<1> QED
  BY <1>0, <1>3, <1>4, <1>5, <1>6, <1>7, <1>8, KeepDPushOne

LEMMA KeepDStopSkip == ASSUME IInv, DInv, StopSkip PROVE DInv'
<1> DEFINE m == Len(ready) - ready_head
           New == {ready[ready_head + i] : i \in 1 .. m}
<1>0. /\ pc = "top" /\ ready_head' = Len(ready) /\ flow' = flow /\ pc' = pc /\ ready' = ready
      /\ failed' = failed /\ handles' = handles /\ hj' = hj /\ worker' = worker
      /\ Stopped /\ Stopped'
  BY DEF StopSkip, env, pool, Stopped
<1>1. /\ ready \in Seq(Step) /\ ready_head \in 0 .. Len(ready) /\ Len(ready) \in Nat
  BY DEF IInv, TypeOK, PoolTypeOK
<1>2. /\ m \in Nat /\ \A i \in 1 .. m : ready_head + i \in 1 .. Len(ready)
      /\ \A i \in 1 .. m : /\ StopResults[i] \in StepResult
                           /\ StopResults[i].step = ready[ready_head + i]
                           /\ StopResults[i].reason \in StopReason
      /\ DOMAIN results = 1 .. Len(results)
      /\ DOMAIN results' = 1 .. Len(results) + m /\ Len(results) \in Nat
      /\ \A i \in DOMAIN results : results'[i] = results[i]
      /\ \A i \in 1 .. m : results'[Len(results) + i] = StopResults[i]
      /\ \A k \in DOMAIN results' :
            k \in DOMAIN results \/ \E i \in 1 .. m : k = Len(results) + i
      /\ \A i \in DOMAIN results, j \in 1 .. m : results[i].step # ready[ready_head + j]
  BY StopShape
<1>3. /\ DOMAIN results \subseteq DOMAIN results'
      /\ \A i \in 1 .. m : Len(results) + i \in DOMAIN results'
  BY <1>2
<1>4. \A t : Taken(t)' <=> Taken(t) \/ t \in New
  <2>1. \A k \in 1 .. Len(ready) : k \in 1 .. ready_head \/ \E i \in 1 .. m : k = ready_head + i
    <3> SUFFICES ASSUME NEW k \in 1 .. Len(ready), k \notin 1 .. ready_head
                 PROVE  \E i \in 1 .. m : k = ready_head + i
      OBVIOUS
    <3>1. k - ready_head \in 1 .. m /\ k = ready_head + (k - ready_head)
      BY <1>1
    <3> QED
      BY <3>1
  <2>2. 1 .. ready_head \subseteq 1 .. Len(ready)
    BY <1>1
  <2> HIDE DEF m
  <2> QED
    BY <1>0, <1>2, <2>1, <2>2 DEF Taken
<1> HIDE DEF m
<1>5. /\ New \in SUBSET Step
      /\ \A i \in 1 .. m : ready[ready_head + i] \in New
      /\ \A s \in New : \E i \in 1 .. m : s = ready[ready_head + i]
  <2>1. \A i \in 1 .. m : ready[ready_head + i] \in Step
    <3>1. \A k \in 1 .. Len(ready) : ready[k] \in Step
      BY <1>1
    <3>2. \A i \in 1 .. m : ready_head + i \in 1 .. Len(ready)
      BY <1>2
    <3> QED
      BY <3>1, <3>2
  <2> QED
    BY <2>1
<1> HIDE DEF New
<1>6. Longer(results, results')
  BY <1>2, <1>3 DEF Longer
<1>7. /\ \A i \in DOMAIN results' : i \in DOMAIN results \/ results'[i].step \in New
      /\ \A s \in New : \A i \in DOMAIN results : results[i].step # s
  <2>1. ASSUME NEW i \in DOMAIN results', i \notin DOMAIN results
        PROVE  results'[i].step \in New
    <3>1. PICK j \in 1 .. m : i = Len(results) + j
      BY <1>2, <2>1
    <3>2. results'[i].step = ready[ready_head + j]
      BY <1>2, <3>1
    <3> QED
      BY <1>5, <3>2
  <2>2. ASSUME NEW s \in New, NEW i \in DOMAIN results
        PROVE  results[i].step # s
    <3>1. PICK j \in 1 .. m : s = ready[ready_head + j]
      BY <1>5
    <3> QED
      BY <1>2, <3>1
  <2> QED
    BY <2>1, <2>2
<1>a. \A i \in 1 .. m : /\ Len(results) + i \in DOMAIN results'
                        /\ results'[Len(results) + i].step = ready[ready_head + i]
                        /\ results'[Len(results) + i].reason \in StopReason
  BY <1>2, <1>3
<1>8. \A s \in New : \E i \in DOMAIN results' : results'[i].step = s /\ results'[i].reason \in StopReason
  BY <1>a, <1>5
<1>9. \A s \in New : \A i \in DOMAIN results' : results'[i].step = s => results'[i].reason \in StopReason
  <2> SUFFICES ASSUME NEW s \in New, NEW i \in DOMAIN results', results'[i].step = s
               PROVE  results'[i].reason \in StopReason
    OBVIOUS
  <2>1. i \notin DOMAIN results
    BY <1>2, <1>7
  <2>2. PICK k \in 1 .. m : i = Len(results) + k
    BY <1>2, <2>1
  <2> QED
    BY <1>a, <2>2
<1>10. \A s \in New : ~Failed(s)'
  <2> SUFFICES ASSUME NEW s \in New, NEW i \in DOMAIN results', results'[i].step = s,
                      results'[i].status = "Failed" \/ results'[i].reason = "dependency_failed"
               PROVE  FALSE
    BY DEF Failed
  <2>1. PICK k \in 1 .. m : i = Len(results) + k
    BY <1>2, <1>7
  <2>2. results'[i].status = "Skipped" /\ results'[i].reason \in StopReason
    <3>1. results'[i] = StopResults[k]
      BY <1>2, <2>1
    <3>2. StopResults[k].status = "Skipped"
      BY DEF StopResults, Skip, m
    <3> QED
      BY <1>2, <3>1, <3>2
  <2> QED
    BY <2>2 DEF StopReason
<1>11. \A s \in New : \A i \in DOMAIN results' : results'[i] # Skip(s, "condition_not_met")
  BY <1>9 DEF Skip, StopReason
<1>12. \A s \in Step : Pending(s) => Pending(s)'
  BY <1>0 DEF Pending
<1>13. pc' # "done"
  BY <1>0
<1> QED
  BY <1>0, <1>4, <1>5, <1>6, <1>7, <1>8, <1>10, <1>11, <1>12, <1>13, KeepPushed

\* The actions that push no result and take no step.
LEMMA KeepDCoordinator ==
  ASSUME IInv, DInv, StartWave \/ Return \/ StartJoin \/ EndWave
  PROVE  DInv'
<1>1. /\ results' = results /\ ready' = ready /\ ready_head' = ready_head
      /\ flow' = flow /\ failed' = failed /\ worker' = worker
      /\ cancelled' = cancelled /\ timed_out' = timed_out
      /\ pc' = "done" => ready_head = Len(ready)
  BY DEF StartWave, Return, StartJoin, EndWave, coord, pool, env
<1>2. \A s \in Step : Pending(s) => Pending(s)'
  <2>1. CASE StartWave
    BY <2>1 DEF StartWave, IInv, Positions, Pending
  <2>2. CASE Return
    BY <2>2 DEF Return, coord, Pending
  <2>3. CASE StartJoin
    BY <2>3 DEF StartJoin, IInv, Positions, Pending
  <2>4. CASE EndWave
    <3>1. handles \in Seq(Step) /\ hj = Len(handles)
      BY <2>4 DEF EndWave, IInv, TypeOK, PoolTypeOK
    <3>2. \A s : ~Pending(s)
      BY <3>1 DEF Pending
    <3> QED
      BY <3>2
  <2> QED
    BY <2>1, <2>2, <2>3, <2>4
<1> QED
  BY <1>1, <1>2, KeepQuiet DEF Stopped

LEMMA KeepDWorker == ASSUME IInv, DInv, NEW s \in Step, Worker(s) PROVE DInv'
<1>1. /\ UNCHANGED <<flow, pc, coord, env>>
      /\ worker[s] \in {"waiting", "running", "stored"}
      /\ \E w \in WorkerState : worker' = [worker EXCEPT ![s] = w]
  BY DEF Worker, Acquire, Store, Release, Panic, PoolAcquire, PoolStore, PoolRelease,
         PoolUnwind, WorkerState
<1>2. /\ results' = results /\ ready' = ready /\ ready_head' = ready_head
      /\ flow' = flow /\ failed' = failed /\ handles' = handles /\ hj' = hj /\ pc' = pc
      /\ cancelled' = cancelled /\ timed_out' = timed_out
  BY <1>1 DEF coord, env
<1>3. \A t \in Step : worker[t] = "idle" => worker'[t] = "idle"
  BY <1>1 DEF IInv, TypeOK, PoolTypeOK
<1>4. \A t \in Step : Pending(t) => Pending(t)'
  BY <1>2 DEF Pending
<1>5. pc' = "done" => ready_head = Len(ready)
  BY <1>2 DEF DInv, DrainedWhenDone
<1> QED
  BY <1>2, <1>3, <1>4, <1>5, KeepQuiet DEF Stopped

LEMMA KeepDEnvironment ==
  ASSUME IInv, DInv, Cancel \/ Deadline \/ UNCHANGED vars
  PROVE  DInv'
<1>1. /\ UNCHANGED <<flow, pc, coord, pool>> /\ (Stopped => Stopped')
  BY DEF Cancel, Deadline, vars, env, Stopped
<1>2. /\ results' = results /\ ready' = ready /\ ready_head' = ready_head
      /\ flow' = flow /\ failed' = failed /\ handles' = handles /\ hj' = hj /\ pc' = pc
      /\ worker' = worker
  BY <1>1 DEF coord, pool
<1>3. \A t \in Step : Pending(t) => Pending(t)'
  BY <1>2 DEF Pending
<1>4. pc' = "done" => ready_head = Len(ready)
  BY <1>2 DEF DInv, DrainedWhenDone
<1> QED
  BY <1>1, <1>2, <1>3, <1>4, KeepQuiet

LEMMA InitDInv == Init => DInv
<1> SUFFICES ASSUME Init PROVE DInv
  OBVIOUS
<1>1. /\ results = <<>> /\ worker = [s \in Step |-> "idle"] /\ ready_head = 0 /\ pc = "top"
  BY DEF Init, PoolInit
<1>2. \A s : ~Taken(s)
  BY <1>1 DEF Taken
<1>3. \A d : ~Failed(d)
  BY <1>1 DEF Failed
<1> QED
  BY <1>1, <1>2, <1>3 DEF DInv, TakenAccounted, SpawnedTaken, StopsAreStopped, DrainedWhenDone,
     FailuresMarked, FailedPassOn, ConditionSeesDependency

LEMMA NextDInv == IInv /\ DInv /\ [Next]_vars => DInv'
<1> SUFFICES ASSUME IInv, DInv, [Next]_vars PROVE DInv'
  OBVIOUS
<1>1. CASE Coordinator
  BY <1>1, KeepDCoordinator, KeepDStopSkip, KeepDSkipDepFailed, KeepDSkipCondition,
     KeepDJoin, KeepDSpawn DEF Coordinator
<1>2. CASE \E s \in Step : Worker(s)
  BY <1>2, KeepDWorker
<1>3. CASE Cancel \/ Deadline \/ UNCHANGED vars
  BY <1>3, KeepDEnvironment
<1> QED
  BY <1>1, <1>2, <1>3 DEF Next

\* Both layers hold in every state of every run of run_dag.
THEOREM SecondInvariance == Spec => [](IInv /\ DInv)
<1>1. Init => IInv /\ DInv
  BY InitIInv, InitDInv
<1>2. (IInv /\ DInv) /\ [Next]_vars => (IInv /\ DInv)'
  BY NextIInv, NextDInv
<1> QED
  BY <1>1, <1>2, PTL DEF Spec

\* check_condition in run_dag sees the final status of a dependency.
THEOREM ConditionsDecided == Spec => []ConditionSeesDependency
<1>1. DInv => ConditionSeesDependency
  BY DEF DInv
<1> QED
  BY <1>1, SecondInvariance, PTL

(***************************************************************************)
(* The end of a run that was not stopped.                                  *)
(***************************************************************************)

\* No step stays locked, and every step that became ready was reported.
LEMMA EndReported == IInv /\ DInv => AllReported
<1> SUFFICES ASSUME IInv, DInv, pc = "done", ~Stopped
             PROVE  Reported(results) = Step
  BY DEF AllReported
<1>1. /\ ready \in Seq(Step) /\ results \in Seq(StepResult)
      /\ ready_head = Len(ready) /\ DOMAIN ready = 1 .. Len(ready)
  BY DEF IInv, TypeOK, PoolTypeOK, DInv, DrainedWhenDone
<1>2. \A s : ~Pending(s)
  BY DEF IInv, Positions, Pending
<1>3. Queued(ready) \subseteq Reported(results)
  <2>1. \A s \in Queued(ready) : s \in Step /\ Taken(s)
    BY <1>1 DEF Queued, Taken
  <2> QED
    BY <1>2, <2>1 DEF DInv, TakenAccounted
<1>4. SettledIn(results) = Reported(results)
  <2>1. \A i \in DOMAIN results : results[i].reason \notin StopReason
    BY DEF DInv, StopsAreStopped
  <2> QED
    BY <2>1 DEF SettledIn, Reported
<1>5. Reported(results) \in SUBSET Step
  <2>1. \A i \in DOMAIN results : results[i] \in StepResult
    BY <1>1
  <2> QED
    BY <2>1 DEF Reported, StepResult
<1>6. flow \in FlowDef /\ validate(flow)
  BY FlowValid DEF IInv
<1>7. Step \subseteq Queued(ready)
  BY <1>3, <1>4, <1>5, <1>6, NoneLocked DEF IInv
<1> QED
  BY <1>3, <1>5, <1>7

\* When run_dag returns without having been stopped, results has an entry for
\* every step of the flow: no in-degree stays above zero.
THEOREM EveryStepReported == Spec => []AllReported
BY EndReported, SecondInvariance, PTL

\* run_dag passes a failure on to every step below it with the trigger All,
\* whichever order the tasks ended in.
THEOREM FailuresCascade == Spec => []FailureCascades
<1>1. IInv /\ DInv => FailureCascades
  <2> SUFFICES ASSUME IInv, DInv, pc = "done", ~Stopped,
                      NEW s \in Step, NEW d \in flow.deps[s],
                      Failed(d), flow.trigger[s] = "All"
               PROVE  \E i \in DOMAIN results : results[i] = Skip(s, "dependency_failed")
    BY DEF FailureCascades
  <2>1. PICK i \in DOMAIN results : results[i].step = s
    BY EndReported DEF AllReported, Reported
  <2>2. Taken(s)
    BY <2>1 DEF IInv, Positions
  <2>3. \A k \in DOMAIN results : results[k].reason \notin StopReason
    BY DEF DInv, StopsAreStopped
  <2> QED
    BY <2>2, <2>3 DEF DInv, FailedPassOn
<1> QED
  BY <1>1, SecondInvariance, PTL

-----------------------------------------------------------------------------
(***************************************************************************)
(* run_dag implements FlowContract with MayAbandon = FALSE.  A task that   *)
(* gets its permit begins its step, a push is a report, Return returns,    *)
(* and every other step of the model is a stutter of the contract.         *)
(***************************************************************************)

\* A step that neither begins a handler, nor pushes a result, nor returns.
LEMMA RefineStutter ==
  ASSUME IInv, results' = results, pc' = "done" <=> pc = "done",
         \A s \in Step : worker'[s] \in {"running", "stored", "exited"}
                           <=> worker[s] \in {"running", "stored", "exited"}
  PROVE  UNCHANGED Contract!vars
<1>1. Outcome' = Outcome
  BY DEF Outcome
<1>2. Begun' = Begun
  BY DEF Begun
<1>3. (pc = "done")' = (pc = "done")
  OBVIOUS
<1> QED
  BY <1>1, <1>2, <1>3 DEF Contract!vars

\* Results are pushed for steps that had none.
LEMMA RefineReport ==
  ASSUME IInv, IInv', Longer(results, results'), worker' = worker,
         pc # "done", pc' # "done",
         \A i \in DOMAIN results' \ DOMAIN results :
            /\ \A k \in DOMAIN results : results[k].step # results'[i].step
            /\ results'[i].status = "Completed" => worker[results'[i].step] = "exited"
            /\ results'[i].status = "Skipped" => worker[results'[i].step] = "idle"
  PROVE  Contract!Report
<1>1. Begun' = Begun /\ (pc = "done") = FALSE /\ (pc = "done")' = FALSE
  BY DEF Begun
<1> DEFINE o == OutcomeIn(results)
           p == OutcomeIn(results')
<1>2. Outcome = o /\ Outcome' = p
  BY DEF Outcome, OutcomeIn
<1>3. /\ results \in Seq(StepResult) /\ results' \in Seq(StepResult)
      /\ \A i, j \in DOMAIN results : results[i].step = results[j].step => i = j
      /\ \A i, j \in DOMAIN results' : results'[i].step = results'[j].step => i = j
  BY DEF IInv, TypeOK, PoolTypeOK, OneResultPerStep
<1>4. /\ \A i \in DOMAIN results : o[results[i].step] = results[i].status
      /\ \A s \in Step : (\A i \in DOMAIN results : results[i].step # s) => o[s] = "none"
  BY <1>3, OutcomeOf
<1>5. /\ \A i \in DOMAIN results' : p[results'[i].step] = results'[i].status
      /\ \A s \in Step : (\A i \in DOMAIN results' : results'[i].step # s) => p[s] = "none"
      /\ p \in [Step -> Status \cup {"none"}]
  BY <1>3, OutcomeOf
<1> HIDE DEF o, p
<1>6. ASSUME NEW s \in Step, p[s] # o[s]
      PROVE  /\ o[s] = "none"
             /\ p[s] = "Completed" => s \in Begun
             /\ ~(p[s] = "Skipped" /\ s \in Begun)
  <2>1. \A i \in DOMAIN results : results[i].step # s
    BY <1>4, <1>5, <1>6 DEF Longer
  <2>2. o[s] = "none"
    BY <1>4, <2>1
  <2>3. PICK i \in DOMAIN results' : results'[i].step = s
    BY <1>5, <1>6, <2>2
  <2>4. p[s] = results'[i].status
    BY <1>5, <2>3
  <2>5. i \notin DOMAIN results
    BY <2>1, <2>3 DEF Longer
  <2> QED
    BY <2>2, <2>3, <2>4, <2>5 DEF Begun
<1> QED
  BY <1>1, <1>2, <1>5, <1>6 DEF Contract!Report, Contract!Status, Contract!Step, Status, Step

\* One result is pushed.
LEMMA RefineAppend ==
  ASSUME IInv, IInv', NEW s \in Step, NEW r \in StepResult, r.step = s,
         results' = Append(results, r), worker' = worker, pc # "done", pc' = pc,
         \A k \in DOMAIN results : results[k].step # s,
         r.status = "Completed" => worker[s] = "exited",
         r.status = "Skipped" => worker[s] = "idle"
  PROVE  Contract!Report
<1>1. results \in Seq(StepResult)
  BY DEF IInv, TypeOK, PoolTypeOK
<1>2. /\ Longer(results, results')
      /\ \A i \in DOMAIN results' \ DOMAIN results : results'[i] = r
  BY <1>1 DEF Longer
<1> QED
  BY <1>2, RefineReport

LEMMA RefineSkip ==
  ASSUME IInv, IInv', DInv, NEW s \in Step, SkipDepFailed(s) \/ SkipCondition(s)
  PROVE  Contract!Report
<1>1. /\ Take(s) /\ pc = "batch" /\ pc' = pc /\ worker' = worker
      /\ ready_head < batch_end /\ s = ready[ready_head + 1]
      /\ \/ results' = Append(results, Skip(s, "dependency_failed"))
         \/ results' = Append(results, Skip(s, "condition_not_met"))
  BY DEF SkipDepFailed, SkipCondition, Take, pool
<1>2. \A why \in {"dependency_failed", "condition_not_met"} :
        /\ Skip(s, why) \in StepResult /\ Skip(s, why).step = s
        /\ Skip(s, why).status = "Skipped"
  BY DEF Skip, StepResult, Status, Reason
<1>3. ready_head < Len(ready)
  BY <1>1 DEF IInv, TypeOK, PoolTypeOK
<1>4. ~Taken(s) /\ \A i \in DOMAIN results : results[i].step # s
  BY <1>1, <1>3, NextIsFresh
<1>5. worker[s] = "idle"
  BY <1>4 DEF DInv, SpawnedTaken
<1>6. PICK r \in StepResult : /\ results' = Append(results, r) /\ r.step = s
                              /\ r.status = "Skipped"
  BY <1>1, <1>2
<1> QED
  BY <1>1, <1>4, <1>5, <1>6, RefineAppend

LEMMA RefineJoin ==
  ASSUME IInv, IInv', DInv, NEW s \in Step, Join(s)
  PROVE  Contract!Report
<1>1. /\ pc = "join" /\ pc' = pc /\ hj < Len(handles) /\ s = handles[hj + 1]
      /\ worker[s] = "exited" /\ worker' = worker
      /\ results' = Append(results, JoinResult(s))
  BY DEF Join, Joined, pool
<1>2. /\ handles \in Seq(Step) /\ hj \in Nat /\ slot[s] \in {"empty", "Completed", "Failed"}
  BY DEF IInv, TypeOK, PoolTypeOK
<1>3. hj + 1 \in DOMAIN handles /\ hj + 1 > hj
  BY <1>1, <1>2
<1>4. \A i \in DOMAIN results : results[i].step # s
  BY <1>1, <1>3 DEF Pending, IInv, Positions
<1>5. JoinResult(s) \in StepResult /\ JoinResult(s).step = s /\ JoinResult(s).status # "Skipped"
  BY <1>2 DEF JoinResult, Fail, Executed, StepResult, Status, Reason
<1> QED
  BY <1>1, <1>4, <1>5, RefineAppend

LEMMA RefineStopSkip ==
  ASSUME IInv, IInv', DInv, StopSkip
  PROVE  Contract!Report
<1> DEFINE m == Len(ready) - ready_head
<1>0. pc = "top" /\ pc' = pc /\ worker' = worker
  BY DEF StopSkip, pool
<1>1. /\ ready \in Seq(Step) /\ ready_head \in 0 .. Len(ready) /\ Len(ready) \in Nat
      /\ DOMAIN ready = 1 .. Len(ready)
      /\ \A k, l \in DOMAIN ready : ready[k] = ready[l] => k = l
  BY DEF IInv, TypeOK, PoolTypeOK, BookInv
<1>2. /\ m \in Nat /\ \A i \in 1 .. m : ready_head + i \in 1 .. Len(ready)
      /\ \A i \in 1 .. m : StopResults[i].step = ready[ready_head + i]
      /\ DOMAIN results = 1 .. Len(results)
      /\ DOMAIN results' = 1 .. Len(results) + m /\ Len(results) \in Nat
      /\ \A i \in DOMAIN results : results'[i] = results[i]
      /\ \A i \in 1 .. m : results'[Len(results) + i] = StopResults[i]
      /\ \A k \in DOMAIN results' :
            k \in DOMAIN results \/ \E i \in 1 .. m : k = Len(results) + i
      /\ \A i \in DOMAIN results, j \in 1 .. m : results[i].step # ready[ready_head + j]
  BY StopShape
<1>3. \A i \in 1 .. m : StopResults[i].status = "Skipped"
  BY DEF StopResults, Skip
<1>4. \A i \in 1 .. m : worker[ready[ready_head + i]] = "idle"
  <2> SUFFICES ASSUME NEW i \in 1 .. m PROVE worker[ready[ready_head + i]] = "idle"
    OBVIOUS
  <2>1. ready_head + i \in DOMAIN ready /\ 1 .. ready_head \subseteq DOMAIN ready
        /\ ready_head + i \notin 1 .. ready_head
    BY <1>1, <1>2
  <2>2. ~Taken(ready[ready_head + i]) /\ ready[ready_head + i] \in Step
    BY <1>1, <2>1 DEF Taken
  <2> QED
    BY <2>2 DEF DInv, SpawnedTaken
<1>5. DOMAIN results \subseteq DOMAIN results'
  BY <1>2
<1> HIDE DEF m
<1>6. Longer(results, results')
  BY <1>2, <1>5 DEF Longer
<1>7. ASSUME NEW i \in DOMAIN results' \ DOMAIN results
      PROVE  /\ \A k \in DOMAIN results : results[k].step # results'[i].step
             /\ results'[i].status = "Completed" => worker[results'[i].step] = "exited"
             /\ results'[i].status = "Skipped" => worker[results'[i].step] = "idle"
  <2>1. PICK j \in 1 .. m : i = Len(results) + j
    BY <1>2, <1>7
  <2>2. results'[i] = StopResults[j]
    BY <1>2, <2>1
  <2>3. results'[i].step = ready[ready_head + j] /\ results'[i].status = "Skipped"
    BY <1>2, <1>3, <2>2
  <2> QED
    BY <1>2, <1>4, <2>3
<1> QED
  BY <1>0, <1>6, <1>7, RefineReport

LEMMA RefineAcquire ==
  ASSUME IInv, NEW s \in Step, Acquire(s)
  PROVE  Contract!Begin(s)
<1>1. /\ worker[s] = "waiting" /\ worker' = [worker EXCEPT ![s] = "running"]
      /\ pc' = pc /\ results' = results
  BY DEF Acquire, PoolAcquire, coord
<1>2. worker \in [Step -> WorkerState] /\ results \in Seq(StepResult)
  BY DEF IInv, TypeOK, PoolTypeOK
<1>3. Pending(s)
  BY <1>1 DEF IInv, LiveArePending, Live
<1>4. pc # "done" /\ \A i \in DOMAIN results : results[i].step # s
  BY <1>3 DEF IInv, Positions, Pending
<1>5. Outcome[s] = "none" /\ Outcome' = Outcome
  BY <1>1, <1>4 DEF Outcome
<1>6. s \notin Begun /\ Begun' = Begun \cup {s}
  BY <1>1, <1>2 DEF Begun
<1> QED
  BY <1>1, <1>4, <1>5, <1>6 DEF Contract!Begin

LEMMA RefineReturn == ASSUME IInv, DInv, Return PROVE Contract!Return
<1>1. pc = "top" /\ pc' = "done" /\ worker' = worker /\ results' = results
  BY DEF Return, coord, pool
<1>2. Begun' = Begun /\ Outcome' = Outcome
  BY <1>1 DEF Begun, Outcome
<1>3. ASSUME NEW s \in Begun PROVE Outcome[s] # "none"
  <2>1. s \in Step /\ worker[s] # "idle"
    BY DEF Begun
  <2>2. ~Pending(s)
    BY <1>1 DEF IInv, Positions, Pending
  <2>3. PICK i \in DOMAIN results : results[i].step = s
    BY <2>1, <2>2 DEF DInv, SpawnedTaken, TakenAccounted, Reported
  <2>4. /\ results \in Seq(StepResult) /\ results[i] \in StepResult
        /\ \A k, j \in DOMAIN results : results[k].step = results[j].step => k = j
    BY DEF IInv, TypeOK, PoolTypeOK, OneResultPerStep
  <2>5. OutcomeIn(results)[s] = results[i].status
    BY <2>3, <2>4, OutcomeOf
  <2>6. Outcome[s] = results[i].status /\ results[i].status \in Status
    BY <2>4, <2>5 DEF Outcome, OutcomeIn, StepResult
  <2> QED
    BY <2>6 DEF Status
<1> QED
  BY <1>1, <1>2, <1>3 DEF Contract!Return

\* The steps of the model that the contract does not see.
LEMMA RefineQuiet ==
  ASSUME IInv, DInv,
         \/ StartWave \/ StartJoin \/ EndWave \/ Cancel \/ Deadline \/ UNCHANGED vars
         \/ \E s \in Step : \/ Spawn(s) \/ Release(s) \/ Panic(s)
                            \/ \E st \in {"Completed", "Failed"} : Store(s, st)
  PROVE  UNCHANGED Contract!vars
<1>0. worker \in [Step -> WorkerState]
  BY DEF IInv, TypeOK, PoolTypeOK
<1>1. CASE StartWave \/ StartJoin \/ EndWave \/ Cancel \/ Deadline \/ UNCHANGED vars
  <2>1. results' = results /\ worker' = worker /\ (pc' = "done" <=> pc = "done")
    BY <1>1 DEF StartWave, StartJoin, EndWave, Cancel, Deadline, vars, coord, pool
  <2> QED
    BY <2>1, RefineStutter
<1>2. ASSUME NEW s \in Step, Spawn(s) PROVE UNCHANGED Contract!vars
  <2>1. /\ Take(s) /\ ready_head < batch_end /\ s = ready[ready_head + 1] /\ results' = results
        /\ pc' = pc /\ worker' = [worker EXCEPT ![s] = "waiting"]
    BY <1>2 DEF Spawn, PoolSpawn, Take
  <2>2. ready_head < Len(ready)
    BY <2>1 DEF IInv, TypeOK, PoolTypeOK
  <2>3. worker[s] = "idle"
    BY <2>1, <2>2, NextIsFresh DEF DInv, SpawnedTaken
  <2>4. \A t \in Step : worker'[t] \in {"running", "stored", "exited"}
                          <=> worker[t] \in {"running", "stored", "exited"}
    BY <1>0, <2>1, <2>3
  <2> QED
    BY <2>1, <2>4, RefineStutter
<1>3. ASSUME NEW s \in Step,
             Release(s) \/ Panic(s) \/ \E st \in {"Completed", "Failed"} : Store(s, st)
      PROVE  UNCHANGED Contract!vars
  <2>1. /\ results' = results /\ pc' = pc /\ worker[s] \in {"running", "stored"}
        /\ \E w \in {"stored", "exited"} : worker' = [worker EXCEPT ![s] = w]
    BY <1>3 DEF Release, Panic, Store, PoolRelease, PoolUnwind, PoolStore, coord
  <2>2. \A t \in Step : worker'[t] \in {"running", "stored", "exited"}
                          <=> worker[t] \in {"running", "stored", "exited"}
    BY <1>0, <2>1
  <2> QED
    BY <2>1, <2>2, RefineStutter
<1> QED
  BY <1>1, <1>2, <1>3

LEMMA RefineNext == IInv /\ DInv /\ [Next]_vars => [Contract!Next]_(Contract!vars)
<1> SUFFICES ASSUME IInv, DInv, [Next]_vars PROVE [Contract!Next]_(Contract!vars)
  OBVIOUS
<1>0. IInv'
  BY NextIInv
<1>1. CASE Return
  BY <1>1, RefineReturn DEF Contract!Next
<1>2. CASE StopSkip \/ \E s \in Step : SkipDepFailed(s) \/ SkipCondition(s) \/ Join(s)
  BY <1>0, <1>2, RefineStopSkip, RefineSkip, RefineJoin DEF Contract!Next
<1>3. CASE \E s \in Step : Acquire(s)
  BY <1>3, RefineAcquire DEF Contract!Next, Contract!Step, Step
<1>4. CASE \/ StartWave \/ StartJoin \/ EndWave \/ Cancel \/ Deadline \/ UNCHANGED vars
           \/ \E s \in Step : \/ Spawn(s) \/ Release(s) \/ Panic(s)
                              \/ \E st \in {"Completed", "Failed"} : Store(s, st)
  BY <1>4, RefineQuiet
<1> QED
  BY <1>1, <1>2, <1>3, <1>4 DEF Next, Coordinator, Worker

LEMMA RefineInit == Init => Contract!Init
<1> SUFFICES ASSUME Init PROVE Contract!Init
  OBVIOUS
<1>1. results = <<>> /\ worker = [s \in Step |-> "idle"] /\ pc = "top"
  BY DEF Init, PoolInit
<1>2. Begun = {}
  BY <1>1 DEF Begun
<1>3. Outcome = [s \in Step |-> "none"]
  BY <1>1 DEF Outcome
<1> QED
  BY <1>1, <1>2, <1>3 DEF Contract!Init, Contract!Step, Step

\* run_dag keeps the executors' contract, abandoning no step: a handler is
\* invoked at most once, a step whose handler was invoked is reported with
\* what became of it, and no report changes or follows the return.
THEOREM DagKeepsContract == Spec => RefinesContract
BY RefineInit, RefineNext, SecondInvariance, PTL DEF Spec, RefinesContract, Contract!Spec

=============================================================================
