-------------------------- MODULE ParallelRunProofs --------------------------
(***************************************************************************)
(* run_parallel, for every number of steps, every flow without             *)
(* dependencies and every max_concurrency: IInv is inductive, the safety   *)
(* invariant follows, and the executors' contract is kept.                 *)
(***************************************************************************)
EXTENDS ParallelRun, SequenceTheorems, FiniteSetTheorems, TLAPS

(***************************************************************************)
(* Sequences.                                                              *)
(***************************************************************************)

LEMMA AppendShape ==
  ASSUME NEW S, NEW q \in Seq(S), NEW r \in S
  PROVE  /\ Append(q, r) \in Seq(S)
         /\ Len(q) \in Nat /\ Len(Append(q, r)) = Len(q) + 1
         /\ DOMAIN q = 1 .. Len(q) /\ DOMAIN Append(q, r) = 1 .. Len(q) + 1
         /\ \A a \in 1 .. Len(q) : Append(q, r)[a] = q[a]
         /\ Append(q, r)[Len(q) + 1] = r
OBVIOUS

LEMMA ConcatAppend ==
  ASSUME NEW S, NEW p \in Seq(S), NEW q \in Seq(S), NEW r \in S
  PROVE  p \o Append(q, r) = Append(p \o q, r)
<1>1. <<r>> \in Seq(S)
  OBVIOUS
<1>2. p \o q \in Seq(S)
  BY ConcatProperties
<1>3. Append(q, r) = q \o <<r>>
  OBVIOUS
<1>4. Append(p \o q, r) = (p \o q) \o <<r>>
  BY <1>2
<1> QED
  BY <1>1, <1>3, <1>4, ConcatAssociative

(***************************************************************************)
(* The pool of tasks.                                                      *)
(***************************************************************************)

LEMMA PermitsType == Permits \in Nat /\ Permits > 0
BY ConcurrencyAssumption DEF Permits

LEMMA StepFinite ==
  ASSUME NEW S \in SUBSET Step
  PROVE  IsFiniteSet(S) /\ Cardinality(S) \in Nat
<1>1. IsFiniteSet(Step)
  BY NAssumption, FS_Interval, 1 \in Int, N \in Int DEF Step
<1> QED
  BY <1>1, FS_Subset, FS_CardinalityType

\* The tasks that hold a permit.
Holding == {s \in Step : worker[s] \in {"running", "stored"}}

LEMMA PoolSteps ==
  ASSUME PoolTypeOK, PermitsConserved, NEW s \in Step,
         \/ PoolAcquire(s) \/ PoolRelease(s) \/ PoolUnwind(s) \/ PoolDrop(s)
         \/ \E st \in {"Completed", "Failed"} : PoolStore(s, st)
  PROVE  /\ PoolTypeOK' /\ PermitsConserved'
         /\ worker[s] \in {"waiting", "running", "stored"}
         /\ \A t \in Step : t # s => worker'[t] = worker[t] /\ slot'[t] = slot[t]
<1>0. /\ worker \in [Step -> WorkerState] /\ permits \in 0 .. Permits
      /\ slot \in [Step -> {"empty", "Completed", "Failed"}]
      /\ permits + Cardinality(Holding) = Permits /\ Permits \in Nat
      /\ IsFiniteSet(Holding) /\ Cardinality(Holding) \in Nat
  BY PermitsType, StepFinite DEF PoolTypeOK, PermitsConserved, Holding
<1>1. CASE PoolAcquire(s)
  <2>1. /\ worker[s] = "waiting" /\ permits > 0 /\ permits' = permits - 1 /\ slot' = slot
        /\ worker' = [worker EXCEPT ![s] = "running"]
    BY <1>1 DEF PoolAcquire
  <2>2. Holding' = Holding \cup {s} /\ s \notin Holding
    BY <1>0, <2>1 DEF Holding
  <2>3. Cardinality(Holding') = Cardinality(Holding) + 1
    BY <1>0, <2>2, FS_AddElement
  <2>4. permits' \in 0 .. Permits /\ permits' + Cardinality(Holding') = Permits
    BY <1>0, <2>1, <2>3
  <2>5. PoolTypeOK'
    BY <1>0, <2>1, <2>4 DEF PoolTypeOK, WorkerState, Permits
  <2> QED
    BY <1>0, <2>1, <2>4, <2>5 DEF PermitsConserved, Holding, Permits
<1>2. CASE PoolRelease(s) \/ PoolUnwind(s)
  <2>1. /\ worker[s] \in {"running", "stored"} /\ permits' = permits + 1 /\ slot' = slot
        /\ worker' = [worker EXCEPT ![s] = "exited"]
    BY <1>2 DEF PoolRelease, PoolUnwind
  <2>2. Holding' = Holding \ {s} /\ s \in Holding
    BY <1>0, <2>1 DEF Holding
  <2>3. Cardinality(Holding') = Cardinality(Holding) - 1 /\ Cardinality(Holding') \in Nat
    <3>1. Cardinality(Holding') = Cardinality(Holding) - 1
      BY <1>0, <2>2, FS_RemoveElement
    <3>2. Holding' \in SUBSET Step
      BY DEF Holding
    <3> QED
      BY <3>1, <3>2, StepFinite
  <2>4. permits' \in 0 .. Permits /\ permits' + Cardinality(Holding') = Permits
    BY <1>0, <2>1, <2>3
  <2>5. PoolTypeOK'
    BY <1>0, <2>1, <2>4 DEF PoolTypeOK, WorkerState, Permits
  <2> QED
    BY <1>0, <2>1, <2>4, <2>5 DEF PermitsConserved, Holding, Permits
<1>3. CASE PoolDrop(s) \/ \E st \in {"Completed", "Failed"} : PoolStore(s, st)
  <2>1. /\ permits' = permits /\ worker[s] \in {"waiting", "running"}
        /\ \/ worker[s] = "waiting" /\ worker' = [worker EXCEPT ![s] = "dropped"] /\ slot' = slot
           \/ /\ worker[s] = "running" /\ worker' = [worker EXCEPT ![s] = "stored"]
              /\ \E st \in {"Completed", "Failed"} : slot' = [slot EXCEPT ![s] = st]
    BY <1>3 DEF PoolDrop, PoolStore
  <2>2. Holding' = Holding
    BY <1>0, <2>1 DEF Holding
  <2>3. PoolTypeOK'
    BY <1>0, <2>1 DEF PoolTypeOK, WorkerState, Permits
  <2>4. \A t \in Step : t # s => worker'[t] = worker[t] /\ slot'[t] = slot[t]
    BY <1>0, <2>1
  <2> QED
    BY <1>0, <2>1, <2>2, <2>3, <2>4 DEF PermitsConserved, Holding, Permits
<1> QED
  BY <1>1, <1>2, <1>3

\* A task is spawned for a step that had none.
LEMMA PoolSpawned ==
  ASSUME PoolTypeOK, PermitsConserved, NEW s \in Step, worker[s] = "idle", PoolSpawn(s)
  PROVE  /\ PoolTypeOK' /\ PermitsConserved'
         /\ worker'[s] = "waiting" /\ slot' = slot
         /\ \A t \in Step : t # s => worker'[t] = worker[t]
<1>1. /\ worker \in [Step -> WorkerState] /\ permits' = permits /\ slot' = slot
      /\ worker' = [worker EXCEPT ![s] = "waiting"]
  BY DEF PoolTypeOK, PoolSpawn
<1>2. Holding' = Holding
  BY <1>1 DEF Holding
<1> QED
  BY <1>1, <1>2 DEF PoolTypeOK, PermitsConserved, Holding, WorkerState, Permits

(***************************************************************************)
(* AllResults.                                                             *)
(***************************************************************************)

LEMMA AllResultsType ==
  ASSUME TypeOK
  PROVE  AllResults \in Seq(StepResult) /\ Len(AllResults) \in Nat
         /\ DOMAIN AllResults = 1 .. Len(AllResults)
<1>1. pre_skipped \in Seq(StepResult) /\ results \in Seq(StepResult)
  BY DEF TypeOK, PoolTypeOK
<1>2. AllResults \in Seq(StepResult)
  BY <1>1, ConcatProperties DEF AllResults
<1> QED
  BY <1>2, LenProperties

\* Where the steps of AllResults are.
LEMMA StepsBounded ==
  ASSUME IInv
  PROVE  \A a \in DOMAIN AllResults : AllResults[a].step \in Step /\ AllResults[a].step <= i
<1>1. /\ AllResults \in Seq(StepResult) /\ DOMAIN AllResults = 1 .. Len(AllResults)
      /\ pre_skipped \in Seq(StepResult) /\ handles \in Seq(Step) /\ k \in 0 .. Len(handles)
      /\ Len(AllResults) = Len(pre_skipped) + k
  BY AllResultsType DEF IInv, TypeOK, PoolTypeOK, Aligned
<1> SUFFICES ASSUME NEW a \in 1 .. Len(AllResults)
             PROVE  AllResults[a].step \in Step /\ AllResults[a].step <= i
  BY <1>1
<1>2. AllResults[a] \in StepResult
  BY <1>1
<1>3. AllResults[a].step \in Step
  BY <1>2 DEF StepResult
<1>4. CASE a \in 1 .. Len(pre_skipped)
  <2>1. a \in DOMAIN pre_skipped
    BY <1>1, <1>4
  <2> QED
    BY <1>3, <2>1 DEF IInv, Aligned, Walked
<1>5. CASE a \notin 1 .. Len(pre_skipped)
  <2> DEFINE b == a - Len(pre_skipped)
  <2>1. Len(pre_skipped) \in Nat /\ Len(handles) \in Nat
    BY <1>1
  <2>2. b \in 1 .. k /\ a = Len(pre_skipped) + b /\ b \in DOMAIN handles
    BY <1>1, <1>5, <2>1
  <2> HIDE DEF b
  <2>3. AllResults[a].step = handles[b] /\ handles[b] <= i
    BY <2>2 DEF IInv, Aligned, Walked
  <2> QED
    BY <1>3, <2>3
<1> QED
  BY <1>4, <1>5

(***************************************************************************)
(* A step that adds no result and walks no step.                           *)
(***************************************************************************)
LEMMA KeepQuiet ==
  ASSUME IInv, flow' = flow, i' = i, pre_skipped' = pre_skipped, handles' = handles, k' = k,
         AllResults' = AllResults, TypeOK', PermitsConserved', Phases',
         \A t \in Step : worker[t] \in {"idle", "exited"} =>
            worker'[t] = worker[t] /\ slot'[t] = slot[t],
         cancelled \/ timed_out => cancelled' \/ timed_out',
         pc' = "join" => pc = "join" \/ ~(cancelled \/ timed_out)
  PROVE  IInv'
<1>1. Walked' /\ Aligned'
  BY DEF IInv, Walked, Aligned
<1>2. JoinsFinal'
  <2> SUFFICES ASSUME NEW a \in DOMAIN AllResults,
                      AllResults[a].reason \notin Stopping \cup {"condition_not_met"}
               PROVE  /\ worker'[AllResults[a].step] = "exited"
                      /\ AllResults[a] = JoinResult(AllResults[a].step)'
    BY DEF JoinsFinal
  <2>1. /\ worker[AllResults[a].step] = "exited"
        /\ AllResults[a] = JoinResult(AllResults[a].step)
    BY DEF IInv, JoinsFinal
  <2>2. AllResults[a].step \in Step
    BY StepsBounded
  <2> QED
    BY <2>1, <2>2 DEF JoinResult
<1>3. StoppedTail'
  BY DEF IInv, StoppedTail
<1>4. UnwalkedIdle'
  BY DEF IInv, UnwalkedIdle
<1> QED
  BY <1>1, <1>2, <1>3, <1>4 DEF IInv

LEMMA KeepWorker == ASSUME IInv, NEW s \in Step, Worker(s) PROVE IInv'
<1>1. /\ UNCHANGED <<flow, pc, coord, env>>
      /\ \/ PoolAcquire(s) \/ PoolRelease(s) \/ PoolUnwind(s) \/ PoolDrop(s)
         \/ \E st \in {"Completed", "Failed"} : PoolStore(s, st)
  BY DEF Worker, Acquire, Store, Release, Panic, DropAborted
<1>2. /\ flow' = flow /\ pc' = pc /\ i' = i /\ pre_skipped' = pre_skipped /\ handles' = handles
      /\ k' = k /\ aborted' = aborted /\ results' = results
      /\ cancelled' = cancelled /\ timed_out' = timed_out
  BY <1>1 DEF coord, env
<1>3. /\ PoolTypeOK' /\ PermitsConserved' /\ worker[s] \in {"waiting", "running", "stored"}
      /\ \A t \in Step : t # s => worker'[t] = worker[t] /\ slot'[t] = slot[t]
  BY <1>1, PoolSteps DEF IInv, TypeOK
<1>4. TypeOK' /\ Phases' /\ AllResults' = AllResults
  BY <1>2, <1>3 DEF IInv, TypeOK, Phases, AllResults
<1> QED
  BY <1>2, <1>3, <1>4, KeepQuiet

LEMMA KeepEnvironment ==
  ASSUME IInv, Cancel \/ Deadline \/ UNCHANGED vars
  PROVE  IInv'
<1>1. /\ flow' = flow /\ pc' = pc /\ i' = i /\ pre_skipped' = pre_skipped /\ handles' = handles
      /\ k' = k /\ aborted' = aborted /\ results' = results
      /\ worker' = worker /\ slot' = slot /\ permits' = permits
      /\ \/ cancelled' = TRUE /\ timed_out' = timed_out
         \/ cancelled' = cancelled /\ timed_out' = TRUE
         \/ cancelled' = cancelled /\ timed_out' = timed_out
  BY DEF Cancel, Deadline, vars, coord, pool, env
<1>2. TypeOK' /\ Phases' /\ AllResults' = AllResults /\ PermitsConserved'
  BY <1>1 DEF IInv, TypeOK, PoolTypeOK, Phases, AllResults, PermitsConserved
<1> QED
  BY <1>1, <1>2, KeepQuiet

\* The coordinator's steps that look and move on; Return assembles the vec.
LEMMA KeepMoves == ASSUME IInv, StartJoin \/ EnterJoin \/ Return PROVE IInv'
<1>1. /\ flow' = flow /\ i' = i /\ pre_skipped' = pre_skipped /\ handles' = handles
      /\ k' = k /\ aborted' = aborted
      /\ worker' = worker /\ slot' = slot /\ permits' = permits
      /\ cancelled' = cancelled /\ timed_out' = timed_out
      /\ \/ pc = "spawn" /\ i = N /\ pc' = "check" /\ results' = results
         \/ /\ pc = "check" /\ pc' = "join" /\ results' = results
            /\ k < Len(handles) /\ ~(cancelled \/ timed_out)
         \/ /\ pc = "check" /\ pc' = "done" /\ k = Len(handles)
            /\ results' = pre_skipped \o results
  BY DEF StartJoin, EnterJoin, Return, coord, pool, env
<1>2. AllResults' = AllResults
  BY <1>1 DEF AllResults
<1>3. results' \in Seq(StepResult)
  <2>1. pre_skipped \in Seq(StepResult) /\ results \in Seq(StepResult)
    BY DEF IInv, TypeOK, PoolTypeOK
  <2>2. pre_skipped \o results \in Seq(StepResult)
    BY <2>1, ConcatProperties
  <2> QED
    BY <1>1, <2>1, <2>2
<1>4. TypeOK'
  BY <1>1, <1>3 DEF IInv, TypeOK, PoolTypeOK
<1>5. Phases' /\ PermitsConserved'
  BY <1>1 DEF IInv, Phases, PermitsConserved
<1> QED
  BY <1>1, <1>2, <1>4, <1>5, KeepQuiet

(***************************************************************************)
(* A task is dealt with: r is pushed for the next handle.                  *)
(***************************************************************************)
LEMMA KeepPush ==
  ASSUME IInv, NEW r \in StepResult, k < Len(handles), pc \in {"check", "join"}, pc' = "check",
         r.step = handles[k + 1], r.reason # "condition_not_met",
         results' = Append(results, r), k' = k + 1, aborted' \subseteq Step,
         UNCHANGED <<flow, i, pre_skipped, handles, pool, env>>,
         IF r.reason \in Stopping
         THEN cancelled \/ timed_out
         ELSE pc = "join" /\ worker[r.step] = "exited" /\ r = JoinResult(r.step)
  PROVE  IInv' /\ AllResults' = Append(AllResults, r)
<1>0. /\ flow' = flow /\ i' = i /\ pre_skipped' = pre_skipped /\ handles' = handles
      /\ worker' = worker /\ slot' = slot /\ permits' = permits
      /\ cancelled' = cancelled /\ timed_out' = timed_out
  BY DEF pool, env
<1>1. /\ pre_skipped \in Seq(StepResult) /\ results \in Seq(StepResult)
      /\ handles \in Seq(Step) /\ k \in Nat /\ Len(handles) \in Nat
      /\ AllResults \in Seq(StepResult) /\ DOMAIN AllResults = 1 .. Len(AllResults)
      /\ Len(pre_skipped) \in Nat
  BY AllResultsType DEF IInv, TypeOK, PoolTypeOK
<1>2. AllResults' = Append(AllResults, r)
  BY <1>0, <1>1, ConcatAppend DEF AllResults
<1> DEFINE A == AllResults
           B == Append(A, r)
           n == Len(A)
<1>3. /\ n \in Nat /\ Len(B) = n + 1 /\ DOMAIN B = 1 .. n + 1 /\ DOMAIN A = 1 .. n
      /\ \A a \in 1 .. n : B[a] = A[a]
      /\ B[n + 1] = r
  BY <1>1, AppendShape
<1>4. n = Len(pre_skipped) + k
  BY DEF IInv, Aligned
<1> HIDE DEF B, n
<1>5. TypeOK'
  <2>1. results' \in Seq(StepResult)
    BY <1>1
  <2>2. k' \in 0 .. Len(handles)
    BY <1>1
  <2> QED
    BY <1>0, <2>1, <2>2 DEF IInv, TypeOK, PoolTypeOK
<1>6. PermitsConserved' /\ Phases' /\ Walked' /\ UnwalkedIdle'
  BY <1>0 DEF IInv, PermitsConserved, Phases, Walked, UnwalkedIdle
<1>7. Aligned'
  <2>1. Len(AllResults') = Len(pre_skipped') + k'
    BY <1>0, <1>1, <1>2, <1>3, <1>4 DEF B
  <2>2. \A a \in DOMAIN pre_skipped : B[a] = pre_skipped[a]
    <3>1. \A a \in DOMAIN pre_skipped : a \in 1 .. n
      BY <1>1, <1>4
    <3> QED
      BY <1>3, <3>1 DEF IInv, Aligned
  <2>3. ASSUME NEW b \in 1 .. k + 1
        PROVE  B[Len(pre_skipped) + b].step = handles[b]
               /\ B[Len(pre_skipped) + b].reason # "condition_not_met"
    <3>1. CASE b = k + 1
      BY <1>1, <1>3, <1>4, <3>1
    <3>2. CASE b # k + 1
      <4>1. b \in 1 .. k /\ Len(pre_skipped) + b \in 1 .. n
        BY <1>1, <1>4, <3>2
      <4> QED
        BY <1>3, <4>1 DEF IInv, Aligned
    <3> QED
      BY <3>1, <3>2
  <2> QED
    BY <1>0, <1>2, <2>1, <2>2, <2>3 DEF Aligned, B
<1>8. JoinsFinal'
  <2> SUFFICES ASSUME NEW a \in 1 .. n + 1,
                      B[a].reason \notin Stopping \cup {"condition_not_met"}
               PROVE  worker[B[a].step] = "exited" /\ B[a] = JoinResult(B[a].step)
    BY <1>0, <1>2, <1>3 DEF JoinsFinal, JoinResult, B
  <2>1. CASE a = n + 1
    BY <1>3, <2>1
  <2>2. CASE a # n + 1
    <3>1. a \in DOMAIN A /\ B[a] = A[a]
      BY <1>3, <2>2
    <3> QED
      BY <3>1 DEF IInv, JoinsFinal
  <2> QED
    BY <2>1, <2>2
<1>9. StoppedTail'
  <2>1. ASSUME NEW a \in 1 .. n, A[a].reason \in Stopping PROVE r.reason \in Stopping
    <3>1. a \in DOMAIN A
      BY <1>3
    <3> QED
      BY <2>1, <3>1 DEF IInv, StoppedTail
  <2>2. ASSUME NEW a \in 1 .. n + 1, NEW b \in 1 .. n + 1, a < b, B[a].reason \in Stopping
        PROVE  B[b].reason \in Stopping
    <3>1. a \in 1 .. n /\ (b \in 1 .. n \/ b = n + 1)
      BY <1>3, <2>2
    <3>2. CASE b = n + 1
      BY <1>3, <2>1, <2>2, <3>1, <3>2
    <3>3. CASE b \in 1 .. n
      BY <1>3, <2>2, <3>1, <3>3 DEF IInv, StoppedTail
    <3> QED
      BY <3>1, <3>2, <3>3
  <2>3. ASSUME NEW a \in 1 .. n + 1, B[a].reason \in Stopping PROVE cancelled \/ timed_out
    <3>1. CASE a = n + 1
      BY <1>3, <2>3, <3>1
    <3>2. CASE a # n + 1
      <4>1. a \in DOMAIN A /\ B[a] = A[a]
        BY <1>3, <3>2
      <4> QED
        BY <2>3, <4>1 DEF IInv, StoppedTail
    <3> QED
      BY <3>1, <3>2
  <2> QED
    BY <1>0, <1>2, <1>3, <2>2, <2>3 DEF StoppedTail, B
<1> QED
  BY <1>2, <1>5, <1>6, <1>7, <1>8, <1>9 DEF IInv

LEMMA KeepAbandon ==
  ASSUME IInv, Abandon
  PROVE  /\ IInv'
         /\ \E r \in StepResult : /\ AllResults' = Append(AllResults, r)
                                  /\ r.step = handles[k + 1] /\ r.status = "Skipped"
<1> DEFINE why == IF cancelled THEN "cancelled" ELSE "flow_timeout_exceeded"
           r   == Skip(handles[k + 1], why)
<1>1. /\ pc = "check" /\ pc' = "check" /\ k < Len(handles) /\ (cancelled \/ timed_out)
      /\ results' = Append(results, r) /\ aborted' = aborted \cup {handles[k + 1]} /\ k' = k + 1
      /\ UNCHANGED <<flow, i, pre_skipped, handles, pool, env>>
  BY DEF Abandon
<1>2. handles[k + 1] \in Step /\ aborted \subseteq Step
  BY <1>1 DEF IInv, TypeOK, PoolTypeOK
<1>3. why \in Stopping /\ why \in Reason
  BY DEF Stopping, Reason
<1> HIDE DEF why
<1>4. /\ r \in StepResult /\ r.step = handles[k + 1] /\ r.status = "Skipped"
      /\ r.reason \in Stopping /\ r.reason # "condition_not_met"
  BY <1>2, <1>3 DEF Skip, StepResult, Status, Stopping
<1> HIDE DEF r
<1>5. aborted' \subseteq Step
  BY <1>1, <1>2
<1>6. IInv' /\ AllResults' = Append(AllResults, r)
  BY <1>1, <1>4, <1>5, KeepPush
<1> QED
  BY <1>4, <1>6

LEMMA KeepJoin ==
  ASSUME IInv, Join
  PROVE  /\ IInv'
         /\ \E r \in StepResult : /\ AllResults' = Append(AllResults, r)
                                  /\ r.step = handles[k + 1] /\ worker[r.step] = "exited"
<1> DEFINE s == handles[k + 1]
           r == JoinResult(s)
<1>1. /\ pc = "join" /\ pc' = "check" /\ worker[s] = "exited"
      /\ results' = Append(results, r) /\ aborted' = aborted /\ k' = k + 1
      /\ UNCHANGED <<flow, i, pre_skipped, handles, pool, env>>
  BY DEF Join, Joined
<1>2. k < Len(handles)
  BY <1>1 DEF IInv, Phases
<1>3. /\ s \in Step /\ aborted \subseteq Step /\ slot[s] \in {"empty", "Completed", "Failed"}
  BY <1>2 DEF IInv, TypeOK, PoolTypeOK
<1>4. /\ r \in StepResult /\ r.step = s
      /\ r.reason \notin Stopping /\ r.reason # "condition_not_met"
  BY <1>3 DEF JoinResult, Fail, Executed, StepResult, Status, Reason, Stopping
<1>5. r = JoinResult(r.step) /\ worker[r.step] = "exited"
  BY <1>1, <1>4
<1> HIDE DEF r
<1>6. IInv' /\ AllResults' = Append(AllResults, r)
  BY <1>1, <1>2, <1>3, <1>4, <1>5, KeepPush
<1> QED
  BY <1>4, <1>5, <1>6

\* While steps are walked there is no result but those of pre_skipped.
LEMMA WalkingResults ==
  ASSUME IInv, pc = "spawn"
  PROVE  AllResults = pre_skipped /\ k = 0 /\ results = <<>>
<1>1. k = 0 /\ results = <<>> /\ pre_skipped \in Seq(StepResult)
  BY DEF IInv, Phases, TypeOK, PoolTypeOK
<1> QED
  BY <1>1, ConcatEmptySeq DEF AllResults

LEMMA KeepSkipCondition ==
  ASSUME IInv, NEW s \in Step, SkipCondition(s)
  PROVE  /\ IInv'
         /\ \E r \in StepResult : /\ AllResults' = Append(AllResults, r)
                                  /\ r.step = s /\ r.status = "Skipped"
<1> DEFINE r == Skip(s, "condition_not_met")
           p == pre_skipped
           q == Append(p, r)
           n == Len(p)
<1>0. /\ pc = "spawn" /\ pc' = "spawn" /\ s = i + 1 /\ i' = s /\ pre_skipped' = q
      /\ flow' = flow /\ handles' = handles /\ k' = k /\ aborted' = aborted /\ results' = results
      /\ worker' = worker /\ slot' = slot /\ permits' = permits
      /\ cancelled' = cancelled /\ timed_out' = timed_out
  BY DEF SkipCondition, pool, env
<1>1. AllResults = p /\ k = 0 /\ results = <<>>
  BY <1>0, WalkingResults
<1>2. /\ r \in StepResult /\ r.step = s /\ r.status = "Skipped"
      /\ r.reason = "condition_not_met" /\ r = Skip(r.step, "condition_not_met")
  BY DEF Skip, StepResult, Status, Reason
<1>3. p \in Seq(StepResult) /\ handles \in Seq(Step) /\ i \in Nat /\ Len(handles) \in Nat
  BY NAssumption DEF IInv, TypeOK, PoolTypeOK
<1> HIDE DEF r
<1>4. /\ q \in Seq(StepResult) /\ n \in Nat /\ Len(q) = n + 1
      /\ DOMAIN p = 1 .. n /\ DOMAIN q = 1 .. n + 1
      /\ \A a \in 1 .. n : q[a] = p[a]
      /\ q[n + 1] = r
  BY <1>2, <1>3, AppendShape
<1>5. AllResults' = q
  BY <1>0, <1>1, <1>4, ConcatEmptySeq DEF AllResults
<1> HIDE DEF q, n
<1>6. TypeOK' /\ Phases' /\ PermitsConserved'
  BY <1>0, <1>1, <1>3, <1>4, NAssumption
     DEF IInv, TypeOK, PoolTypeOK, Phases, PermitsConserved, Step
<1>w. /\ n + Len(handles) = i
      /\ \A a \in 1 .. n : p[a] = Skip(p[a].step, "condition_not_met") /\ p[a].step <= i
      /\ \A b \in DOMAIN handles : handles[b] <= i /\ handles[b] \in Nat
      /\ \A a, b \in 1 .. n : a < b => p[a].step < p[b].step
      /\ \A a, b \in DOMAIN handles : a < b => handles[a] < handles[b]
      /\ \A a \in 1 .. n, b \in DOMAIN handles : p[a].step # handles[b]
      /\ \A t \in 1 .. i : \/ \E a \in 1 .. n : p[a].step = t
                           \/ \E b \in DOMAIN handles : handles[b] = t
      /\ \A a \in 1 .. n : p[a].step \in Nat
  <2>1. \A a \in 1 .. n : p[a].step \in Nat
    <3>1. \A a \in 1 .. n : p[a] \in StepResult
      BY <1>3, <1>4
    <3> QED
      BY <3>1, NAssumption DEF StepResult, Step
  <2>2. \A b \in DOMAIN handles : handles[b] \in Nat
    BY <1>3, NAssumption DEF Step
  <2> QED
    BY <1>4, <2>1, <2>2 DEF IInv, Walked, n
<1>c. \A a \in 1 .. n + 1 : a \in 1 .. n \/ a = n + 1
  BY <1>4
<1>7. Walked'
  <2>1. Len(q) + Len(handles) = s
    BY <1>0, <1>3, <1>4, <1>w
  <2>2. \A a \in 1 .. n + 1 : q[a] = Skip(q[a].step, "condition_not_met") /\ q[a].step <= s
    BY <1>0, <1>2, <1>3, <1>4, <1>w, <1>c
  <2>3. \A b \in DOMAIN handles : handles[b] <= s
    BY <1>0, <1>3, <1>w
  <2>4. \A a, b \in 1 .. n + 1 : a < b => q[a].step < q[b].step
    <3> SUFFICES ASSUME NEW a \in 1 .. n + 1, NEW b \in 1 .. n + 1, a < b
                 PROVE  q[a].step < q[b].step
      OBVIOUS
    <3>1. a \in 1 .. n
      BY <1>4
    <3>2. CASE b = n + 1
      BY <1>0, <1>2, <1>3, <1>4, <1>w, <3>1, <3>2
    <3>3. CASE b \in 1 .. n
      BY <1>4, <1>w, <3>1, <3>3
    <3> QED
      BY <1>c, <3>2, <3>3
  <2>5. \A a \in 1 .. n + 1, b \in DOMAIN handles : q[a].step # handles[b]
    BY <1>0, <1>2, <1>3, <1>4, <1>w, <1>c
  <2>6. ASSUME NEW t \in 1 .. s
        PROVE  \/ \E a \in 1 .. n + 1 : q[a].step = t
               \/ \E b \in DOMAIN handles : handles[b] = t
    <3>1. CASE t = s
      BY <1>2, <1>4, <3>1
    <3>2. CASE t # s
      <4>1. t \in 1 .. i /\ 1 .. n \subseteq 1 .. n + 1
        BY <1>0, <1>3, <1>4, <3>2
      <4> QED
        BY <1>4, <1>w, <4>1
    <3> QED
      BY <3>1, <3>2
  <2> QED
    BY <1>0, <1>4, <1>w, <2>1, <2>2, <2>3, <2>4, <2>5, <2>6 DEF Walked
<1>8. Aligned'
  BY <1>0, <1>1, <1>4, <1>5 DEF Aligned
<1>9. JoinsFinal'
  BY <1>0, <1>1, <1>2, <1>4, <1>5, <1>c, <1>w DEF JoinsFinal, Skip
<1>10. StoppedTail'
  <2>1. \A a \in 1 .. n + 1 : q[a].reason = "condition_not_met"
    <3>1. \A a \in 1 .. n : p[a].reason = "condition_not_met"
      <4>1. \A x : Skip(x, "condition_not_met").reason = "condition_not_met"
        BY DEF Skip
      <4> QED
        BY <1>w, <4>1
    <3> QED
      BY <1>2, <1>4, <1>c, <3>1
  <2>2. \A a \in DOMAIN AllResults' : ~(AllResults'[a].reason \in Stopping)
    BY <1>4, <1>5, <2>1 DEF Stopping
  <2> QED
    BY <2>2 DEF StoppedTail, Stopping
<1>11. UnwalkedIdle'
  <2>1. \A t \in Step : t > s => t > i
    BY <1>0, <1>3, NAssumption DEF Step
  <2> QED
    BY <1>0, <2>1 DEF IInv, UnwalkedIdle
<1> QED
  BY <1>1, <1>2, <1>5, <1>6, <1>7, <1>8, <1>9, <1>10, <1>11 DEF IInv, q

LEMMA KeepSpawn ==
  ASSUME IInv, NEW s \in Step, Spawn(s)
  PROVE  IInv' /\ AllResults' = AllResults /\ worker[s] = "idle"
<1> DEFINE h == Append(handles, s)
           n == Len(handles)
<1>0. /\ pc = "spawn" /\ pc' = "spawn" /\ s = i + 1 /\ i' = s /\ handles' = h /\ PoolSpawn(s)
      /\ flow' = flow /\ pre_skipped' = pre_skipped /\ k' = k /\ aborted' = aborted
      /\ results' = results /\ cancelled' = cancelled /\ timed_out' = timed_out
  BY DEF Spawn, env
<1>1. AllResults = pre_skipped /\ k = 0 /\ results = <<>>
  BY <1>0, WalkingResults
<1>2. AllResults' = AllResults
  BY <1>0 DEF AllResults
<1>3. /\ pre_skipped \in Seq(StepResult) /\ handles \in Seq(Step) /\ i \in Nat
      /\ Len(pre_skipped) \in Nat /\ DOMAIN pre_skipped = 1 .. Len(pre_skipped)
  BY NAssumption DEF IInv, TypeOK, PoolTypeOK
<1>4. worker[s] = "idle"
  <2>1. s > i
    BY <1>0, <1>3
  <2> QED
    BY <2>1 DEF IInv, UnwalkedIdle
<1>5. /\ PoolTypeOK' /\ PermitsConserved' /\ slot' = slot
      /\ \A t \in Step : t # s => worker'[t] = worker[t]
  BY <1>0, <1>4, PoolSpawned DEF IInv, TypeOK
<1>6. /\ h \in Seq(Step) /\ n \in Nat /\ Len(h) = n + 1
      /\ DOMAIN handles = 1 .. n /\ DOMAIN h = 1 .. n + 1
      /\ \A a \in 1 .. n : h[a] = handles[a]
      /\ h[n + 1] = s
  BY <1>3, AppendShape
<1> HIDE DEF h, n
<1>7. TypeOK' /\ Phases'
  BY <1>0, <1>1, <1>3, <1>5, <1>6, NAssumption DEF IInv, TypeOK, Phases, Step
<1>w. /\ Len(pre_skipped) + n = i
      /\ \A a \in DOMAIN pre_skipped :
           pre_skipped[a] = Skip(pre_skipped[a].step, "condition_not_met")
           /\ pre_skipped[a].step <= i /\ pre_skipped[a].step \in Nat
      /\ \A b \in 1 .. n : handles[b] <= i /\ handles[b] \in Nat
      /\ \A a, b \in DOMAIN pre_skipped : a < b => pre_skipped[a].step < pre_skipped[b].step
      /\ \A a, b \in 1 .. n : a < b => handles[a] < handles[b]
      /\ \A a \in DOMAIN pre_skipped, b \in 1 .. n : pre_skipped[a].step # handles[b]
      /\ \A t \in 1 .. i : \/ \E a \in DOMAIN pre_skipped : pre_skipped[a].step = t
                           \/ \E b \in 1 .. n : handles[b] = t
  <2>1. \A a \in DOMAIN pre_skipped : pre_skipped[a].step \in Nat
    <3>1. \A a \in DOMAIN pre_skipped : pre_skipped[a] \in StepResult
      BY <1>3
    <3> QED
      BY <3>1, NAssumption DEF StepResult, Step
  <2>2. \A b \in 1 .. n : handles[b] \in Nat
    BY <1>3, <1>6, NAssumption DEF Step
  <2> QED
    BY <1>6, <2>1, <2>2 DEF IInv, Walked, n
<1>c. \A a \in 1 .. n + 1 : a \in 1 .. n \/ a = n + 1
  BY <1>6
<1>8. Walked'
  <2>1. Len(pre_skipped) + Len(h) = s
    <3>1. Len(pre_skipped) + n = i
      BY <1>w
    <3> QED
      BY <1>0, <1>3, <1>6, <3>1
  <2>2. \A a \in DOMAIN pre_skipped : pre_skipped[a].step <= s
    BY <1>0, <1>3, <1>w
  <2>3. \A b \in 1 .. n + 1 : h[b] <= s
    BY <1>0, <1>3, <1>6, <1>w, <1>c
  <2>4. \A a, b \in 1 .. n + 1 : a < b => h[a] < h[b]
    <3> SUFFICES ASSUME NEW a \in 1 .. n + 1, NEW b \in 1 .. n + 1, a < b
                 PROVE  h[a] < h[b]
      OBVIOUS
    <3>1. a \in 1 .. n
      BY <1>6
    <3>2. CASE b = n + 1
      BY <1>0, <1>3, <1>6, <1>w, <3>1, <3>2
    <3>3. CASE b \in 1 .. n
      BY <1>6, <1>w, <3>1, <3>3
    <3> QED
      BY <1>c, <3>2, <3>3
  <2>5. \A a \in DOMAIN pre_skipped, b \in 1 .. n + 1 : pre_skipped[a].step # h[b]
    BY <1>0, <1>3, <1>6, <1>w, <1>c
  <2>6. ASSUME NEW t \in 1 .. s
        PROVE  \/ \E a \in DOMAIN pre_skipped : pre_skipped[a].step = t
               \/ \E b \in 1 .. n + 1 : h[b] = t
    <3>1. CASE t = s
      BY <1>6, <3>1
    <3>2. CASE t # s
      <4>1. t \in 1 .. i /\ 1 .. n \subseteq 1 .. n + 1
        BY <1>0, <1>3, <1>6, <3>2
      <4> QED
        BY <1>6, <1>w, <4>1
    <3> QED
      BY <3>1, <3>2
  <2>7. /\ \A a \in DOMAIN pre_skipped :
            pre_skipped[a] = Skip(pre_skipped[a].step, "condition_not_met")
        /\ \A a, b \in DOMAIN pre_skipped : a < b => pre_skipped[a].step < pre_skipped[b].step
    BY <1>w
  <2>8. pre_skipped' = pre_skipped /\ handles' = h /\ DOMAIN h = 1 .. n + 1 /\ i' = s
    BY <1>0, <1>6
  <2> QED
    BY <2>1, <2>2, <2>3, <2>4, <2>5, <2>6, <2>7, <2>8 DEF Walked
<1>9. Aligned'
  BY <1>0, <1>1, <1>2, <1>3 DEF Aligned
<1>10. JoinsFinal' /\ StoppedTail'
  <2>1. \A a \in DOMAIN AllResults : AllResults[a].reason = "condition_not_met"
    BY <1>1, <1>w DEF Skip
  <2> QED
    BY <1>0, <1>2, <2>1 DEF JoinsFinal, StoppedTail, Stopping
<1>11. UnwalkedIdle'
  <2>1. \A t \in Step : t > s => t > i /\ t # s
    BY <1>0, <1>3, NAssumption DEF Step
  <2> QED
    BY <1>0, <1>5, <2>1 DEF IInv, UnwalkedIdle
<1> QED
  BY <1>2, <1>4, <1>5, <1>7, <1>8, <1>9, <1>10, <1>11 DEF IInv

(***************************************************************************)
(* IInv holds initially and every step keeps it.                           *)
(***************************************************************************)
LEMMA InitIInv == Init => IInv
<1> SUFFICES ASSUME Init PROVE IInv
  OBVIOUS
<1>1. /\ flow \in FlowDef /\ pc = "spawn" /\ i = 0 /\ k = 0 /\ aborted = {}
      /\ pre_skipped = <<>> /\ handles = <<>> /\ results = <<>>
      /\ worker = [s \in Step |-> "idle"] /\ slot = [s \in Step |-> "empty"] /\ permits = Permits
      /\ cancelled = FALSE /\ timed_out = FALSE
  BY FlowsAssumption DEF Init, PoolInit
<1>2. TypeOK
  <2>1. /\ pre_skipped \in Seq(StepResult) /\ handles \in Seq(Step) /\ results \in Seq(StepResult)
        /\ k \in 0 .. Len(handles) /\ i \in 0 .. N
    BY <1>1, NAssumption
  <2>2. PoolTypeOK
    BY <1>1, PermitsType DEF PoolTypeOK, WorkerState
  <2> QED
    BY <1>1, <2>1, <2>2 DEF TypeOK
<1>3. PermitsConserved
  <2>1. {s \in Step : worker[s] \in {"running", "stored"}} = {}
    BY <1>1
  <2>2. Cardinality({s \in Step : worker[s] \in {"running", "stored"}}) = 0
    BY <2>1, FS_EmptySet
  <2> QED
    BY <1>1, <2>2, PermitsType DEF PermitsConserved
<1>4. AllResults = <<>>
  <2>1. <<>> \o <<>> = <<>>
    BY EmptySeq, ConcatEmptySeq
  <2> QED
    BY <1>1, <2>1 DEF AllResults
<1>5. Phases /\ Walked /\ UnwalkedIdle
  BY <1>1 DEF Phases, Walked, UnwalkedIdle
<1>6. Aligned /\ JoinsFinal /\ StoppedTail
  BY <1>1, <1>4 DEF Aligned, JoinsFinal, StoppedTail
<1> QED
  BY <1>2, <1>3, <1>5, <1>6 DEF IInv

LEMMA NextIInv == IInv /\ [Next]_vars => IInv'
<1> SUFFICES ASSUME IInv, [Next]_vars PROVE IInv'
  OBVIOUS
<1>1. CASE Coordinator
  BY <1>1, KeepMoves, KeepAbandon, KeepJoin, KeepSkipCondition, KeepSpawn DEF Coordinator
<1>2. CASE \E s \in Step : Worker(s)
  BY <1>2, KeepWorker
<1>3. CASE Cancel \/ Deadline \/ UNCHANGED vars
  BY <1>3, KeepEnvironment
<1> QED
  BY <1>1, <1>2, <1>3 DEF Next

\* Every state of every run of run_parallel satisfies the inductive invariant.
THEOREM Invariance == Spec => []IInv
BY InitIInv, NextIInv, PTL DEF Spec

(***************************************************************************)
(* The safety invariant.                                                   *)
(***************************************************************************)

\* What results is part of.
LEMMA ResultsInAll ==
  ASSUME IInv
  PROVE  \E n \in Nat : \A a \in DOMAIN results : n + a \in DOMAIN AllResults
                                                  /\ AllResults[n + a] = results[a]
<1>1. pre_skipped \in Seq(StepResult) /\ results \in Seq(StepResult)
  BY DEF IInv, TypeOK, PoolTypeOK
<1>2. CASE pc = "done"
  <2>1. \A a \in DOMAIN results : 0 + a = a
    BY <1>1
  <2>2. \A a \in DOMAIN results : 0 + a \in DOMAIN AllResults /\ AllResults[0 + a] = results[a]
    BY <1>2, <2>1 DEF AllResults
  <2> QED
    BY <2>2
<1>3. CASE pc # "done"
  <2> DEFINE n == Len(pre_skipped)
  <2>1. n \in Nat /\ Len(results) \in Nat /\ DOMAIN results = 1 .. Len(results)
    BY <1>1
  <2>2. /\ AllResults \in Seq(StepResult) /\ Len(AllResults) = n + Len(results)
        /\ DOMAIN AllResults = 1 .. Len(AllResults)
        /\ \A a \in 1 .. n + Len(results) :
             AllResults[a] = IF a <= n THEN pre_skipped[a] ELSE results[a - n]
    BY <1>1, <1>3, ConcatProperties DEF AllResults
  <2> HIDE DEF n
  <2>3. \A a \in 1 .. Len(results) :
          n + a \in 1 .. n + Len(results) /\ ~(n + a <= n) /\ (n + a) - n = a
    BY <2>1
  <2> QED
    BY <2>1, <2>2, <2>3
<1> QED
  BY <1>2, <1>3

LEMMA EndComplete == IInv => CompleteAndOrdered
<1> SUFFICES ASSUME IInv, pc = "done"
             PROVE  /\ Len(results) = N /\ Reported(results) = Step
                    /\ \A a, b \in DOMAIN results : a < b =>
                         \/ results[a].step < results[b].step
                         \/ results[a].reason = "condition_not_met"
                            /\ results[b].reason # "condition_not_met"
  BY DEF CompleteAndOrdered
<1> DEFINE p == Len(pre_skipped)
<1>1. /\ pre_skipped \in Seq(StepResult) /\ handles \in Seq(Step) /\ results \in Seq(StepResult)
      /\ i = N /\ k = Len(handles) /\ AllResults = results
  BY DEF IInv, TypeOK, PoolTypeOK, Phases, AllResults
<1>2. /\ p \in Nat /\ k \in Nat /\ DOMAIN pre_skipped = 1 .. p /\ DOMAIN handles = 1 .. k
      /\ DOMAIN results = 1 .. Len(results)
  BY <1>1
<1>3. Len(results) = p + k /\ p + k = N
  BY <1>1 DEF IInv, Aligned, Walked
<1>4. /\ \A a \in 1 .. p : /\ results[a] = pre_skipped[a]
                           /\ results[a].reason = "condition_not_met"
      /\ \A b \in 1 .. k : /\ results[p + b].step = handles[b]
                           /\ results[p + b].reason # "condition_not_met"
  <2>1. Aligned /\ Walked
    BY DEF IInv
  <2>2. \A a \in 1 .. p : results[a] = pre_skipped[a]
    BY <1>1, <2>1 DEF Aligned
  <2>3. \A b \in 1 .. k : /\ results[p + b].step = handles[b]
                          /\ results[p + b].reason # "condition_not_met"
    BY <1>1, <2>1 DEF Aligned
  <2>4. \A a \in 1 .. p : pre_skipped[a].reason = "condition_not_met"
    BY <1>2, <2>1 DEF Walked, Skip
  <2> QED
    BY <2>2, <2>3, <2>4
<1>5. \A a \in 1 .. p + k : a \in 1 .. p \/ \E b \in 1 .. k : a = p + b
  <2> SUFFICES ASSUME NEW a \in 1 .. p + k, a \notin 1 .. p
               PROVE  a - p \in 1 .. k /\ a = p + (a - p)
    OBVIOUS
  <2> QED
    BY <1>2
<1>6. Reported(results) = Step
  <2>1. Reported(results) \subseteq Step
    <3>1. \A a \in DOMAIN results : results[a] \in StepResult
      BY <1>1
    <3> QED
      BY <3>1 DEF Reported, StepResult
  <2>2. ASSUME NEW s \in Step PROVE s \in Reported(results)
    <3>1. \/ \E a \in 1 .. p : pre_skipped[a].step = s
          \/ \E b \in 1 .. k : handles[b] = s
      BY <1>1, <1>2 DEF IInv, Walked, Step
    <3>2. /\ 1 .. p \subseteq DOMAIN results
          /\ \A b \in 1 .. k : p + b \in DOMAIN results
      BY <1>2, <1>3
    <3> QED
      BY <1>4, <3>1, <3>2 DEF Reported
  <2> QED
    BY <2>1, <2>2
<1>7. ASSUME NEW a \in 1 .. p + k, NEW b \in 1 .. p + k, a < b
      PROVE  \/ results[a].step < results[b].step
             \/ results[a].reason = "condition_not_met" /\ results[b].reason # "condition_not_met"
  <2>1. CASE a \in 1 .. p /\ b \in 1 .. p
    BY <1>2, <1>4, <1>7, <2>1 DEF IInv, Walked
  <2>2. CASE a \in 1 .. p /\ b \notin 1 .. p
    BY <1>4, <1>5, <2>2
  <2>3. CASE a \notin 1 .. p
    <3>1. PICK c \in 1 .. k : a = p + c
      BY <1>5, <2>3
    <3>2. b \notin 1 .. p
      BY <1>2, <1>7, <2>3
    <3>3. PICK d \in 1 .. k : b = p + d
      BY <1>5, <3>2
    <3>4. c < d
      BY <1>2, <1>7, <3>1, <3>3
    <3>5. handles[c] < handles[d]
      BY <1>2, <3>4 DEF IInv, Walked
    <3> QED
      BY <1>4, <3>1, <3>3, <3>5
  <2> QED
    BY <2>1, <2>2, <2>3
<1> QED
  BY <1>2, <1>3, <1>6, <1>7

\* run_parallel keeps its types and permits, reports a joined step with the
\* outcome of its own handler, aborts a suffix of the spawned steps, and
\* returns one result for every step in the promised order.
THEOREM ParallelSafe == Spec => []Inv
<1>1. IInv => OutcomeIsFinal /\ AbandonedIsSuffix
  <2> SUFFICES ASSUME IInv PROVE OutcomeIsFinal /\ AbandonedIsSuffix
    OBVIOUS
  <2>1. PICK n \in Nat : \A a \in DOMAIN results : n + a \in DOMAIN AllResults
                                                   /\ AllResults[n + a] = results[a]
    BY ResultsInAll
  <2>2. OutcomeIsFinal
    BY <2>1 DEF IInv, JoinsFinal, OutcomeIsFinal
  <2>3. AbandonedIsSuffix
    <3> SUFFICES ASSUME NEW a \in DOMAIN results, NEW b \in DOMAIN results,
                        a < b, results[a].reason \in Stopping
                 PROVE  results[b].reason \in Stopping
      BY DEF AbandonedIsSuffix
    <3>1. n + a < n + b
      <4>1. a \in Int /\ b \in Int
        BY DEF IInv, TypeOK, PoolTypeOK
      <4> QED
        BY <4>1
    <3> QED
      BY <2>1, <3>1 DEF IInv, StoppedTail
  <2> QED
    BY <2>2, <2>3
<1>2. IInv => Inv
  BY <1>1, EndComplete DEF IInv, Inv
<1> QED
  BY <1>2, Invariance, PTL

(***************************************************************************)
(* run_parallel implements FlowContract with MayAbandon = TRUE.            *)
(***************************************************************************)

\* AllResults has at most one result for a step.
Distinct ==
    \A a, b \in DOMAIN AllResults : AllResults[a].step = AllResults[b].step => a = b

LEMMA StepsDistinct == IInv => Distinct
<1> SUFFICES ASSUME IInv PROVE Distinct
  OBVIOUS
<1> DEFINE p == Len(pre_skipped)
<1>1. /\ pre_skipped \in Seq(StepResult) /\ handles \in Seq(Step) /\ k \in 0 .. Len(handles)
      /\ DOMAIN AllResults = 1 .. Len(AllResults)
  BY AllResultsType DEF IInv, TypeOK, PoolTypeOK
<1>2. /\ p \in Nat /\ k \in Nat /\ DOMAIN pre_skipped = 1 .. p /\ 1 .. k \subseteq DOMAIN handles
      /\ Len(AllResults) = p + k
  BY <1>1 DEF IInv, Aligned
<1>3. \A a \in 1 .. p + k : a \in 1 .. p \/ \E b \in 1 .. k : a = p + b
  <2> SUFFICES ASSUME NEW a \in 1 .. p + k, a \notin 1 .. p
               PROVE  a - p \in 1 .. k /\ a = p + (a - p)
    OBVIOUS
  <2> QED
    BY <1>2
<1>4. /\ \A a \in 1 .. p : AllResults[a].step = pre_skipped[a].step
      /\ \A b \in 1 .. k : AllResults[p + b].step = handles[b]
  BY <1>2 DEF IInv, Aligned
<1>5. \A a \in 1 .. p, b \in 1 .. k : AllResults[a].step # AllResults[p + b].step
  <2>1. \A a \in 1 .. p, b \in 1 .. k : pre_skipped[a].step # handles[b]
    BY <1>2 DEF IInv, Walked
  <2> HIDE DEF p
  <2> QED
    BY <1>4, <2>1
<1>6. ASSUME NEW a \in 1 .. p, NEW b \in 1 .. p, AllResults[a].step = AllResults[b].step
      PROVE  a = b
  <2>1. pre_skipped[a].step = pre_skipped[b].step /\ pre_skipped[a].step \in Int
    <3>1. pre_skipped[a] \in StepResult
      BY <1>1, <1>2
    <3> QED
      BY <1>4, <1>6, <3>1, NAssumption DEF StepResult, Step
  <2>2. ~(a < b) /\ ~(b < a)
    BY <1>2, <2>1 DEF IInv, Walked
  <2> QED
    BY <2>2
<1>7. ASSUME NEW a \in 1 .. k, NEW b \in 1 .. k, AllResults[p + a].step = AllResults[p + b].step
      PROVE  a = b
  <2>1. handles[a] = handles[b] /\ handles[a] \in Int
    BY <1>1, <1>2, <1>4, <1>7, NAssumption DEF Step
  <2>2. ~(a < b) /\ ~(b < a)
    BY <1>2, <2>1 DEF IInv, Walked
  <2> QED
    BY <2>2
<1> HIDE DEF p
<1> SUFFICES ASSUME NEW a \in 1 .. p + k, NEW b \in 1 .. p + k,
                    AllResults[a].step = AllResults[b].step
             PROVE  a = b
  BY <1>1, <1>2 DEF Distinct
<1>8. CASE a \in 1 .. p /\ b \in 1 .. p
  BY <1>6, <1>8
<1>9. ASSUME NEW c \in 1 .. k, a = p + c, b \in 1 .. p PROVE FALSE
  BY <1>5, <1>9
<1>10. ASSUME NEW c \in 1 .. k, b = p + c, a \in 1 .. p PROVE FALSE
  BY <1>5, <1>10
<1>11. ASSUME NEW c \in 1 .. k, NEW d \in 1 .. k, a = p + c, b = p + d PROVE a = b
  BY <1>7, <1>11
<1> QED
  BY <1>3, <1>8, <1>9, <1>10, <1>11

\* The outcome of a step is the status of its one result.
OutcomeIn(rs) ==
    [s \in Step |->
        IF \E a \in DOMAIN rs : rs[a].step = s
        THEN rs[CHOOSE a \in DOMAIN rs : rs[a].step = s].status
        ELSE "none"]

LEMMA OutcomeOf ==
  ASSUME NEW rs \in Seq(StepResult),
         \A a, b \in DOMAIN rs : rs[a].step = rs[b].step => a = b
  PROVE  /\ \A a \in DOMAIN rs : rs[a].step \in Step /\ OutcomeIn(rs)[rs[a].step] = rs[a].status
         /\ \A s \in Step : (\A a \in DOMAIN rs : rs[a].step # s) => OutcomeIn(rs)[s] = "none"
         /\ OutcomeIn(rs) \in [Step -> Status \cup {"none"}]
<1>0. \A a \in DOMAIN rs : rs[a].step \in Step /\ rs[a].status \in Status
  <2>1. \A a \in DOMAIN rs : rs[a] \in StepResult
    OBVIOUS
  <2> QED
    BY <2>1 DEF StepResult
<1>1. ASSUME NEW a \in DOMAIN rs
      PROVE  OutcomeIn(rs)[rs[a].step] = rs[a].status
  <2> DEFINE s == rs[a].step
             c == CHOOSE b \in DOMAIN rs : rs[b].step = s
  <2>1. c \in DOMAIN rs /\ rs[c].step = s
    BY <1>1
  <2>2. c = a
    BY <1>1, <2>1
  <2>3. OutcomeIn(rs)[s] = rs[c].status
    BY <1>0, <1>1 DEF OutcomeIn
  <2> QED
    BY <2>2, <2>3
<1>2. ASSUME NEW s \in Step, \A a \in DOMAIN rs : rs[a].step # s
      PROVE  OutcomeIn(rs)[s] = "none"
  BY <1>2 DEF OutcomeIn
<1>3. OutcomeIn(rs) \in [Step -> Status \cup {"none"}]
  <2>1. \A s \in Step : OutcomeIn(rs)[s] \in Status \cup {"none"}
    <3> SUFFICES ASSUME NEW s \in Step PROVE OutcomeIn(rs)[s] \in Status \cup {"none"}
      OBVIOUS
    <3>1. CASE \E a \in DOMAIN rs : rs[a].step = s
      BY <1>0, <1>1, <3>1
    <3>2. CASE \A a \in DOMAIN rs : rs[a].step # s
      BY <1>2, <3>2
    <3> QED
      BY <3>1, <3>2
  <2>2. OutcomeIn(rs) = [s \in Step |-> OutcomeIn(rs)[s]]
    BY DEF OutcomeIn
  <2> QED
    BY <2>1, <2>2
<1> QED
  BY <1>0, <1>1, <1>2, <1>3

\* One more result is a report.
LEMMA RefineReport ==
  ASSUME IInv, IInv', NEW r \in StepResult, AllResults' = Append(AllResults, r),
         worker' = worker, pc # "done", pc' # "done",
         r.status = "Completed" => worker[r.step] = "exited"
  PROVE  Contract!Report
<1> DEFINE A == AllResults
           B == AllResults'
           n == Len(A)
           o == OutcomeIn(A)
           p == OutcomeIn(B)
<1>1. Begun' = Begun /\ (pc = "done") = FALSE /\ (pc = "done")' = FALSE
  BY DEF Begun
<1>2. Outcome = o /\ Outcome' = p
  BY DEF Outcome, OutcomeIn
<1>3. /\ A \in Seq(StepResult)
      /\ \A a, b \in DOMAIN A : A[a].step = A[b].step => a = b
  BY AllResultsType, StepsDistinct DEF IInv, Distinct
<1>4. /\ B \in Seq(StepResult) /\ n \in Nat /\ DOMAIN A = 1 .. n /\ DOMAIN B = 1 .. n + 1
      /\ \A a \in 1 .. n : B[a] = A[a]
      /\ B[n + 1] = r
  BY <1>3, AppendShape
<1>5. \A a, b \in DOMAIN B : B[a].step = B[b].step => a = b
  <2>1. (IInv => Distinct)'
    BY StepsDistinct, PTL
  <2> QED
    BY <2>1 DEF Distinct
<1>6. /\ \A a \in DOMAIN A : o[A[a].step] = A[a].status
      /\ \A s \in Step : (\A a \in DOMAIN A : A[a].step # s) => o[s] = "none"
  BY <1>3, OutcomeOf
<1>7. /\ \A a \in DOMAIN B : p[B[a].step] = B[a].status
      /\ \A s \in Step : (\A a \in DOMAIN B : B[a].step # s) => p[s] = "none"
      /\ p \in [Step -> Status \cup {"none"}]
  BY <1>4, <1>5, OutcomeOf
<1> HIDE DEF A, B, n, o, p
<1>8. ASSUME NEW s \in Step, p[s] # o[s]
      PROVE  o[s] = "none" /\ (p[s] = "Completed" => s \in Begun)
  <2>1. \A a \in DOMAIN A : A[a].step # s
    <3>1. DOMAIN A \subseteq DOMAIN B
      BY <1>4
    <3> QED
      BY <1>4, <1>6, <1>7, <1>8, <3>1
  <2>2. o[s] = "none"
    BY <1>6, <2>1
  <2>3. PICK a \in DOMAIN B : B[a].step = s
    BY <1>7, <1>8, <2>2
  <2>4. a = n + 1
    BY <1>4, <2>1, <2>3
  <2> QED
    BY <1>4, <1>7, <2>2, <2>3, <2>4 DEF Begun
<1> QED
  BY <1>1, <1>2, <1>7, <1>8 DEF Contract!Report, Contract!Status, Contract!Step, Status, Step

LEMMA RefineStutter ==
  ASSUME AllResults' = AllResults, pc' = "done" <=> pc = "done",
         \A s \in Step : worker'[s] \in {"running", "stored", "exited"}
                           <=> worker[s] \in {"running", "stored", "exited"}
  PROVE  UNCHANGED Contract!vars
<1>1. Outcome' = Outcome /\ Begun' = Begun
  BY DEF Outcome, Begun
<1>2. (pc = "done")' = (pc = "done")
  OBVIOUS
<1> QED
  BY <1>1, <1>2 DEF Contract!vars

LEMMA RefineWorker ==
  ASSUME IInv, NEW s \in Step, Worker(s)
  PROVE  [Contract!Begin(s)]_(Contract!vars)
<1>0. worker \in [Step -> WorkerState]
  BY DEF IInv, TypeOK, PoolTypeOK
<1>1. pc' = pc /\ AllResults' = AllResults
  BY DEF Worker, Acquire, Store, Release, Panic, DropAborted, coord, AllResults
<1>2. CASE Acquire(s)
  <2>1. worker[s] = "waiting" /\ worker' = [worker EXCEPT ![s] = "running"]
    BY <1>2 DEF Acquire, PoolAcquire
  <2>2. s \notin Begun /\ Begun' = Begun \cup {s}
    BY <1>0, <2>1 DEF Begun
  <2>3. Outcome' = Outcome
    BY <1>1 DEF Outcome
  <2> QED
    BY <1>1, <2>2, <2>3 DEF Contract!Begin
<1>3. CASE \/ \E st \in {"Completed", "Failed"} : Store(s, st)
           \/ Release(s) \/ Panic(s) \/ DropAborted(s)
  <2>1. \/ worker[s] \in {"running", "stored"} /\ worker' = [worker EXCEPT ![s] = "exited"]
        \/ worker[s] = "running" /\ worker' = [worker EXCEPT ![s] = "stored"]
        \/ worker[s] = "waiting" /\ worker' = [worker EXCEPT ![s] = "dropped"]
    BY <1>3 DEF Store, Release, Panic, DropAborted, PoolStore, PoolRelease, PoolUnwind, PoolDrop
  <2>2. \A t \in Step : worker'[t] \in {"running", "stored", "exited"}
                          <=> worker[t] \in {"running", "stored", "exited"}
    BY <1>0, <2>1
  <2> QED
    BY <1>1, <2>2, RefineStutter
<1> QED
  BY <1>2, <1>3 DEF Worker

LEMMA RefineCoordinator ==
  ASSUME IInv, IInv', Coordinator
  PROVE  [Contract!Report \/ Contract!Return]_(Contract!vars)
<1>1. CASE StartJoin \/ EnterJoin
  <2>1. pc' # "done" /\ pc # "done" /\ AllResults' = AllResults /\ worker' = worker
    BY <1>1 DEF StartJoin, EnterJoin, coord, pool, AllResults
  <2> QED
    BY <2>1, RefineStutter
<1>2. CASE Return
  <2>1. pc = "check" /\ pc' = "done" /\ AllResults' = AllResults /\ worker' = worker
    BY <1>2 DEF Return, pool, AllResults
  <2>2. Outcome' = Outcome /\ Begun' = Begun
    BY <2>1 DEF Outcome, Begun
  <2> QED
    BY <2>1, <2>2 DEF Contract!Return
<1>3. CASE Abandon
  <2>1. pc = "check" /\ pc' = pc /\ worker' = worker
    BY <1>3 DEF Abandon, pool
  <2>2. PICK r \in StepResult : AllResults' = Append(AllResults, r) /\ r.status = "Skipped"
    BY <1>3, KeepAbandon
  <2> QED
    BY <2>1, <2>2, RefineReport
<1>4. CASE Join
  <2>1. pc = "join" /\ pc' = "check" /\ worker' = worker
    BY <1>4 DEF Join, pool
  <2>2. PICK r \in StepResult : AllResults' = Append(AllResults, r) /\ worker[r.step] = "exited"
    BY <1>4, KeepJoin
  <2> QED
    BY <2>1, <2>2, RefineReport
<1>5. ASSUME NEW s \in Step, SkipCondition(s)
      PROVE  [Contract!Report \/ Contract!Return]_(Contract!vars)
  <2>1. pc = "spawn" /\ pc' = pc /\ worker' = worker
    BY <1>5 DEF SkipCondition, pool
  <2>2. PICK r \in StepResult : AllResults' = Append(AllResults, r) /\ r.status = "Skipped"
    BY <1>5, KeepSkipCondition
  <2> QED
    BY <2>1, <2>2, RefineReport
<1>6. ASSUME NEW s \in Step, Spawn(s)
      PROVE  [Contract!Report \/ Contract!Return]_(Contract!vars)
  <2>1. pc' = pc /\ worker' = [worker EXCEPT ![s] = "waiting"] /\ worker \in [Step -> WorkerState]
    BY <1>6 DEF Spawn, PoolSpawn, IInv, TypeOK, PoolTypeOK
  <2>2. AllResults' = AllResults /\ worker[s] = "idle"
    BY <1>6, KeepSpawn
  <2>3. \A t \in Step : worker'[t] \in {"running", "stored", "exited"}
                          <=> worker[t] \in {"running", "stored", "exited"}
    BY <2>1, <2>2
  <2> QED
    BY <2>1, <2>2, <2>3, RefineStutter
<1> QED
  BY <1>1, <1>2, <1>3, <1>4, <1>5, <1>6 DEF Coordinator

LEMMA RefineNext == IInv /\ [Next]_vars => [Contract!Next]_(Contract!vars)
<1> SUFFICES ASSUME IInv, [Next]_vars PROVE [Contract!Next]_(Contract!vars)
  OBVIOUS
<1>0. IInv'
  BY NextIInv
<1>1. CASE Coordinator
  BY <1>0, <1>1, RefineCoordinator DEF Contract!Next
<1>2. CASE \E s \in Step : Worker(s)
  BY <1>2, RefineWorker DEF Contract!Next, Contract!Step, Step
<1>3. CASE Cancel \/ Deadline \/ UNCHANGED vars
  <2>1. pc' = pc /\ AllResults' = AllResults /\ worker' = worker
    BY <1>3 DEF Cancel, Deadline, vars, coord, pool, AllResults
  <2> QED
    BY <2>1, RefineStutter
<1> QED
  BY <1>1, <1>2, <1>3 DEF Next

LEMMA RefineInit == Init => Contract!Init
<1> SUFFICES ASSUME Init PROVE Contract!Init
  OBVIOUS
<1>1. /\ results = <<>> /\ pre_skipped = <<>> /\ pc = "spawn"
      /\ worker = [s \in Step |-> "idle"]
  BY DEF Init, PoolInit
<1>2. AllResults = <<>>
  <2>1. <<>> \o <<>> = <<>>
    BY EmptySeq, ConcatEmptySeq
  <2> QED
    BY <1>1, <2>1 DEF AllResults
<1>3. Begun = {} /\ Outcome = [s \in Step |-> "none"]
  BY <1>1, <1>2 DEF Begun, Outcome
<1> QED
  BY <1>1, <1>3 DEF Contract!Init, Contract!Step, Step

\* run_parallel keeps the contract of an executor that may abandon steps: no
\* handler is invoked twice, aborted or not, no result changes, and a step is
\* reported Completed only if its handler was invoked.
THEOREM ParallelKeepsContract == Spec => RefinesContract
BY RefineInit, RefineNext, Invariance, PTL DEF Spec, RefinesContract, Contract!Spec

=============================================================================
