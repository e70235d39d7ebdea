---------------------------- MODULE ServiceProofs ----------------------------
(***************************************************************************)
(* What several runs or clients of the service share, its migrations, and  *)
(* what it lets through.                                                   *)
(*                                                                         *)
(* The queue of run_queued, for any finite set of runs, any number of      *)
(* steps and any cap: IInv is inductive, no step is lost or executed twice *)
(* and a run returns short only when its steps are finished.               *)
(*                                                                         *)
(* The quota of a tenant, for any tenants, callers, tools, burst and time. *)
(* TInv is inductive: only the limiter and time touch a bucket, and both   *)
(* keep it in balance with what the tenant used; the property of a step    *)
(* then follows from the balance before it.                                *)
(*                                                                         *)
(* The file that the clients of the tools share, for any clients, requests *)
(* and bounds: a write that was acknowledged survives.  WritesSurvive does *)
(* not say why a retry writes nothing twice; FIInv does.                   *)
(*                                                                         *)
(* The migrations of a flow, for any number of versions.  MigrationSafe is *)
(* inductive as it stands, since register asserts on each pair what the    *)
(* loop of migrate_to relies on.  That Err is right as well needs a fact   *)
(* about every chain the flow could have taken, which OnTheWay adds.       *)
(*                                                                         *)
(* What lets a flow through, for any definitions: check_cycles reports a   *)
(* cycle exactly where there is one.  SearchInv has both halves of that:   *)
(* the open calls of dfs are a path that any order of the steps falls      *)
(* along, and those that returned are numbered behind their dependencies.  *)
(*                                                                         *)
(* The flows a client builds with the tools, for any number of steps and   *)
(* names: a step depends on steps made before it, so none has a cycle.     *)
(***************************************************************************)
EXTENDS QueueRun, Tenancy, McpTools, Migration, Admission, Authoring,
        SequenceTheorems, FiniteSetTheorems, WellFoundedInduction, TLAPS

(***************************************************************************)
(* Where an item is.                                                       *)
(***************************************************************************)

LEMMA InPlaces ==
  ASSUME NEW x, NEW p
  PROVE  p \in Places(x) <=>
            \/ \E i \in DOMAIN queue : queue[i] = x /\ p = <<"queue", i>>
            \/ \E r \in Run : holds[r] = <<x>> /\ p = <<"holds", r>>
            \/ \E r \in Run : \E i \in DOMAIN results[r] :
                  results[r][i].item = x /\ p = <<"results", r, i>>
BY DEF Places

\* The types as the proofs use them.
LEMMA Typed ==
  ASSUME TypeOK
  PROVE  /\ MaxSteps \in Nat /\ \A r \in Run : total[r] \in 0 .. MaxSteps /\ sent[r] \in 0 .. MaxSteps
         /\ Len(queue) \in Nat /\ DOMAIN queue = 1 .. Len(queue)
         /\ \A i \in DOMAIN queue : queue[i] \in Item
         /\ \A r \in Run : holds[r] # <<>> => holds[r][1] \in Item /\ holds[r] = <<holds[r][1]>>
         /\ \A r \in Run : /\ results[r] \in Seq(Result)
                           /\ Len(results[r]) \in Nat /\ DOMAIN results[r] = 1 .. Len(results[r])
                           /\ \A k \in DOMAIN results[r] :
                                 results[r][k] \in Result /\ results[r][k].item \in Item
         /\ \A x \in Item : x.run \in Run /\ x.step \in 1 .. MaxSteps /\ x.step \in Nat
                            /\ x = [run |-> x.run, step |-> x.step]
<1>1. MaxSteps \in Nat /\ \A r \in Run : total[r] \in 0 .. MaxSteps /\ sent[r] \in 0 .. MaxSteps
  BY QueueAssumption DEF TypeOK
<1>2. /\ Len(queue) \in Nat /\ DOMAIN queue = 1 .. Len(queue)
      /\ \A i \in DOMAIN queue : queue[i] \in Item
  <2>1. queue \in Seq(Item)
    BY DEF TypeOK
  <2> QED
    BY <2>1, LenProperties, ElementOfSeq
<1>3. \A r \in Run : holds[r] # <<>> => holds[r][1] \in Item /\ holds[r] = <<holds[r][1]>>
  <2> SUFFICES ASSUME NEW r \in Run, holds[r] # <<>>
               PROVE  holds[r][1] \in Item /\ holds[r] = <<holds[r][1]>>
    OBVIOUS
  <2>1. holds[r] \in {<<x>> : x \in Item}
    BY DEF TypeOK
  <2>2. PICK x \in Item : holds[r] = <<x>>
    BY <2>1
  <2> QED
    BY <2>2
<1>4. ASSUME NEW r \in Run
      PROVE  /\ results[r] \in Seq(Result)
             /\ Len(results[r]) \in Nat /\ DOMAIN results[r] = 1 .. Len(results[r])
             /\ \A k \in DOMAIN results[r] : results[r][k] \in Result /\ results[r][k].item \in Item
  <2>1. results[r] \in Seq(Result)
    BY DEF TypeOK
  <2>2. /\ Len(results[r]) \in Nat /\ DOMAIN results[r] = 1 .. Len(results[r])
        /\ \A k \in DOMAIN results[r] : results[r][k] \in Result
    BY <2>1, LenProperties, ElementOfSeq
  <2> QED
    BY <2>1, <2>2 DEF Result
<1>5. \A x \in Item : x.run \in Run /\ x.step \in 1 .. MaxSteps /\ x.step \in Nat
                      /\ x = [run |-> x.run, step |-> x.step]
  BY <1>1 DEF Item
<1> QED
  BY <1>1, <1>2, <1>3, <1>4, <1>5

\* An item that is anywhere was sent.
LEMMA Known ==
  ASSUME TypeOK, Once
  PROVE  /\ \A i \in DOMAIN queue : queue[i].step <= sent[queue[i].run]
         /\ \A r \in Run : holds[r] # <<>> => holds[r][1].step <= sent[holds[r][1].run]
         /\ \A r \in Run : \A k \in DOMAIN results[r] :
               results[r][k].item.step <= sent[results[r][k].item.run]
<1>1. \A x \in Item : Places(x) # {} => x.step <= sent[x.run]
  BY DEF Once
<1>2. ASSUME NEW i \in DOMAIN queue PROVE queue[i].step <= sent[queue[i].run]
  <2>1. <<"queue", i>> \in Places(queue[i])
    BY InPlaces
  <2>2. queue[i] \in Item
    BY Typed
  <2> QED
    BY <1>1, <2>1, <2>2
<1>3. ASSUME NEW r \in Run, holds[r] # <<>> PROVE holds[r][1].step <= sent[holds[r][1].run]
  <2>1. holds[r][1] \in Item /\ holds[r] = <<holds[r][1]>>
    BY <1>3, Typed
  <2>2. <<"holds", r>> \in Places(holds[r][1])
    BY <2>1, InPlaces
  <2> QED
    BY <1>1, <2>1, <2>2
<1>4. ASSUME NEW r \in Run, NEW k \in DOMAIN results[r]
      PROVE  results[r][k].item.step <= sent[results[r][k].item.run]
  <2>1. results[r][k].item \in Item
    BY Typed
  <2>2. <<"results", r, k>> \in Places(results[r][k].item)
    BY InPlaces
  <2> QED
    BY <1>1, <2>1, <2>2
<1> QED
  BY <1>2, <1>3, <1>4

LEMMA QueueAppend ==
  ASSUME NEW S, NEW q \in Seq(S), NEW x \in S
  PROVE  /\ Append(q, x) \in Seq(S)
         /\ Len(q) \in Nat /\ Len(Append(q, x)) = Len(q) + 1
         /\ DOMAIN q = 1 .. Len(q) /\ DOMAIN Append(q, x) = 1 .. Len(q) + 1
         /\ \A a \in 1 .. Len(q) : Append(q, x)[a] = q[a]
         /\ Append(q, x)[Len(q) + 1] = x
OBVIOUS

LEMMA TailShape ==
  ASSUME NEW q \in Seq(Item), q # <<>>
  PROVE  /\ Len(q) \in Nat /\ Len(q) > 0 /\ Head(q) = q[1] /\ q[1] \in Item
         /\ DOMAIN q = 1 .. Len(q) /\ Tail(q) \in Seq(Item) /\ Len(Tail(q)) = Len(q) - 1
         /\ DOMAIN Tail(q) = 1 .. Len(q) - 1
         /\ \A i \in 1 .. Len(q) - 1 : Tail(q)[i] = q[i + 1]
<1>1. /\ Len(q) \in Nat /\ Len(q) > 0 /\ DOMAIN q = 1 .. Len(q)
      /\ \A i \in 1 .. Len(q) : q[i] \in Item
  BY EmptySeq, LenProperties, ElementOfSeq
<1>2. /\ Head(q) \in Item /\ Tail(q) \in Seq(Item) /\ Len(Tail(q)) = Len(q) - 1
      /\ \A i \in 1 .. Len(Tail(q)) : Tail(q)[i] = q[i + 1]
  BY HeadTailProperties
<1>3. DOMAIN Tail(q) = 1 .. Len(Tail(q))
  BY <1>2, LenProperties
<1>4. Head(q) = q[1]
  BY DEF Head
<1> QED
  BY <1>1, <1>2, <1>3, <1>4

(***************************************************************************)
(* Steps that change no place.                                             *)
(***************************************************************************)

\* Only the label of r changes, to l.
LEMMA Moved ==
  ASSUME IInv, NEW r \in Run, NEW l \in Labels, pc' = [pc EXCEPT ![r] = l],
         UNCHANGED <<total, sent, holds, results, mq>>,
         Stages', ShortOnlyIfFinished'
  PROVE  IInv'
<1>0. /\ total' = total /\ sent' = sent /\ holds' = holds /\ results' = results
      /\ queue' = queue /\ running' = running
  BY DEF mq
<1>1. TypeOK'
  BY <1>0 DEF IInv, TypeOK
<1>2. \A x : Places(x)' = Places(x)
  BY <1>0 DEF Places
<1>3. Once'
  BY <1>0, <1>2 DEF IInv, Once
<1>4. Ordered' /\ RunningCounted'
  BY <1>0 DEF IInv, Ordered, Before, TakenInOrder, RunningCounted
<1> QED
  BY <1>1, <1>3, <1>4 DEF IInv

\* Own steps in the results stay there.
LEMMA StillShort ==
  ASSUME IInv, total' = total,
         \A o \in Run : Items(o) \subseteq Items(o)',
         \A o \in Run : pc'[o] = "done" => \/ pc[o] = "done" /\ results'[o] = results[o]
                                           \/ ~(Len(results'[o]) < total[o])
  PROVE  ShortOnlyIfFinished'
<1> SUFFICES ASSUME NEW o \in Run, pc'[o] = "done", Len(results'[o]) < total'[o], NEW x \in Own(o)'
             PROVE  \E b \in Run : x \in Items(b)'
  BY DEF ShortOnlyIfFinished
<1>1. pc[o] = "done" /\ Len(results[o]) < total[o] /\ x \in Own(o)
  BY DEF Own
<1>2. PICK b \in Run : x \in Items(b)
  BY <1>1 DEF IInv, ShortOnlyIfFinished
<1> QED
  BY <1>2

LEMMA KeepMove ==
  ASSUME IInv, NEW r \in Run,
         EndEnqueue(r) \/ DequeueNothing(r) \/ LookQueued(r) \/ LookRunning(r) \/ Unwind(r)
  PROVE  IInv'
<1>0. total' = total /\ sent' = sent /\ holds' = holds /\ results' = results
      /\ queue' = queue /\ running' = running
  BY DEF EndEnqueue, DequeueNothing, LookQueued, LookRunning, Unwind, mq
<1>t. pc \in [Run -> Labels]
  BY DEF IInv, TypeOK
<1>s. \A o \in Run :
        /\ sent[o] <= total[o]
        /\ pc[o] \notin {"enqueue", "unwound"} => sent[o] = total[o]
        /\ pc[o] = "enqueue" => results[o] = <<>>
        /\ pc[o] = "executing" => holds[o] # <<>>
        /\ holds[o] # <<>> => pc[o] \in {"executing", "unwound"}
        /\ pc[o] = "waiting" => \A i \in DOMAIN queue : queue[i].run # o
  BY DEF IInv, Stages
<1>i. \A o \in Run : Items(o)' = Items(o)
  BY <1>0 DEF Items
<1>1. CASE EndEnqueue(r)
  <2>1. pc' = [pc EXCEPT ![r] = "dequeue"] /\ pc[r] = "enqueue" /\ sent[r] = total[r] /\ "dequeue" \in Labels
    BY <1>1 DEF EndEnqueue, Goto, Labels
  <2>2. Stages'
    BY <1>0, <1>t, <1>s, <2>1 DEF Stages
  <2>3. ShortOnlyIfFinished'
    BY <1>0, <1>t, <1>i, <2>1, StillShort
  <2> QED
    BY <1>0, <2>1, <2>2, <2>3, Moved DEF mq
<1>2. CASE DequeueNothing(r)
  <2>1. pc' = [pc EXCEPT ![r] = "drained"] /\ pc[r] = "dequeue" /\ "drained" \in Labels
    BY <1>2 DEF DequeueNothing, Goto, Labels
  <2>2. Stages'
    BY <1>0, <1>t, <1>s, <2>1 DEF Stages
  <2>3. ShortOnlyIfFinished'
    BY <1>0, <1>t, <1>i, <2>1, StillShort
  <2> QED
    BY <1>0, <2>1, <2>2, <2>3, Moved DEF mq
<1>3. CASE LookQueued(r)
  <2> DEFINE l == IF queue = <<>> THEN "waiting" ELSE "dequeue"
  <2>1. pc' = [pc EXCEPT ![r] = l] /\ pc[r] = "drained" /\ l \in Labels
    BY <1>3 DEF LookQueued, Goto, Labels
  <2>2. l \in {"waiting", "dequeue"} /\ (l = "waiting" => DOMAIN queue = {})
    OBVIOUS
  <2> HIDE DEF l
  <2>3. Stages'
    BY <1>0, <1>t, <1>s, <2>1, <2>2 DEF Stages
  <2>4. ShortOnlyIfFinished'
    BY <1>0, <1>t, <1>i, <2>1, <2>2, StillShort
  <2> QED
    BY <1>0, <2>1, <2>3, <2>4, Moved DEF mq
<1>4. CASE LookRunning(r)
  <2> DEFINE l == IF running = 0 THEN "done" ELSE "dequeue"
  <2>1. pc' = [pc EXCEPT ![r] = l] /\ pc[r] = "waiting" /\ l \in Labels
    BY <1>4 DEF LookRunning, Goto, Labels
  <2>2. l \in {"done", "dequeue"} /\ (l = "done" => running = 0)
    OBVIOUS
  <2> HIDE DEF l
  <2>3. Stages'
    BY <1>0, <1>t, <1>s, <2>1, <2>2 DEF Stages
  <2>4. ShortOnlyIfFinished'
    <3>1. CASE l = "dequeue"
      BY <1>0, <1>t, <1>i, <2>1, <3>1, StillShort
    <3>2. CASE l = "done"
      <4>1. \A o \in Run : holds[o] = <<>>
        <5>1. running = 0 /\ running = Cardinality({o \in Run : holds[o] # <<>>})
          BY <2>2, <3>2 DEF IInv, RunningCounted
        <5>2. IsFiniteSet({o \in Run : holds[o] # <<>>})
          BY QueueAssumption, FS_Subset
        <5>3. {o \in Run : holds[o] # <<>>} = {}
          BY <5>1, <5>2, FS_EmptySet
        <5> QED
          BY <5>3
      <4>2. ASSUME NEW x \in Own(r) PROVE \E o \in Run : x \in Items(o)
        <5>1. x.run = r /\ x.step \in 1 .. total[r] /\ total[r] \in 0 .. MaxSteps /\ MaxSteps \in Nat
          BY Typed DEF Own, IInv
        <5>2. x \in Item /\ x.step <= sent[x.run]
          <6>1. sent[r] = total[r]
            BY <1>s, <2>1
          <6>2. x \in Item
            BY <5>1 DEF Own, Item
          <6> QED
            BY <5>1, <6>1, <6>2
        <5>3. PICK p \in Places(x) : TRUE
          BY <5>2 DEF IInv, Once
        <5>4. ~ \E i \in DOMAIN queue : queue[i] = x
          BY <1>s, <2>1, <5>1
        <5>5. ~ \E o \in Run : holds[o] = <<x>>
          BY <4>1
        <5>6. PICK o \in Run : \E i \in DOMAIN results[o] : results[o][i].item = x
          BY <5>3, <5>4, <5>5, InPlaces
        <5> QED
          BY <5>6 DEF Items
      <4>3. \A o \in Run : Own(o)' = Own(o) /\ (o # r => pc'[o] = pc[o])
        BY <1>0, <1>t, <2>1 DEF Own
      <4> QED
        BY <1>0, <1>i, <4>2, <4>3 DEF IInv, ShortOnlyIfFinished
    <3> QED
      BY <2>2, <3>1, <3>2
  <2> QED
    BY <1>0, <2>1, <2>3, <2>4, Moved DEF mq
<1>5. CASE Unwind(r)
  <2>1. /\ pc' = [pc EXCEPT ![r] = "unwound"] /\ "unwound" \in Labels
        /\ pc[r] \in {"enqueue", "dequeue", "drained", "executing"}
    BY <1>5 DEF Unwind, Goto, Labels
  <2>2. Stages'
    BY <1>0, <1>t, <1>s, <2>1 DEF Stages
  <2>3. ShortOnlyIfFinished'
    BY <1>0, <1>t, <1>i, <2>1, StillShort
  <2> QED
    BY <1>0, <2>1, <2>2, <2>3, Moved DEF mq
<1> QED
  BY <1>1, <1>2, <1>3, <1>4, <1>5

(***************************************************************************)
(* Steps that move an item.                                                *)
(***************************************************************************)

LEMMA KeepEnqueue == ASSUME IInv, NEW r \in Run, Enqueue(r) PROVE IInv'
<1>x. PICK x : x = [run |-> r, step |-> sent[r] + 1]
  OBVIOUS
<1>0. /\ pc[r] = "enqueue" /\ sent[r] < total[r] /\ sent' = [sent EXCEPT ![r] = sent[r] + 1]
      /\ queue' = Append(queue, x)
      /\ total' = total /\ pc' = pc /\ holds' = holds /\ results' = results /\ running' = running
  BY <1>x DEF Enqueue
<1>1. /\ MaxSteps \in Nat /\ total[r] \in 0 .. MaxSteps /\ sent[r] \in 0 .. MaxSteps /\ queue \in Seq(Item)
      /\ sent \in [Run -> 0 .. MaxSteps]
  BY Typed DEF IInv, TypeOK
<1>2. x \in Item /\ x.run = r /\ x.step = sent[r] + 1
  BY <1>x, <1>0, <1>1 DEF Item
<1> DEFINE n == Len(queue)
<1>3. /\ queue' \in Seq(Item) /\ n \in Nat
      /\ DOMAIN queue = 1 .. n /\ DOMAIN queue' = 1 .. n + 1
      /\ \A i \in 1 .. n : queue'[i] = queue[i]
      /\ queue'[n + 1] = x
  BY <1>0, <1>1, <1>2, QueueAppend
<1> HIDE DEF n
<1>4. /\ \A i \in 1 .. n + 1 : i \in 1 .. n \/ i = n + 1
      /\ 1 .. n \subseteq 1 .. n + 1 /\ n + 1 \in 1 .. n + 1 /\ n + 1 \notin 1 .. n
  BY <1>3
<1>5. /\ sent' \in [Run -> 0 .. MaxSteps] /\ sent'[r] = sent[r] + 1
      /\ \A o \in Run \ {r} : sent'[o] = sent[o]
  BY <1>0, <1>1
<1>6. TypeOK'
  BY <1>0, <1>3, <1>5 DEF IInv, TypeOK
<1>7. Stages'
  <2>1. ASSUME NEW o \in Run, pc[o] = "waiting" PROVE \A i \in DOMAIN queue' : queue'[i].run # o
    <3>1. o # r
      BY <1>0, <2>1
    <3> QED
      BY <1>2, <1>3, <1>4, <2>1, <3>1 DEF IInv, Stages
  <2>2. \A o \in Run : sent'[o] <= total[o]
    BY <1>0, <1>1, <1>5 DEF IInv, Stages
  <2> QED
    BY <1>0, <1>5, <2>1, <2>2 DEF IInv, Stages
<1>8. Once'
  <2>1. ASSUME NEW y \in Item
        PROVE  Places(y)' = Places(y) \cup (IF y = x THEN {<<"queue", n + 1>>} ELSE {})
    <3>1. {i \in DOMAIN queue' : queue'[i] = y} =
          {i \in DOMAIN queue : queue[i] = y} \cup (IF y = x THEN {n + 1} ELSE {})
      BY <1>3, <1>4
    <3> QED
      BY <1>0, <3>1 DEF Places
  <2>2. ASSUME NEW y \in Item, y # x
        PROVE  Places(y)' = Places(y) /\ (y.step <= sent'[y.run] <=> y.step <= sent[y.run])
    <3>1. Places(y)' = Places(y)
      BY <2>1, <2>2
    <3>2. y.run \in Run /\ y.step \in Nat /\ y = [run |-> y.run, step |-> y.step]
      BY Typed DEF IInv
    <3>3. y.run = r => y.step # sent[r] + 1
      BY <1>x, <2>2, <3>2
    <3>4. y.step <= sent'[y.run] <=> y.step <= sent[y.run]
      <4>1. CASE y.run = r
        BY <1>1, <1>5, <3>2, <3>3, <4>1
      <4>2. CASE y.run # r
        BY <1>5, <3>2, <4>2
      <4> QED
        BY <4>1, <4>2
    <3> QED
      BY <3>1, <3>4
  <2>3. Places(x)' = {<<"queue", n + 1>>} /\ x.step <= sent'[x.run]
    <3>1. ~(x.step <= sent[x.run]) /\ x.step <= sent'[x.run]
      BY <1>1, <1>2, <1>5
    <3>2. Places(x) = {}
      BY <1>2, <3>1 DEF IInv, Once
    <3> QED
      BY <1>2, <2>1, <3>1, <3>2
  <2>4. ASSUME NEW y \in Item
        PROVE  IF y.step <= sent'[y.run] THEN \E p \in Places(y)' : Places(y)' = {p}
                                         ELSE Places(y)' = {}
    <3>1. CASE y = x
      BY <2>3, <3>1
    <3>2. CASE y # x
      BY <2>2, <3>2 DEF IInv, Once
    <3> QED
      BY <3>1, <3>2
  <2> QED
    BY <2>4 DEF Once
<1>9. Ordered'
  <2>0. TypeOK /\ Once
    BY DEF IInv
  <2>1. \A i \in 1 .. n : Before(queue[i], x)
    <3>1. \A i \in 1 .. n : queue[i].run = r => queue[i].step <= sent[r] /\ queue[i].step \in Nat
      BY <1>3, <2>0, Known, Typed
    <3> QED
      BY <1>1, <1>2, <3>1 DEF Before
  <2>2. \A o \in Run : /\ holds[o] # <<>> => Before(holds[o][1], x)
                       /\ \A k \in DOMAIN results[o] : Before(results[o][k].item, x)
    <3>1. \A y \in Item : y.step <= sent[y.run] => Before(y, x)
      BY <1>1, <1>2, <2>0, Typed DEF Before
    <3> QED
      BY <2>0, <3>1, Known, Typed
  <2>3. \A i, j \in 1 .. n + 1 : i < j => Before(queue'[i], queue'[j])
    <3>1. \A i, j \in 1 .. n + 1 : i < j => i \in 1 .. n
      BY <1>3
    <3> QED
      BY <1>3, <1>4, <2>1, <3>1 DEF IInv, Ordered
  <2>4. \A o \in Run, i \in 1 .. n + 1 :
          /\ holds[o] # <<>> => Before(holds[o][1], queue'[i])
          /\ \A k \in DOMAIN results[o] : Before(results[o][k].item, queue'[i])
    BY <1>3, <1>4, <2>2 DEF IInv, Ordered
  <2>5. TakenInOrder' /\ \A o \in Run : \A k \in DOMAIN results[o] :
                            holds[o] # <<>> => Before(results[o][k].item, holds[o][1])
    BY <1>0 DEF IInv, Ordered, TakenInOrder
  <2> QED
    BY <1>0, <1>3, <2>3, <2>4, <2>5 DEF Ordered, Before
<1>10. RunningCounted'
  BY <1>0 DEF IInv, RunningCounted
<1>11. ShortOnlyIfFinished'
  BY <1>0 DEF IInv, ShortOnlyIfFinished, Own, Items
<1> QED
  BY <1>6, <1>7, <1>8, <1>9, <1>10, <1>11 DEF IInv

LEMMA KeepDequeue == ASSUME IInv, NEW r \in Run, dequeue(r) PROVE IInv'
<1>0. /\ pc[r] = "dequeue" /\ ~AtCap /\ queue # <<>> /\ queue' = Tail(queue) /\ running' = running + 1
      /\ holds' = [holds EXCEPT ![r] = <<Head(queue)>>] /\ pc' = [pc EXCEPT ![r] = "executing"]
      /\ total' = total /\ sent' = sent /\ results' = results
  BY DEF dequeue, Goto
<1> DEFINE n == Len(queue)
<1>1. /\ n \in Nat /\ n > 0 /\ Head(queue) = queue[1] /\ queue[1] \in Item
      /\ DOMAIN queue = 1 .. n /\ queue' \in Seq(Item)
      /\ DOMAIN queue' = 1 .. n - 1
      /\ \A i \in 1 .. n - 1 : queue'[i] = queue[i + 1]
  <2>1. queue \in Seq(Item) /\ queue # <<>>
    BY <1>0 DEF IInv, TypeOK
  <2>2. /\ n \in Nat /\ n > 0 /\ Head(queue) = queue[1] /\ queue[1] \in Item
        /\ DOMAIN queue = 1 .. n /\ Tail(queue) \in Seq(Item)
        /\ DOMAIN Tail(queue) = 1 .. n - 1
        /\ \A i \in 1 .. n - 1 : Tail(queue)[i] = queue[i + 1]
    BY <2>1, TailShape
  <2> QED
    BY <1>0, <2>2
<1>h. PICK h \in Item : h = queue[1]
  BY <1>1
<1> HIDE DEF n
<1>2. 1 \in 1 .. n /\ \A i \in 1 .. n - 1 : i + 1 \in 1 .. n /\ 1 < i + 1
  BY <1>1
<1>3. holds[r] = <<>>
  BY <1>0 DEF IInv, Stages
<1>4. /\ holds' \in [Run -> {<<>>} \cup {<<x>> : x \in Item}] /\ holds'[r] = <<h>>
      /\ \A o \in Run \ {r} : holds'[o] = holds[o]
      /\ pc' \in [Run -> Labels] /\ pc'[r] = "executing" /\ \A o \in Run \ {r} : pc'[o] = pc[o]
  <2>1. /\ holds \in [Run -> {<<>>} \cup {<<x>> : x \in Item}] /\ pc \in [Run -> Labels]
        /\ holds' = [holds EXCEPT ![r] = <<h>>] /\ <<h>> \in {<<x>> : x \in Item}
    BY <1>0, <1>1, <1>h DEF IInv, TypeOK
  <2> QED
    BY <1>0, <2>1 DEF Labels
<1>c. running' = Cardinality({o \in Run : holds'[o] # <<>>}) /\ running' \in 0 .. Cardinality(Run)
  <2> DEFINE A == {o \in Run : holds[o] # <<>>}
             B == {o \in Run : holds'[o] # <<>>}
  <2>1. IsFiniteSet(A) /\ IsFiniteSet(B) /\ Cardinality(B) <= Cardinality(Run)
        /\ Cardinality(Run) \in Nat /\ Cardinality(B) \in Nat
    BY QueueAssumption, FS_Subset, FS_CardinalityType
  <2>2. B = A \cup {r} /\ r \notin A
    <3>1. holds'[r] # <<>> /\ \A o \in Run \ {r} : holds'[o] = holds[o]
      BY <1>4
    <3> QED
      BY <1>3, <3>1
  <2> HIDE DEF A, B
  <2>3. Cardinality(B) = Cardinality(A) + 1
    BY <2>1, <2>2, FS_AddElement
  <2>4. running = Cardinality(A)
    BY DEF IInv, RunningCounted, A
  <2> QED
    BY <1>0, <2>1, <2>3, <2>4 DEF B
<1>5. TypeOK'
  BY <1>0, <1>1, <1>4, <1>c DEF IInv, TypeOK
<1>6. Stages'
  <2>1. ASSUME NEW o \in Run, pc[o] = "waiting" PROVE \A i \in DOMAIN queue' : queue'[i].run # o
    BY <1>1, <1>2, <2>1 DEF IInv, Stages
  <2>2. holds'[r] # <<>>
    BY <1>4
  <2> QED
    BY <1>0, <1>4, <2>1, <2>2 DEF IInv, Stages
<1>7. Once'
  <2>o. \A y \in Item : IF y.step <= sent[y.run] THEN \E p \in Places(y) : Places(y) = {p}
                                               ELSE Places(y) = {}
    BY DEF IInv, Once
  <2>1. Places(h)' = {<<"holds", r>>} /\ h.step <= sent[h.run]
    <3>1. <<"queue", 1>> \in Places(h)
      BY <1>1, <1>2, <1>h, InPlaces
    <3>2. h.step <= sent[h.run] /\ Places(h) = {<<"queue", 1>>}
      BY <2>o, <3>1
    <3>3. ASSUME NEW i \in 1 .. n - 1 PROVE queue'[i] # h
      <4>1. queue[i + 1] = h => <<"queue", i + 1>> \in Places(h)
        BY <1>1, <1>2, InPlaces
      <4>2. <<"queue", i + 1>> # <<"queue", 1>>
        BY <1>2
      <4> QED
        BY <1>1, <3>2, <4>1, <4>2
    <3>4. ASSUME NEW o \in Run, o # r PROVE holds'[o] # <<h>>
      <4>1. holds[o] = <<h>> => <<"holds", o>> \in Places(h)
        BY InPlaces
      <4>2. <<"holds", o>> # <<"queue", 1>>
        OBVIOUS
      <4> QED
        BY <1>4, <3>2, <3>4, <4>1, <4>2
    <3>5. ASSUME NEW o \in Run, NEW k \in DOMAIN results[o] PROVE results[o][k].item # h
      <4>1. results[o][k].item = h => <<"results", o, k>> \in Places(h)
        BY InPlaces
      <4>2. <<"results", o, k>> # <<"queue", 1>>
        OBVIOUS
      <4> QED
        BY <3>2, <4>1, <4>2
    <3>6. /\ {i \in DOMAIN queue' : queue'[i] = h} = {}
          /\ {o \in Run : holds'[o] = <<h>>} = {r}
          /\ \A o \in Run : {k \in DOMAIN results'[o] : results'[o][k].item = h} = {}
      BY <1>0, <1>1, <1>4, <3>3, <3>4, <3>5
    <3>7. Places(h)' = {<<"holds", r>>}
      BY <3>6 DEF Places
    <3> QED
      BY <3>2, <3>7
  <2>2. ASSUME NEW y \in Item, y # h
        PROVE  IF y.step <= sent[y.run] THEN \E p \in Places(y)' : Places(y)' = {p}
                                        ELSE Places(y)' = {}
    <3> DEFINE Q  == {i \in DOMAIN queue : queue[i] = y}
               Q1 == {i \in DOMAIN queue' : queue'[i] = y}
               R  == {<<"holds", o>> : o \in {o \in Run : holds[o] = <<y>>}}
                     \cup (UNION {{<<"results", o, i>> :
                                     i \in {i \in DOMAIN results[o] : results[o][i].item = y}} :
                                  o \in Run})
    <3>1. Places(y) = {<<"queue", i>> : i \in Q} \cup R
      BY DEF Places
    <3>2. Places(y)' = {<<"queue", i>> : i \in Q1} \cup R
      <4>1. {o \in Run : holds'[o] = <<y>>} = {o \in Run : holds[o] = <<y>>}
        BY <1>3, <1>4, <2>2
      <4> QED
        BY <1>0, <4>1 DEF Places
    <3>3. Q1 = {i - 1 : i \in Q}
      <4>1. \A i \in Q : i \in 1 .. n /\ i # 1 /\ i - 1 \in 1 .. n - 1 /\ (i - 1) + 1 = i
        BY <1>1, <1>h, <2>2
      <4>2. \A i \in Q1 : i \in 1 .. n - 1 /\ i + 1 \in Q /\ (i + 1) - 1 = i
        BY <1>1, <1>2
      <4>3. \A i \in Q : i - 1 \in Q1
        BY <1>1, <4>1
      <4> HIDE DEF Q, Q1
      <4> QED
        BY <4>2, <4>3
    <3> HIDE DEF Q, Q1, R
    <3>4. CASE y.step <= sent[y.run]
      <4>1. PICK p \in Places(y) : Places(y) = {p}
        BY <2>o, <3>4
      <4>2. CASE p \in R
        <5>1. Q = {}
          <6>1. \A i \in Q : <<"queue", i>> = p
            BY <3>1, <4>1
          <6>2. \A i \in Q : <<"queue", i>> \notin R
            BY DEF R
          <6> QED
            BY <4>2, <6>1, <6>2
        <5>2. R = {p}
          BY <3>1, <4>1, <4>2
        <5>3. Places(y)' = {p}
          BY <3>2, <3>3, <5>1, <5>2
        <5> QED
          BY <3>4, <5>3
      <4>3. CASE p \notin R
        <5>1. R = {}
          BY <3>1, <4>1, <4>3
        <5>2. PICK i \in Q : p = <<"queue", i>>
          BY <3>1, <4>1, <4>3
        <5>3. Q = {i}
          <6>1. \A j \in Q : <<"queue", j>> = <<"queue", i>>
            BY <3>1, <4>1, <5>2
          <6> QED
            BY <6>1, <5>2
        <5>4. Q1 = {i - 1}
          BY <3>3, <5>3
        <5>5. Places(y)' = {<<"queue", i - 1>>}
          BY <3>2, <5>1, <5>4
        <5> QED
          BY <3>4, <5>5
      <4> QED
        BY <4>2, <4>3
    <3>5. CASE ~(y.step <= sent[y.run])
      <4>1. Q = {} /\ R = {}
        BY <2>o, <3>1, <3>5
      <4> QED
        BY <3>2, <3>3, <3>5, <4>1
    <3> QED
      BY <3>4, <3>5
  <2>3. ASSUME NEW y \in Item
        PROVE  IF y.step <= sent'[y.run] THEN \E p \in Places(y)' : Places(y)' = {p}
                                         ELSE Places(y)' = {}
    <3>1. CASE y = h
      BY <1>0, <2>1, <3>1
    <3>2. CASE y # h
      BY <1>0, <2>2, <3>2
    <3> QED
      BY <3>1, <3>2
  <2> QED
    BY <2>3 DEF Once
<1>8. Ordered'
  <2>q. /\ \A i, j \in 1 .. n : i < j => Before(queue[i], queue[j])
        /\ \A o \in Run, i \in 1 .. n :
              /\ holds[o] # <<>> => Before(holds[o][1], queue[i])
              /\ \A k \in DOMAIN results[o] : Before(results[o][k].item, queue[i])
        /\ \A o \in Run : \A k \in DOMAIN results[o] :
              holds[o] # <<>> => Before(results[o][k].item, holds[o][1])
        /\ TakenInOrder
    BY <1>1 DEF IInv, Ordered
  <2>1. \A i, j \in 1 .. n - 1 : i < j => Before(queue'[i], queue'[j])
    <3>1. \A i, j \in 1 .. n - 1 : i < j => i + 1 < j + 1
      BY <1>1
    <3> QED
      BY <1>1, <1>2, <2>q, <3>1
  <2>h. holds'[r][1] = h
    BY <1>4
  <2>2. \A o \in Run, i \in 1 .. n - 1 :
          /\ holds'[o] # <<>> => Before(holds'[o][1], queue'[i])
          /\ \A k \in DOMAIN results[o] : Before(results[o][k].item, queue'[i])
    <3>1. \A i \in 1 .. n - 1 : Before(h, queue'[i])
      BY <1>1, <1>2, <1>h, <2>q
    <3> QED
      BY <1>1, <1>2, <1>4, <2>h, <2>q, <3>1
  <2>3. \A o \in Run : \A k \in DOMAIN results[o] :
          holds'[o] # <<>> => Before(results[o][k].item, holds'[o][1])
    BY <1>2, <1>4, <1>h, <2>h, <2>q
  <2>4. TakenInOrder'
    BY <1>0, <2>q DEF TakenInOrder
  <2> QED
    BY <1>0, <1>1, <2>1, <2>2, <2>3, <2>4 DEF Ordered, Before
<1>9. RunningCounted'
  <2>1. max_concurrent > 0 => running' <= max_concurrent
    <3>1. running \in Nat /\ max_concurrent \in Nat
      <4>1. Cardinality(Run) \in Nat
        BY QueueAssumption, FS_CardinalityType
      <4> QED
        BY <4>1, QueueAssumption DEF IInv, TypeOK
    <3> QED
      BY <1>0, <3>1 DEF AtCap
  <2> QED
    BY <1>c, <2>1 DEF RunningCounted
<1>10. ShortOnlyIfFinished'
  <2>1. \A o \in Run : Items(o)' = Items(o)
    BY <1>0 DEF Items
  <2> QED
    BY <1>0, <1>4, <2>1, StillShort
<1> QED
  BY <1>5, <1>6, <1>7, <1>8, <1>9, <1>10 DEF IInv

LEMMA KeepFinish ==
  ASSUME IInv, NEW r \in Run, NEW st \in {"Completed", "Failed"}, Finish(r, st)
  PROVE  IInv'
<1>3. pc[r] = "executing" /\ holds[r] # <<>>
  BY DEF Finish, IInv, Stages
<1>h. PICK h \in Item : h = holds[r][1] /\ holds[r] = <<h>>
  BY <1>3, Typed DEF IInv
<1> DEFINE e == [item |-> h, status |-> st]
           l == IF Len(results[r]) + 1 >= total[r] THEN "done" ELSE "dequeue"
<1>0. /\ running' = running - 1
      /\ results' = [results EXCEPT ![r] = Append(results[r], e)]
      /\ holds' = [holds EXCEPT ![r] = <<>>] /\ pc' = [pc EXCEPT ![r] = l]
      /\ total' = total /\ sent' = sent /\ queue' = queue
  BY <1>h DEF Finish, Goto
<1>1. e \in Result /\ e.item = h
  BY DEF Result
<1>2. /\ l \in {"done", "dequeue"} /\ l \in Labels
      /\ l = "done" => Len(results[r]) + 1 >= total[r]
  BY DEF Labels
<1> HIDE DEF e, l
<1> DEFINE m == Len(results[r])
<1>4. /\ results' \in [Run -> Seq(Result)]
      /\ m \in Nat /\ DOMAIN results[r] = 1 .. m /\ DOMAIN results'[r] = 1 .. m + 1
      /\ Len(results'[r]) = m + 1
      /\ \A k \in 1 .. m : results'[r][k] = results[r][k]
      /\ results'[r][m + 1] = e
      /\ \A o \in Run \ {r} : results'[o] = results[o]
  <2>1. results \in [Run -> Seq(Result)] /\ results[r] \in Seq(Result)
    BY DEF IInv, TypeOK
  <2>2. results'[r] = Append(results[r], e) /\ \A o \in Run \ {r} : results'[o] = results[o]
    BY <1>0, <2>1
  <2>3. /\ Append(results[r], e) \in Seq(Result)
        /\ m \in Nat /\ DOMAIN results[r] = 1 .. m /\ DOMAIN Append(results[r], e) = 1 .. m + 1
        /\ Len(Append(results[r], e)) = m + 1
        /\ \A k \in 1 .. m : Append(results[r], e)[k] = results[r][k]
        /\ Append(results[r], e)[m + 1] = e
    BY <1>1, <2>1, QueueAppend
  <2>4. results' \in [Run -> Seq(Result)]
    BY <1>0, <2>1, <2>3
  <2> QED
    BY <2>2, <2>3, <2>4
<1> HIDE DEF m
<1>5. /\ holds' \in [Run -> {<<>>} \cup {<<x>> : x \in Item}] /\ holds'[r] = <<>>
      /\ \A o \in Run \ {r} : holds'[o] = holds[o]
      /\ pc' \in [Run -> Labels] /\ pc'[r] = l /\ \A o \in Run \ {r} : pc'[o] = pc[o]
  BY <1>0, <1>2 DEF IInv, TypeOK
<1>m. /\ \A k \in 1 .. m + 1 : k \in 1 .. m \/ k = m + 1
      /\ 1 .. m \subseteq 1 .. m + 1 /\ m + 1 \in 1 .. m + 1 /\ m + 1 \notin 1 .. m
  BY <1>4
<1>c. /\ running' = Cardinality({o \in Run : holds'[o] # <<>>})
      /\ running' \in 0 .. Cardinality(Run) /\ running' <= running /\ running \in Nat
  <2> DEFINE A == {o \in Run : holds[o] # <<>>}
             B == {o \in Run : holds'[o] # <<>>}
  <2>1. IsFiniteSet(A) /\ IsFiniteSet(B) /\ Cardinality(B) <= Cardinality(Run)
        /\ Cardinality(Run) \in Nat /\ Cardinality(B) \in Nat
    BY QueueAssumption, FS_Subset, FS_CardinalityType
  <2>2. A = B \cup {r} /\ r \notin B
    BY <1>3, <1>5
  <2> HIDE DEF A, B
  <2>3. Cardinality(A) = Cardinality(B) + 1
    BY <2>1, <2>2, FS_AddElement
  <2>4. running = Cardinality(A)
    BY DEF IInv, RunningCounted, A
  <2> QED
    BY <1>0, <2>1, <2>3, <2>4 DEF B
<1>6. TypeOK'
  BY <1>0, <1>4, <1>5, <1>c DEF IInv, TypeOK
<1>7. Stages'
  BY <1>0, <1>2, <1>3, <1>4, <1>5 DEF IInv, Stages
<1>8. Once'
  <2>o. \A y \in Item : IF y.step <= sent[y.run] THEN \E p \in Places(y) : Places(y) = {p}
                                               ELSE Places(y) = {}
    BY DEF IInv, Once
  <2>1. Places(h)' = {<<"results", r, m + 1>>} /\ h.step <= sent[h.run]
    <3>1. <<"holds", r>> \in Places(h)
      BY <1>h, InPlaces
    <3>2. h.step <= sent[h.run] /\ Places(h) = {<<"holds", r>>}
      BY <2>o, <3>1
    <3>3. ASSUME NEW i \in DOMAIN queue PROVE queue[i] # h
      <4>1. queue[i] = h => <<"queue", i>> \in Places(h)
        BY InPlaces
      <4>2. <<"queue", i>> # <<"holds", r>>
        OBVIOUS
      <4> QED
        BY <3>2, <4>1, <4>2
    <3>4. ASSUME NEW o \in Run PROVE holds'[o] # <<h>>
      <4>1. CASE o = r
        BY <1>5, <4>1
      <4>2. CASE o # r
        <5>1. holds[o] = <<h>> => <<"holds", o>> \in Places(h)
          BY InPlaces
        <5>2. <<"holds", o>> # <<"holds", r>>
          BY <4>2
        <5> QED
          BY <1>5, <3>2, <4>2, <5>1, <5>2
      <4> QED
        BY <4>1, <4>2
    <3>5. ASSUME NEW o \in Run, NEW k \in DOMAIN results[o] PROVE results[o][k].item # h
      <4>1. results[o][k].item = h => <<"results", o, k>> \in Places(h)
        BY InPlaces
      <4>2. <<"results", o, k>> # <<"holds", r>>
        OBVIOUS
      <4> QED
        BY <3>2, <4>1, <4>2
    <3>6. /\ {i \in DOMAIN queue' : queue'[i] = h} = {}
          /\ {o \in Run : holds'[o] = <<h>>} = {}
          /\ {k \in DOMAIN results'[r] : results'[r][k].item = h} = {m + 1}
          /\ \A o \in Run \ {r} : {k \in DOMAIN results'[o] : results'[o][k].item = h} = {}
      <4>1. {k \in DOMAIN results'[r] : results'[r][k].item = h} = {m + 1}
        BY <1>1, <1>4, <1>m, <3>5
      <4> QED
        BY <1>0, <1>4, <3>3, <3>4, <3>5, <4>1
    <3>7. Places(h)' = {<<"results", r, m + 1>>}
      <4>1. UNION {{<<"results", o, i>> : i \in {i \in DOMAIN results'[o] : results'[o][i].item = h}} :
                     o \in Run} = {<<"results", r, m + 1>>}
        <5>1. ASSUME NEW o \in Run
              PROVE  {<<"results", o, i>> : i \in {i \in DOMAIN results'[o] : results'[o][i].item = h}}
                       = IF o = r THEN {<<"results", r, m + 1>>} ELSE {}
          BY <3>6
        <5> QED
          BY <5>1
      <4> QED
        BY <3>6, <4>1 DEF Places
    <3> QED
      BY <3>2, <3>7
  <2>2. ASSUME NEW y \in Item, y # h PROVE Places(y)' = Places(y)
    <3>1. {o \in Run : holds'[o] = <<y>>} = {o \in Run : holds[o] = <<y>>}
      <4>1. holds[r] # <<y>> /\ holds'[r] # <<y>>
        BY <1>h, <1>5, <2>2
      <4> QED
        BY <1>5, <4>1
    <3>2. ASSUME NEW o \in Run
          PROVE  {k \in DOMAIN results'[o] : results'[o][k].item = y}
                   = {k \in DOMAIN results[o] : results[o][k].item = y}
      <4>1. CASE o = r
        BY <1>1, <1>4, <1>m, <2>2, <4>1
      <4>2. CASE o # r
        BY <1>4, <4>2
      <4> QED
        BY <4>1, <4>2
    <3> QED
      BY <1>0, <3>1, <3>2 DEF Places
  <2>3. ASSUME NEW y \in Item
        PROVE  IF y.step <= sent'[y.run] THEN \E p \in Places(y)' : Places(y)' = {p}
                                         ELSE Places(y)' = {}
    <3>1. CASE y = h
      BY <1>0, <2>1, <3>1
    <3>2. CASE y # h
      BY <1>0, <2>o, <2>2, <3>2
    <3> QED
      BY <3>1, <3>2
  <2> QED
    BY <2>3 DEF Once
<1>9. Ordered'
  <2>q. /\ \A i, j \in DOMAIN queue : i < j => Before(queue[i], queue[j])
        /\ \A o \in Run, i \in DOMAIN queue :
              /\ holds[o] # <<>> => Before(holds[o][1], queue[i])
              /\ \A k \in DOMAIN results[o] : Before(results[o][k].item, queue[i])
        /\ \A o \in Run : \A k \in DOMAIN results[o] :
              holds[o] # <<>> => Before(results[o][k].item, holds[o][1])
        /\ \A o \in Run : \A i, j \in DOMAIN results[o] :
              i < j => Before(results[o][i].item, results[o][j].item)
    BY DEF IInv, Ordered, TakenInOrder, Before
  <2>1. \A o \in Run, i \in DOMAIN queue :
          /\ holds'[o] # <<>> => Before(holds'[o][1], queue[i])
          /\ \A k \in DOMAIN results'[o] : Before(results'[o][k].item, queue[i])
    <3>1. \A i \in DOMAIN queue : Before(h, queue[i])
      BY <1>3, <1>h, <2>q
    <3>2. ASSUME NEW o \in Run, NEW i \in DOMAIN queue
          PROVE  holds'[o] # <<>> => Before(holds'[o][1], queue[i])
      BY <1>4, <1>5, <2>q
    <3>3. ASSUME NEW o \in Run, NEW i \in DOMAIN queue, NEW k \in DOMAIN results'[o]
          PROVE  Before(results'[o][k].item, queue[i])
      <4>1. CASE o # r
        BY <1>4, <2>q, <3>3, <4>1
      <4>2. CASE o = r
        <5>1. k \in 1 .. m + 1
          BY <1>4, <3>3, <4>2
        <5>2. CASE k \in 1 .. m
          BY <1>4, <1>m, <2>q, <3>3, <4>2, <5>2
        <5>3. CASE k = m + 1
          <6>1. results'[o][k].item = h
            BY <1>1, <1>4, <4>2, <5>3
          <6> QED
            BY <3>1, <3>3, <6>1
        <5> QED
          BY <1>m, <5>1, <5>2, <5>3
      <4> QED
        BY <4>1, <4>2
    <3> QED
      BY <3>2, <3>3
  <2>2. \A o \in Run : \A k \in DOMAIN results'[o] :
          holds'[o] # <<>> => Before(results'[o][k].item, holds'[o][1])
    BY <1>4, <1>5, <2>q
  <2>3. \A o \in Run : \A i, j \in DOMAIN results'[o] :
          i < j => Before(results'[o][i].item, results'[o][j].item)
    <3>1. ASSUME NEW i \in 1 .. m + 1, NEW j \in 1 .. m + 1, i < j
          PROVE  Before(results'[r][i].item, results'[r][j].item)
      <4>1. i \in 1 .. m
        BY <1>4, <3>1
      <4>2. CASE j \in 1 .. m
        BY <1>4, <2>q, <3>1, <4>1, <4>2
      <4>3. CASE j = m + 1
        BY <1>1, <1>3, <1>4, <1>h, <2>q, <4>1, <4>3
      <4> QED
        BY <1>m, <4>2, <4>3
    <3> QED
      BY <1>4, <2>q, <3>1
  <2>4. TakenInOrder'
    BY <2>3 DEF TakenInOrder, Before
  <2> QED
    BY <1>0, <2>q, <2>1, <2>2, <2>4 DEF Ordered, Before
<1>10. RunningCounted'
  <2>1. max_concurrent > 0 => running' <= max_concurrent
    <3>1. max_concurrent > 0 => running <= max_concurrent
      BY DEF IInv, RunningCounted
    <3>2. running' \in Nat
      <4>1. Cardinality(Run) \in Nat
        BY QueueAssumption, FS_CardinalityType
      <4> QED
        BY <1>c, <4>1
    <3> QED
      BY <1>c, <3>1, <3>2, QueueAssumption
  <2> QED
    BY <1>c, <2>1 DEF RunningCounted
<1>11. ShortOnlyIfFinished'
  <2>1. \A o \in Run : Items(o) \subseteq Items(o)'
    <3>1. \A o \in Run : \A k \in DOMAIN results[o] :
             k \in DOMAIN results'[o] /\ results'[o][k] = results[o][k]
      BY <1>4, <1>m
    <3> QED
      BY <3>1 DEF Items
  <2>2. l = "done" => ~(Len(results'[r]) < total[r])
    <3>1. total[r] \in Nat
      BY Typed DEF IInv
    <3> QED
      BY <1>2, <1>4, <3>1 DEF m
  <2>3. \A o \in Run : pc'[o] = "done" => \/ pc[o] = "done" /\ results'[o] = results[o]
                                          \/ ~(Len(results'[o]) < total[o])
    BY <1>4, <1>5, <2>2
  <2> QED
    BY <1>0, <2>1, <2>3, StillShort
<1> QED
  BY <1>6, <1>7, <1>8, <1>9, <1>10, <1>11 DEF IInv

(***************************************************************************)
(* Init, Next, and what follows.                                           *)
(***************************************************************************)

LEMMA InitIInv == Init => IInv
<1> SUFFICES ASSUME Init PROVE IInv
  OBVIOUS
<1>0. /\ total \in [Run -> 0 .. MaxSteps] /\ pc = [r \in Run |-> "enqueue"] /\ sent = [r \in Run |-> 0]
      /\ holds = [r \in Run |-> <<>>] /\ results = [r \in Run |-> <<>>]
      /\ queue = <<>> /\ running = 0
  BY DEF Init
<1>1. MaxSteps \in Nat /\ max_concurrent \in Nat /\ Cardinality(Run) \in Nat
  BY QueueAssumption, FS_CardinalityType
<1>2. TypeOK
  <2>1. results \in [Run -> Seq(Result)] /\ queue \in Seq(Item)
    BY <1>0
  <2>2. sent \in [Run -> 0 .. MaxSteps] /\ running \in 0 .. Cardinality(Run) /\ pc \in [Run -> Labels]
    BY <1>0, <1>1 DEF Labels
  <2>3. holds \in [Run -> {<<>>} \cup {<<x>> : x \in Item}]
    BY <1>0
  <2> QED
    BY <1>0, <2>1, <2>2, <2>3 DEF TypeOK
<1>3. Stages
  BY <1>0, <1>1 DEF Stages
<1>4. \A x : Places(x) = {}
  <2> SUFFICES ASSUME NEW x, NEW p, p \in Places(x) PROVE FALSE
    OBVIOUS
  <2>1. DOMAIN queue = {} /\ \A r \in Run : DOMAIN results[r] = {} /\ holds[r] # <<x>>
    BY <1>0
  <2> QED
    BY <2>1, InPlaces
<1>5. Once
  <2>1. \A x \in Item : ~(x.step <= sent[x.run])
    BY <1>0, <1>1 DEF Item
  <2> QED
    BY <1>4, <2>1 DEF Once
<1>6. Ordered
  BY <1>0 DEF Ordered, TakenInOrder
<1>7. RunningCounted
  <2>1. {r \in Run : holds[r] # <<>>} = {}
    BY <1>0
  <2>2. Cardinality({}) = 0
    BY FS_EmptySet
  <2>3. max_concurrent > 0 => running <= max_concurrent
    BY <1>0, <1>1
  <2> QED
    BY <1>0, <2>1, <2>2, <2>3 DEF RunningCounted
<1>8. ShortOnlyIfFinished
  BY <1>0 DEF ShortOnlyIfFinished
<1> QED
  BY <1>2, <1>3, <1>5, <1>6, <1>7, <1>8 DEF IInv

LEMMA NextIInv == IInv /\ [Next]_vars => IInv'
<1> SUFFICES ASSUME IInv, [Next]_vars PROVE IInv'
  OBVIOUS
<1>1. ASSUME NEW r \in Run, run_queued(r) \/ Unwind(r) PROVE IInv'
  <2>1. CASE Enqueue(r)
    BY <2>1, KeepEnqueue
  <2>2. CASE dequeue(r)
    BY <2>2, KeepDequeue
  <2>3. CASE EndEnqueue(r) \/ DequeueNothing(r) \/ LookQueued(r) \/ LookRunning(r) \/ Unwind(r)
    BY <2>3, KeepMove
  <2>4. CASE \E st \in {"Completed", "Failed"} : Finish(r, st)
    BY <2>4, KeepFinish
  <2> QED
    BY <1>1, <2>1, <2>2, <2>3, <2>4 DEF run_queued
<1>2. CASE UNCHANGED vars
  <2>1. /\ total' = total /\ pc' = pc /\ sent' = sent /\ holds' = holds /\ results' = results
        /\ queue' = queue /\ running' = running
    BY <1>2 DEF vars, mq
  <2>2. TypeOK' /\ Stages'
    BY <2>1 DEF IInv, TypeOK, Stages
  <2>3. Once'
    <3>1. ASSUME NEW x PROVE Places(x)' = Places(x)
      BY <2>1 DEF Places
    <3> QED
      BY <2>1, <3>1 DEF IInv, Once
  <2>4. Ordered'
    BY <2>1 DEF IInv, Ordered, Before, TakenInOrder
  <2>5. RunningCounted'
    BY <2>1 DEF IInv, RunningCounted
  <2>6. ShortOnlyIfFinished'
    BY <2>1 DEF IInv, ShortOnlyIfFinished, Own, Items
  <2> QED
    BY <2>2, <2>3, <2>4, <2>5, <2>6 DEF IInv
<1> QED
  BY <1>1, <1>2 DEF Next

\* Runs that share a queue keep IInv, whatever they take of each other's steps and
\* whoever is unwound.
THEOREM QueueInvariance == Spec => []IInv
BY InitIInv, NextIInv, PTL DEF Spec

LEMMA OnceCounted == ASSUME IInv PROVE EachStepOnce
<1> SUFFICES ASSUME NEW x \in Item
             PROVE  Cardinality(Places(x)) = IF x.step <= sent[x.run] THEN 1 ELSE 0
  BY DEF EachStepOnce
<1>1. IF x.step <= sent[x.run] THEN \E p \in Places(x) : Places(x) = {p} ELSE Places(x) = {}
  BY DEF IInv, Once
<1>2. Cardinality({}) = 0
  BY FS_EmptySet
<1>3. CASE x.step <= sent[x.run]
  <2>1. PICK p : Places(x) = {p}
    BY <1>1, <1>3
  <2>2. Cardinality({p}) = 1
    BY FS_Singleton
  <2> QED
    BY <1>3, <2>1, <2>2
<1>4. CASE ~(x.step <= sent[x.run])
  BY <1>1, <1>2, <1>4
<1> QED
  BY <1>3, <1>4

\* A run has as many items as steps.
LEMMA OwnCounted ==
  ASSUME TypeOK, NEW r \in Run
  PROVE  IsFiniteSet(Own(r)) /\ Cardinality(Own(r)) = total[r]
<1> DEFINE g == [i \in 1 .. total[r] |-> [run |-> r, step |-> i]]
<1>1. total[r] \in Nat
  BY Typed
<1>2. g \in [1 .. total[r] -> Own(r)]
  BY DEF Own
<1>3. IsInjective(g)
  BY DEF IsInjective
<1>4. \A x \in Own(r) : \E i \in 1 .. total[r] : g[i] = x
  BY DEF Own
<1>5. g \in Bijection(1 .. total[r], Own(r))
  BY <1>2, <1>3, <1>4 DEF Bijection, Injection, Surjection
<1>6. ExistsBijection(1 .. total[r], Own(r))
  BY <1>5 DEF ExistsBijection
<1>7. IsFiniteSet(Own(r))
  BY <1>1, <1>6, FS_NatBijection
<1>8. Cardinality(Own(r)) = total[r]
  BY <1>1, <1>6, FS_CountingElements
<1> QED
  BY <1>7, <1>8

\* A run that was alone took its own steps only.  If it returned short, each of
\* them is reported, and by nobody else; if not, it has no room for another one.
LEMMA AloneOwn == ASSUME IInv PROVE AloneReportsOwn
<1> SUFFICES ASSUME NEW r \in Run, pc[r] = "done",
                    \A o \in Run \ {r} : pc[o] = "enqueue" /\ sent[o] = 0
             PROVE  Items(r) = Own(r)
  BY DEF AloneReportsOwn
<1> DEFINE m == Len(results[r])
<1>0. TypeOK /\ Once
  BY DEF IInv
<1>1. /\ total[r] \in Nat /\ m \in Nat /\ DOMAIN results[r] = 1 .. m
      /\ \A k \in 1 .. m : results[r][k].item \in Item
  BY <1>0, Typed
<1>2. ASSUME NEW k \in 1 .. m PROVE results[r][k].item \in Own(r)
  <2> DEFINE x == results[r][k].item
  <2>1. x \in Item /\ x.step <= sent[x.run]
    BY <1>0, <1>1, Known
  <2>2. x.run \in Run /\ x.step \in 1 .. MaxSteps /\ x.step \in Nat
        /\ x = [run |-> x.run, step |-> x.step]
    BY <1>0, <2>1, Typed
  <2>3. MaxSteps \in Nat /\ sent[r] \in 0 .. MaxSteps /\ sent[r] <= total[r]
    BY <1>0, Typed DEF IInv, Stages
  <2> HIDE DEF x
  <2>4. x.run = r
    BY <2>1, <2>2, QueueAssumption
  <2>5. x.step \in 1 .. total[r]
    BY <1>1, <2>1, <2>2, <2>3, <2>4
  <2>6. x \in Own(r)
    BY <2>2, <2>4, <2>5 DEF Own
  <2> QED
    BY <2>6 DEF x
<1>3. Items(r) \subseteq Own(r)
  BY <1>1, <1>2 DEF Items
<1>4. CASE m < total[r]
  <2>1. \A x \in Own(r) : \E o \in Run : x \in Items(o)
    BY <1>4 DEF IInv, ShortOnlyIfFinished
  <2>2. \A o \in Run \ {r} : results[o] = <<>>
    BY DEF IInv, Stages
  <2>3. \A o \in Run \ {r} : Items(o) = {}
    BY <2>2 DEF Items
  <2> QED
    BY <1>3, <2>1, <2>3
<1>5. CASE ~(m < total[r])
  <2> DEFINE f == [k \in 1 .. m |-> results[r][k].item]
  <2>1. f \in [1 .. m -> Own(r)]
    BY <1>2
  <2>2. ASSUME NEW a \in 1 .. m, NEW b \in 1 .. m, results[r][a].item = results[r][b].item
        PROVE  a = b
    <3> DEFINE x == results[r][a].item
    <3>1. <<"results", r, a>> \in Places(x) /\ <<"results", r, b>> \in Places(x)
      BY <1>1, <2>2, InPlaces
    <3>2. \E p \in Places(x) : Places(x) = {p}
      BY <1>0, <1>1, <3>1 DEF Once
    <3> HIDE DEF x
    <3>3. <<"results", r, a>> = <<"results", r, b>>
      BY <3>1, <3>2
    <3> QED
      BY <3>3
  <2>3. IsInjective(f)
    BY <2>2 DEF IsInjective
  <2>4. f \in Injection(1 .. m, Own(r))
    BY <2>1, <2>3 DEF Injection
  <2>5. IsFiniteSet(Own(r)) /\ Cardinality(Own(r)) = total[r]
    BY <1>0, OwnCounted
  <2>6. Cardinality(1 .. m) = m
    BY <1>1, FS_Interval
  <2> HIDE DEF f
  <2>7. /\ Cardinality(1 .. m) <= Cardinality(Own(r))
        /\ Cardinality(1 .. m) = Cardinality(Own(r)) <=> f \in Surjection(1 .. m, Own(r))
    BY <2>4, <2>5, FS_Injection
  <2>8. m = total[r]
    BY <1>1, <1>5, <2>5, <2>6, <2>7
  <2>9. f \in Surjection(1 .. m, Own(r))
    BY <2>5, <2>6, <2>7, <2>8
  <2>10. \A x \in Own(r) : \E k \in 1 .. m : f[k] = x
    BY <2>9 DEF Surjection
  <2>11. \A x \in Own(r) : x \in Items(r)
    BY <1>1, <2>10 DEF f, Items
  <2> QED
    BY <1>3, <2>11
<1> QED
  BY <1>4, <1>5

\* However many runs share the queue, an enqueued step is queued, at work or
\* reported, and one of these only; the running count is exact and within the
\* cap; steps are taken in flow order; and a run that had the queue to itself
\* reports its own steps and no other.
THEOREM QueueSafe == Spec => []Inv
<1>1. IInv => Inv
  BY OnceCounted, AloneOwn DEF IInv, Ordered, Inv
<1> QED
  BY <1>1, QueueInvariance, PTL

\* A run that returns with fewer results than steps has left none of them
\* behind: each was finished by a run that took it.
THEOREM ShortIsFinished == Spec => []ShortOnlyIfFinished
<1>1. IInv => ShortOnlyIfFinished
  BY DEF IInv
<1> QED
  BY <1>1, QueueInvariance, PTL

-----------------------------------------------------------------------------
(* The quotas of the tenants. *)

\* At the start every bucket is full and nothing was used.
LEMMA TInitInv == TInit => TInv
<1> SUFFICES ASSUME TInit PROVE TInv
  OBVIOUS
<1> USE TenancyAssumption DEF TInit, Nobody, NotRegistered
<1>1. TTypeOK
  BY DEF TTypeOK
<1>2. Balanced
  BY DEF Balanced
<1> QED
  BY <1>1, <1>2 DEF TInv

\* The verdict of the limiter follows the balance of the tenant it is asked
\* about, and keeps it.
LEMMA KeepCheckLimiter ==
    ASSUME TInv, NEW c \in Caller, CheckLimiter(c)
    PROVE  /\ TInv'
           /\ verdict'[c] = "Ok" <=> spent[asking[c].tenant] < Burst + refilled[asking[c].tenant]
<1> USE TenancyAssumption
<1> DEFINE t == asking[c].tenant
<1>0. t \in Tenant
  BY DEF TInv, TTypeOK, CheckLimiter, Nobody
<1>1. /\ bucket[t] \in 0 .. Burst /\ spent[t] \in Nat /\ refilled[t] \in Nat
      /\ bucket[t] + spent[t] = Burst + refilled[t]
  BY <1>0 DEF TInv, TTypeOK, Balanced
<1>2. CASE bucket[t] > 0
  <2>1. /\ bucket' = [bucket EXCEPT ![t] = @ - 1]
        /\ spent' = [spent EXCEPT ![t] = @ + 1]
        /\ verdict' = [verdict EXCEPT ![c] = "Ok"]
    BY <1>2 DEF CheckLimiter, limiter_key
  <2>2. TTypeOK'
    <3>1. bucket[t] - 1 \in 0 .. Burst /\ spent[t] + 1 \in Nat
      BY <1>1, <1>2
    <3>2. asking' = [asking EXCEPT ![c] = Nobody] /\ registry' = registry /\ refilled' = refilled
      BY DEF CheckLimiter
    <3>3. bucket' \in [Tenant -> 0 .. Burst] /\ spent' \in [Tenant -> Nat]
      BY <1>0, <2>1, <3>1 DEF TInv, TTypeOK
    <3> QED
      BY <2>1, <3>2, <3>3 DEF TInv, TTypeOK
  <2>3. Balanced'
    <3> SUFFICES ASSUME NEW u \in Tenant PROVE bucket'[u] + spent'[u] = Burst + refilled'[u]
      BY DEF Balanced
    <3>1. refilled' = refilled /\ bucket[u] \in 0 .. Burst /\ spent[u] \in Nat /\ refilled[u] \in Nat
      BY DEF TInv, TTypeOK, CheckLimiter
    <3>2. bucket[u] + spent[u] = Burst + refilled[u]
      BY DEF TInv, Balanced
    <3>3. bucket'[u] = (IF u = t THEN bucket[u] - 1 ELSE bucket[u])
      BY <1>0, <2>1 DEF TInv, TTypeOK
    <3>4. spent'[u] = (IF u = t THEN spent[u] + 1 ELSE spent[u])
      BY <1>0, <2>1 DEF TInv, TTypeOK
    <3> HIDE DEF t
    <3> QED
      BY <3>1, <3>2, <3>3, <3>4
  <2>4. verdict'[c] = "Ok"
    BY <2>1 DEF TInv, TTypeOK
  <2>5. spent[t] < Burst + refilled[t]
    BY <1>1, <1>2
  <2> QED
    BY <2>2, <2>3, <2>4, <2>5 DEF TInv
<1>3. CASE ~(bucket[t] > 0)
  <2>1. /\ UNCHANGED <<bucket, spent>>
        /\ verdict' = [verdict EXCEPT ![c] = "rate_limited"]
    BY <1>3 DEF CheckLimiter, limiter_key
  <2>2. TTypeOK'
    BY <2>1 DEF TInv, TTypeOK, CheckLimiter
  <2>3. Balanced'
    BY <2>1 DEF TInv, Balanced, CheckLimiter
  <2>4. verdict'[c] = "rate_limited"
    BY <2>1 DEF TInv, TTypeOK
  <2>5. ~(spent[t] < Burst + refilled[t])
    BY <1>1, <1>3
  <2> QED
    BY <2>2, <2>3, <2>4, <2>5 DEF TInv
<1> QED
  BY <1>2, <1>3

\* Time gives back what the history counts.
LEMMA KeepRefill == ASSUME TInv, NEW t \in Tenant, Refill(t) PROVE TInv'
<1> USE TenancyAssumption
<1>1. bucket[t] \in 0 .. Burst /\ refilled[t] \in Nat /\ spent[t] \in Nat
  BY DEF TInv, TTypeOK
<1>2. TTypeOK'
  <2>1. bucket[t] + 1 \in 0 .. Burst /\ refilled[t] + 1 \in Nat
    BY <1>1 DEF Refill
  <2>2. bucket' \in [Tenant -> 0 .. Burst] /\ refilled' \in [Tenant -> Nat]
    BY <2>1 DEF TInv, TTypeOK, Refill
  <2> QED
    BY <2>2 DEF TInv, TTypeOK, Refill
<1>3. Balanced'
  <2> SUFFICES ASSUME NEW u \in Tenant PROVE bucket'[u] + spent'[u] = Burst + refilled'[u]
    BY DEF Balanced
  <2>1. bucket[u] + spent[u] = Burst + refilled[u]
    BY DEF TInv, Balanced
  <2>2. /\ bucket'[u] = IF u = t THEN bucket[u] + 1 ELSE bucket[u]
        /\ refilled'[u] = IF u = t THEN refilled[u] + 1 ELSE refilled[u]
        /\ spent'[u] = spent[u]
    BY DEF TInv, TTypeOK, Refill
  <2>3. bucket[u] \in 0 .. Burst /\ spent[u] \in Nat /\ refilled[u] \in Nat
    BY DEF TInv, TTypeOK
  <2> QED
    BY <2>1, <2>2, <2>3
<1> QED
  BY <1>2, <1>3 DEF TInv

\* A lookup leaves the buckets alone.
LEMMA KeepLookUp == ASSUME TInv, NEW c \in Caller, NEW t \in Tenant, LookUp(c, t) PROVE TInv'
<1>1. asking' \in [Caller -> {Nobody} \cup [tenant : Tenant]]
  <2>1. [tenant |-> t] \in [tenant : Tenant]
    OBVIOUS
  <2>2. asking' = asking \/ asking' = [asking EXCEPT ![c] = [tenant |-> t]]
    BY DEF LookUp
  <2> QED
    BY <2>1, <2>2 DEF TInv, TTypeOK
<1>2. verdict' \in [Caller -> {"none", "Ok", "not_permitted", "rate_limited"}]
  BY DEF LookUp, TInv, TTypeOK
<1>3. UNCHANGED <<registry, bucket, spent, refilled>>
  BY DEF LookUp
<1> QED
  BY <1>1, <1>2, <1>3 DEF TInv, TTypeOK, Balanced

\* Every step keeps the balance.
LEMMA TNextInv == TInv /\ [TNext]_tvars => TInv'
<1> SUFFICES ASSUME TInv, [TNext]_tvars PROVE TInv'
  OBVIOUS
<1>1. ASSUME NEW t \in Tenant, NEW ctx \in Ctx, register_tenant(t, ctx) PROVE TInv'
  BY <1>1 DEF TInv, TTypeOK, Balanced, register_tenant
<1>2. ASSUME NEW t \in Tenant, deregister_tenant(t) PROVE TInv'
  BY <1>2 DEF TInv, TTypeOK, Balanced, deregister_tenant
<1>3. ASSUME NEW c \in Caller, NEW t \in Tenant, NEW tool \in ToolName,
             check_tenant_tool_access(c, t, tool)
      PROVE  TInv'
  BY <1>3 DEF TInv, TTypeOK, Balanced, check_tenant_tool_access
<1>4. CASE UNCHANGED tvars
  BY <1>4 DEF tvars, TInv, TTypeOK, Balanced
<1> QED
  BY <1>1, <1>2, <1>3, <1>4, KeepLookUp, KeepRefill, KeepCheckLimiter DEF TNext

\* check_tenant_quota in every history: a bucket of TENANT_LIMITER stays in
\* balance with the calls of its own tenant.
THEOREM TenancyInvariant == TSpec => []TInv
BY TInitInv, TNextInv, PTL DEF TSpec

\* No step but CheckLimiter takes a caller out of check_tenant_quota.
LEMMA AnsweredByLimiter ==
    ASSUME TInv, [TNext]_tvars, NEW c \in Caller, asking[c] # Nobody, asking'[c] = Nobody
    PROVE  CheckLimiter(c)
<1>1. \A d \in Caller : CheckLimiter(d) => d = c
  BY DEF CheckLimiter, TInv, TTypeOK
<1>2. \A d \in Caller, t \in Tenant : ~LookUp(d, t)
  BY DEF LookUp, TInv, TTypeOK
<1>3. asking' # asking
  OBVIOUS
<1> QED
  BY <1>1, <1>2, <1>3 DEF TNext, tvars, register_tenant, deregister_tenant, Refill, check_tenant_tool_access

\* check_tenant_quota admits a call exactly if its own tenant has a balance left.
THEOREM QuotasApart == TSpec => TenantsApart
<1>1. ASSUME TInv, [TNext]_tvars
      PROVE  [\A c \in Caller :
                asking[c] # Nobody /\ asking'[c] = Nobody =>
                    LET t == asking[c].tenant
                    IN  verdict'[c] = "Ok" <=> spent[t] < Burst + refilled[t]]_tvars
  BY <1>1, AnsweredByLimiter, KeepCheckLimiter
<1> QED
  BY <1>1, TenancyInvariant, PTL DEF TSpec, TenantsApart

-----------------------------------------------------------------------------
(***************************************************************************)
(* The tools: the file as a sequence of distinct pieces.                   *)
(***************************************************************************)

Distinct(f) == \A i, j \in DOMAIN f : f[i] = f[j] => i = j

\* A write from the start of the file replaces its first piece at most.
LEMMA OverlayShape ==
    ASSUME NEW f \in Seq(Piece), NEW p \in Piece, Distinct(f), p \notin ToSet(f)
    PROVE  /\ Overlay(f, p) \in Seq(Piece) /\ Distinct(Overlay(f, p))
           /\ p \in ToSet(Overlay(f, p)) /\ ToSet(Overlay(f, p)) \subseteq ToSet(f) \cup {p}
<1>1. CASE f = <<>>
  <2>1. Overlay(f, p) = <<p>>
    BY <1>1 DEF Overlay
  <2> QED
    BY <2>1 DEF Distinct, ToSet
<1>2. CASE f # <<>>
  <2> DEFINE g == [f EXCEPT ![1] = p]
  <2>1. Overlay(f, p) = g
    BY <1>2 DEF Overlay
  <2>2. Len(f) \in Nat /\ Len(f) > 0 /\ DOMAIN f = 1 .. Len(f) /\ f \in [1 .. Len(f) -> Piece]
    BY <1>2, LenProperties, EmptySeq
  <2>3. g \in [1 .. Len(f) -> Piece] /\ DOMAIN g = 1 .. Len(f)
    BY <2>2
  <2>4. g[1] = p /\ \A i \in 1 .. Len(f) : i # 1 => g[i] = f[i]
    BY <2>2
  <2>5. g \in Seq(Piece)
    BY <2>2, ExceptSeq
  <2> HIDE DEF g
  <2>6. \A i \in 1 .. Len(f) : f[i] # p
    BY <2>2 DEF ToSet
  <2>7. Distinct(g)
    BY <2>2, <2>3, <2>4, <2>6 DEF Distinct
  <2>8. p \in ToSet(g)
    BY <2>2, <2>3, <2>4 DEF ToSet
  <2>9. ToSet(g) \subseteq ToSet(f) \cup {p}
    BY <2>2, <2>3, <2>4 DEF ToSet
  <2> QED
    BY <2>1, <2>5, <2>7, <2>8, <2>9
<1> QED
  BY <1>1, <1>2

LEMMA AppendShape ==
    ASSUME NEW f \in Seq(Piece), NEW p \in Piece, Distinct(f), p \notin ToSet(f)
    PROVE  /\ Append(f, p) \in Seq(Piece) /\ Distinct(Append(f, p))
           /\ ToSet(Append(f, p)) = ToSet(f) \cup {p}
<1>1. /\ Append(f, p) \in Seq(Piece) /\ Len(f) \in Nat /\ DOMAIN f = 1 .. Len(f)
      /\ DOMAIN Append(f, p) = 1 .. Len(f) + 1
      /\ \A i \in 1 .. Len(f) : Append(f, p)[i] = f[i]
      /\ Append(f, p)[Len(f) + 1] = p
  BY AppendProperties, LenProperties
<1>2. \A i \in 1 .. Len(f) + 1 : i \in 1 .. Len(f) \/ i = Len(f) + 1
  BY <1>1
<1>3. \A i \in 1 .. Len(f) : f[i] # p
  BY <1>1 DEF ToSet
<1>4. Distinct(Append(f, p))
  BY <1>1, <1>2, <1>3 DEF Distinct
<1>5. ToSet(Append(f, p)) = ToSet(f) \cup {p}
  <2>1. ToSet(Append(f, p)) \subseteq ToSet(f) \cup {p}
    BY <1>1, <1>2 DEF ToSet
  <2>2. ToSet(f) \cup {p} \subseteq ToSet(Append(f, p))
    BY <1>1 DEF ToSet
  <2> QED
    BY <2>1, <2>2
<1> QED
  BY <1>1, <1>4, <1>5

\* What a call writes is a piece of its own.
LEMMA WrittenPiece ==
    ASSUME FTypeOK, NEW c \in Client, calls[c] > 0
    PROVE  Written(c) \in Piece /\ Written(c).by = c /\ Written(c).call = calls[c]
BY ToolsAssumption DEF FTypeOK, Piece, Written

\* The answers of a check are answers.
LEMMA CheckType == \A r : Check(r) \in {"Ok"} \cup McpErrorCode
BY DEF Check, validate_path, UrlCheck, McpErrorCode


\* A step that leaves the file alone keeps FIInv, if a call that gets underway is a
\* new one.
LEMMA FileLeftAlone ==
    ASSUME FIInv, FTypeOK', FileUnchanged,
           \A c \in Client :
              /\ calls'[c] = calls[c] \/ (calls'[c] = calls[c] + 1 /\ calls[c] < MaxCalls)
              /\ Underway(c)' /\ calls'[c] = calls[c] => Underway(c)
              /\ fpc'[c] = "fill" => fpc[c] = "fill"
    PROVE  FIInv'
<1>1. /\ exists' = exists /\ file' = file /\ pending' = pending /\ lost' = lost /\ owed' = owed
  BY DEF FileUnchanged
<1>2. FTypeOK /\ WrittenOnce /\ Created
  BY DEF FIInv, WritesSurvive
<1>3. WritesSurvive'
  BY <1>1 DEF FIInv, WritesSurvive
<1>4. Created'
  BY <1>1, <1>2 DEF Created
<1>5. \A c \in Client : calls[c] \in Nat /\ calls'[c] \in Nat
  BY <1>2, ToolsAssumption DEF FTypeOK
<1>6. file \in Seq(Piece) /\ pending \subseteq Piece
  BY <1>2 DEF FTypeOK
<1>7. ToSet(file) \subseteq Piece
  BY <1>6, LenProperties, ElementOfSeq DEF ToSet
<1>8. \A p \in ToSet(file) \cup pending : p.by \in Client /\ p.call \in Nat /\ p.call <= calls[p.by]
  <2>1. \A p \in Piece : p.by \in Client /\ p.call \in Nat
    BY ToolsAssumption DEF Piece
  <2> QED
    BY <1>2, <1>6, <1>7, <2>1 DEF WrittenOnce
<1>9. WrittenOnce'
  <2>1. \A p \in ToSet(file) \cup pending : p.call <= calls'[p.by]
    BY <1>5, <1>8
  <2>2. ASSUME NEW c \in Client, Underway(c)'
        PROVE  calls'[c] > 0 /\ [by |-> c, call |-> calls'[c]] \notin ToSet(file) \cup pending
    <3>1. CASE calls'[c] = calls[c]
      <4>1. Underway(c)
        BY <2>2, <3>1
      <4> QED
        BY <1>2, <3>1, <4>1 DEF WrittenOnce, Written
    <3>2. CASE calls'[c] = calls[c] + 1
      <4>1. ASSUME [by |-> c, call |-> calls'[c]] \in ToSet(file) \cup pending PROVE FALSE
        <5>1. calls'[c] <= calls[c]
          BY <1>8, <4>1
        <5> QED
          BY <1>5, <3>2, <5>1
      <4> QED
        BY <1>5, <3>2, <4>1
    <3> QED
      BY <3>1, <3>2
  <2>3. ToSet(file) \cap pending = {}
    BY <1>2 DEF WrittenOnce
  <2> QED
    BY <1>1, <2>1, <2>2, <2>3 DEF WrittenOnce, Written
<1> QED
  BY <1>3, <1>4, <1>9 DEF FIInv

\* The types of the answer of a client.
LEMMA AnswerTypes ==
    ASSUME FTypeOK, NEW c \in Client, NEW r, r \in {"Ok"} \cup McpErrorCode, Answer(c, r)
    PROVE  /\ reply' \in [Client -> {"none", "Ok"} \cup McpErrorCode]
           /\ fpc' \in [Client -> {"idle", "check", "op", "fill", "answered", "done"}]
           /\ fpc'[c] = "answered" /\ reply'[c] = r
           /\ \A d \in Client : d # c => fpc'[d] = fpc[d] /\ reply'[d] = reply[d]
<1>1. /\ reply' = [reply EXCEPT ![c] = r] /\ fpc' = [fpc EXCEPT ![c] = "answered"]
  BY DEF Answer
<1> QED
  BY <1>1 DEF FTypeOK

\* A call that answers and leaves the file alone, whatever the answer.
LEMMA AnswerLeavesFile ==
    ASSUME FIInv, NEW c \in Client, NEW r, r \in {"Ok"} \cup McpErrorCode, Answer(c, r), FileUnchanged,
           Underway(c), UNCHANGED <<req, calls>>, saw' \in [Client -> Seq(Piece)],
           tokens' \in 0 .. NetBurst, children' \in 0 .. MaxChildren, faults' \in 0 .. MaxFaults
    PROVE  FIInv'
<1>1. FTypeOK
  BY DEF FIInv, WritesSurvive
<1>2. /\ reply' \in [Client -> {"none", "Ok"} \cup McpErrorCode]
      /\ fpc' \in [Client -> {"idle", "check", "op", "fill", "answered", "done"}]
      /\ fpc'[c] = "answered"
      /\ \A d \in Client : d # c => fpc'[d] = fpc[d] /\ reply'[d] = reply[d]
  BY <1>1, AnswerTypes
<1>3. FTypeOK'
  BY <1>1, <1>2 DEF FTypeOK, FileUnchanged
<1>4. \A d \in Client : /\ calls'[d] = calls[d]
                        /\ Underway(d)' => Underway(d)
                        /\ fpc'[d] = "fill" => fpc[d] = "fill"
  BY <1>2 DEF Underway, is_retryable
<1> QED
  BY <1>3, <1>4, FileLeftAlone


\* The steps of a client and of the calls that do not write.
LEMMA KeepQuiet ==
    ASSUME FIInv, NEW c \in Client,
           \/ \E r \in Requests : Send(c, r)
           \/ Heed(c) \/ Refuse(c) \/ Pass(c) \/ CheckPool(c) \/ FileRead(c)
           \/ FileStat(c) \/ DirList(c) \/ PathExists(c)
           \/ Complete(c) \/ Failure(c) \/ Futile(c) \/ TimeOut(c)
    PROVE  FIInv'
<1>0. FTypeOK
  BY DEF FIInv, WritesSurvive
<1>1. /\ saw \in [Client -> Seq(Piece)] /\ tokens \in 0 .. NetBurst /\ children \in 0 .. MaxChildren
      /\ faults \in 0 .. MaxFaults /\ NetBurst \in Nat /\ MaxFaults \in Nat /\ file \in Seq(Piece)
      /\ MaxChildren \in Nat
  BY <1>0, ToolsAssumption DEF FTypeOK
<1>2. ASSUME NEW r \in Requests, Send(c, r) PROVE FIInv'
  <2>1. /\ UNCHANGED <<reply, saw, tokens, children, faults>> /\ FileUnchanged
    BY <1>2 DEF Send
  <2>2. CASE calls[c] < MaxCalls
    <3>1. /\ fpc' = [fpc EXCEPT ![c] = "check"] /\ req' = [req EXCEPT ![c] = r]
          /\ calls' = [calls EXCEPT ![c] = @ + 1]
      BY <1>2, <2>2 DEF Send
    <3>2. calls[c] + 1 \in 0 .. MaxCalls
      BY <1>0, <2>2, ToolsAssumption DEF FTypeOK
    <3>3. FTypeOK'
      BY <1>0, <2>1, <3>1, <3>2 DEF FTypeOK, FileUnchanged
    <3>4. \A d \in Client :
            /\ d # c => calls'[d] = calls[d] /\ fpc'[d] = fpc[d] /\ reply'[d] = reply[d]
            /\ d = c => calls'[d] = calls[d] + 1 /\ fpc'[d] = "check"
      BY <1>0, <2>1, <3>1 DEF FTypeOK
    <3>5. calls[c] \in Int
      BY <1>0, ToolsAssumption DEF FTypeOK
    <3>6. \A d \in Client :
            /\ calls'[d] = calls[d] \/ (calls'[d] = calls[d] + 1 /\ calls[d] < MaxCalls)
            /\ Underway(d)' /\ calls'[d] = calls[d] => Underway(d)
            /\ fpc'[d] = "fill" => fpc[d] = "fill"
      BY <2>2, <3>4, <3>5 DEF Underway
    <3> QED
      BY <1>0, <2>1, <3>3, <3>6, FileLeftAlone
  <2>3. CASE ~(calls[c] < MaxCalls)
    <3>1. fpc' = [fpc EXCEPT ![c] = "done"] /\ UNCHANGED <<req, calls>>
      BY <1>2, <2>3 DEF Send
    <3>2. FTypeOK'
      BY <1>0, <2>1, <3>1 DEF FTypeOK, FileUnchanged
    <3>3. \A d \in Client : /\ calls'[d] = calls[d]
                            /\ Underway(d)' => Underway(d)
                            /\ fpc'[d] = "fill" => fpc[d] = "fill"
      BY <1>0, <2>1, <3>1 DEF FTypeOK, Underway
    <3> QED
      BY <1>0, <2>1, <3>2, <3>3, FileLeftAlone
  <2> QED
    BY <2>2, <2>3
<1>3. CASE Heed(c)
  <2>1. /\ fpc[c] = "answered"
        /\ fpc' = [fpc EXCEPT ![c] = IF is_retryable(reply[c]) THEN "check" ELSE "idle"]
        /\ reply' = [reply EXCEPT ![c] = "none"] /\ saw' = [saw EXCEPT ![c] = <<>>]
        /\ UNCHANGED <<req, calls, tokens, children, faults>> /\ FileUnchanged
    BY <1>3 DEF Heed
  <2>2. saw' \in [Client -> Seq(Piece)]
    BY <1>1, <2>1
  <2>3. FTypeOK'
    BY <1>0, <2>1, <2>2 DEF FTypeOK, FileUnchanged
  <2>4. /\ fpc'[c] = IF is_retryable(reply[c]) THEN "check" ELSE "idle"
        /\ \A d \in Client : d # c => fpc'[d] = fpc[d] /\ reply'[d] = reply[d]
    BY <1>0, <2>1 DEF FTypeOK
  <2>5. \A d \in Client : /\ calls'[d] = calls[d]
                          /\ Underway(d)' => Underway(d)
                          /\ fpc'[d] = "fill" => fpc[d] = "fill"
    BY <2>1, <2>4 DEF Underway
  <2> QED
    BY <1>0, <2>1, <2>3, <2>5, FileLeftAlone
<1>4. CASE Refuse(c)
  <2>1. /\ fpc[c] = "check" /\ Answer(c, Check(req[c]))
        /\ UNCHANGED <<req, calls, saw, tokens, children, faults>> /\ FileUnchanged
    BY <1>4 DEF Refuse
  <2> QED
    BY <1>0, <1>1, <2>1, CheckType, AnswerLeavesFile DEF Underway
<1>5. ASSUME fpc[c] = "check", fpc' = [fpc EXCEPT ![c] = "op"], tokens' \in 0 .. NetBurst,
             UNCHANGED <<req, calls, reply, saw, children, faults>>, FileUnchanged
      PROVE  FIInv'
  <2>1. FTypeOK'
    BY <1>0, <1>5 DEF FTypeOK, FileUnchanged
  <2>2. \A d \in Client : /\ calls'[d] = calls[d]
                          /\ Underway(d)' => Underway(d)
                          /\ fpc'[d] = "fill" => fpc[d] = "fill"
    BY <1>0, <1>5 DEF FTypeOK, Underway
  <2> QED
    BY <1>0, <1>5, <2>1, <2>2, FileLeftAlone
<1>6. CASE Pass(c)
  BY <1>1, <1>5, <1>6 DEF Pass
<1>7. CASE CheckPool(c)
  <2>1. fpc[c] = "check" /\ UNCHANGED <<req, calls, saw, children, faults>> /\ FileUnchanged
    BY <1>7 DEF CheckPool
  <2>2. tokens' \in 0 .. NetBurst
    <3>1. tokens' = tokens \/ (tokens > 0 /\ tokens' = tokens - 1)
      BY <1>7 DEF CheckPool
    <3> QED
      BY <1>1, <3>1
  <2>3. \/ Answer(c, "timeout") \/ Answer(c, "validation")
        \/ fpc' = [fpc EXCEPT ![c] = "op"] /\ UNCHANGED reply
    BY <1>7 DEF CheckPool
  <2>4. {"timeout", "validation"} \subseteq McpErrorCode /\ Underway(c)
    BY <2>1 DEF McpErrorCode, Underway
  <2>5. ASSUME NEW r \in {"timeout", "validation"}, Answer(c, r) PROVE FIInv'
    BY <1>0, <1>1, <2>1, <2>2, <2>4, <2>5, AnswerLeavesFile
  <2> QED
    BY <1>5, <2>1, <2>2, <2>3, <2>5
<1>8. ASSUME NEW r \in {"Ok"} \cup McpErrorCode, fpc[c] \in {"op", "fill"}, Answer(c, r),
             UNCHANGED <<req, calls, tokens>>, FileUnchanged, saw' \in [Client -> Seq(Piece)],
             faults' = faults \/ (faults < MaxFaults /\ faults' = faults + 1),
             children' = children \/ (children < MaxChildren /\ children' = children + 1)
      PROVE  FIInv'
  <2>1. children' \in 0 .. MaxChildren /\ faults' \in 0 .. MaxFaults
    BY <1>0, <1>1, <1>8
  <2>2. Underway(c)
    BY <1>8 DEF Underway
  <2> QED
    BY <1>1, <1>8, <2>1, <2>2, AnswerLeavesFile
<1>9. CASE FileRead(c)
  <2>1. /\ fpc[c] = "op" /\ UNCHANGED <<req, calls, tokens, children, faults>> /\ FileUnchanged
        /\ \/ Answer(c, "Ok") /\ saw' = [saw EXCEPT ![c] = file]
           \/ Answer(c, "io_error") /\ saw' = saw
    BY <1>9 DEF FileRead, At
  <2>2. saw' \in [Client -> Seq(Piece)] /\ "io_error" \in McpErrorCode
    BY <1>1, <2>1 DEF McpErrorCode
  <2> QED
    BY <1>8, <2>1, <2>2
<1>10. CASE FileStat(c) \/ DirList(c) \/ PathExists(c) \/ Complete(c) \/ Futile(c)
  <2>1. /\ fpc[c] = "op" /\ UNCHANGED <<req, calls, saw, tokens, children, faults>> /\ FileUnchanged
        /\ Answer(c, "Ok") \/ Answer(c, "io_error")
    BY <1>10 DEF FileStat, DirList, PathExists, Complete, Futile, AnswerFailure, At
  <2>2. "io_error" \in McpErrorCode
    BY DEF McpErrorCode
  <2> QED
    BY <1>1, <1>8, <2>1, <2>2
<1>11. CASE Failure(c)
  <2>1. /\ fpc[c] \in {"op", "fill"} /\ UNCHANGED <<req, calls, saw, tokens, children>> /\ FileUnchanged
        /\ faults < MaxFaults /\ faults' = faults + 1
        /\ Answer(c, "Ok") \/ Answer(c, "io_error")
    BY <1>11 DEF Failure, AnswerFailure
  <2>2. "io_error" \in McpErrorCode
    BY DEF McpErrorCode
  <2> QED
    BY <1>1, <1>8, <2>1, <2>2
<1>12. CASE TimeOut(c)
  <2>1. /\ fpc[c] = "op" /\ UNCHANGED <<req, calls, saw, tokens>> /\ FileUnchanged
        /\ faults' = faults \/ (faults < MaxFaults /\ faults' = faults + 1)
        /\ children' = children \/ (children < MaxChildren /\ children' = children + 1)
        /\ Answer(c, "timeout")
    BY <1>12 DEF TimeOut
  <2>2. "timeout" \in McpErrorCode
    BY DEF McpErrorCode
  <2> QED
    BY <1>1, <1>8, <2>1, <2>2
<1> QED
  BY <1>2, <1>3, <1>4, <1>6, <1>7, <1>9, <1>10, <1>11, <1>12


\* Facts about the pieces that the steps which write use.
LEMMA Pieces ==
    ASSUME FIInv
    PROVE  /\ file \in Seq(Piece) /\ pending \subseteq Piece /\ ToSet(file) \subseteq Piece
           /\ lost \subseteq Piece /\ owed \subseteq Piece /\ Distinct(file)
           /\ \A p \in Piece : p.by \in Client /\ p.call \in Nat
           /\ \A c \in Client : calls[c] \in Nat
           /\ \A c \in Client : Underway(c) =>
                 /\ Written(c) \in Piece /\ Written(c).by = c /\ Written(c).call = calls[c]
                 /\ Written(c) \notin ToSet(file) /\ Written(c) \notin pending
<1>1. FTypeOK
  BY DEF FIInv, WritesSurvive
<1>2. file \in Seq(Piece) /\ pending \subseteq Piece /\ lost \subseteq Piece /\ owed \subseteq Piece
  BY <1>1 DEF FTypeOK
<1>3. ToSet(file) \subseteq Piece
  BY <1>2, LenProperties, ElementOfSeq DEF ToSet
<1>4. \A c \in Client : calls[c] \in Nat
  BY <1>1, ToolsAssumption DEF FTypeOK
<1>5. \A p \in Piece : p.by \in Client /\ p.call \in Nat
  BY ToolsAssumption DEF Piece
<1>6. Distinct(file)
  BY DEF FIInv, WritesSurvive, Distinct
<1>7. ASSUME NEW c \in Client, Underway(c)
      PROVE  /\ Written(c) \in Piece /\ Written(c).by = c /\ Written(c).call = calls[c]
             /\ Written(c) \notin ToSet(file) /\ Written(c) \notin pending
  <2>1. calls[c] > 0 /\ Written(c) \notin ToSet(file) \cup pending
    BY <1>7 DEF FIInv, WrittenOnce
  <2> QED
    BY <1>1, <2>1, WrittenPiece
<1> QED
  BY <1>2, <1>3, <1>4, <1>5, <1>6, <1>7

\* A step that writes: the pieces it leaves are old ones or the one of a call that
\* ends with it, and every other call is where it was.
LEMMA FileWritten ==
    ASSUME FIInv, FTypeOK', Distinct(file'), calls' = calls,
           NEW W, \A p \in W : p.by \in Client /\ p.call <= calls[p.by],
           ToSet(file') \cup pending' \subseteq ToSet(file) \cup pending \cup W,
           ToSet(file') \cap pending' = {},
           owed' \subseteq ToSet(file') \cup pending' \cup lost',
           exists',
           \A d \in Client : Underway(d)' => Underway(d) /\ Written(d) \notin W
    PROVE  FIInv'
<1>1. WritesSurvive'
  BY DEF WritesSurvive, Distinct
<1>2. Created'
  BY DEF Created
<1>3. \A p \in ToSet(file') \cup pending' : p.call <= calls'[p.by]
  BY DEF FIInv, WrittenOnce
<1>4. ASSUME NEW d \in Client, Underway(d)'
      PROVE  calls'[d] > 0 /\ Written(d)' \notin ToSet(file') \cup pending'
  <2>1. Underway(d) /\ Written(d) \notin W
    BY <1>4
  <2>2. calls[d] > 0 /\ Written(d) \notin ToSet(file) \cup pending
    BY <2>1 DEF FIInv, WrittenOnce
  <2>3. Written(d)' = Written(d)
    BY DEF Written
  <2> QED
    BY <2>1, <2>2, <2>3
<1>5. WrittenOnce'
  BY <1>3, <1>4 DEF WrittenOnce
<1> QED
  BY <1>1, <1>2, <1>5 DEF FIInv

LEMMA KeepTruncate == ASSUME FIInv, NEW c \in Client, Truncate(c) PROVE FIInv'
<1>0. FTypeOK
  BY DEF FIInv, WritesSurvive
<1>1. /\ fpc[c] = "op" /\ exists' = TRUE /\ file' = <<>> /\ owed' = {}
      /\ fpc' = [fpc EXCEPT ![c] = "fill"]
      /\ UNCHANGED <<req, calls, reply, saw, pending, lost, tokens, children, faults>>
  BY DEF Truncate, At
<1>2. file' \in Seq(Piece) /\ Distinct(file') /\ ToSet(file') = {}
  BY <1>1 DEF Distinct, ToSet
<1>3. FTypeOK'
  BY <1>0, <1>1, <1>2 DEF FTypeOK
<1>4. \A d \in Client : Underway(d)' => Underway(d)
  BY <1>0, <1>1 DEF FTypeOK, Underway
<1>5. /\ ToSet(file') \cup pending' \subseteq ToSet(file) \cup pending \cup {}
      /\ ToSet(file') \cap pending' = {}
      /\ owed' \subseteq ToSet(file') \cup pending' \cup lost'
  BY <1>1, <1>2
<1> QED
  BY <1>0, <1>1, <1>2, <1>3, <1>4, <1>5, FileWritten

LEMMA KeepFill == ASSUME FIInv, NEW c \in Client, Fill(c) PROVE FIInv'
<1>0. FTypeOK /\ Created
  BY DEF FIInv, WritesSurvive
<1> DEFINE w == Written(c)
<1>1. /\ fpc[c] = "fill" /\ file' = Overlay(file, w) /\ owed' = {w} /\ Answer(c, "Ok")
      /\ UNCHANGED <<req, calls, saw, exists, pending, lost, tokens, children, faults>>
  BY DEF Fill
<1>2. w \in Piece /\ w.by = c /\ w.call = calls[c] /\ w \notin ToSet(file) /\ w \notin pending
  BY <1>1, Pieces DEF Underway
<1>3. /\ file' \in Seq(Piece) /\ Distinct(file')
      /\ w \in ToSet(file') /\ ToSet(file') \subseteq ToSet(file) \cup {w}
  BY <1>1, <1>2, Pieces, OverlayShape
<1>4. /\ reply' \in [Client -> {"none", "Ok"} \cup McpErrorCode]
      /\ fpc' \in [Client -> {"idle", "check", "op", "fill", "answered", "done"}]
      /\ fpc'[c] = "answered" /\ reply'[c] = "Ok"
      /\ \A d \in Client : d # c => fpc'[d] = fpc[d] /\ reply'[d] = reply[d]
  BY <1>0, <1>1, AnswerTypes
<1>5. FTypeOK'
  BY <1>0, <1>1, <1>2, <1>3, <1>4 DEF FTypeOK
<1>6. exists'
  BY <1>0, <1>1 DEF Created
<1>7. \A d \in Client : Underway(d)' => Underway(d) /\ Written(d) \notin {w}
  BY <1>4 DEF Underway, is_retryable, Written
<1>8. /\ ToSet(file') \cup pending' \subseteq ToSet(file) \cup pending \cup {w}
      /\ owed' \subseteq ToSet(file') \cup pending' \cup lost'
  BY <1>1, <1>3
<1>9. ToSet(file') \cap pending' = {}
  <2>1. ToSet(file) \cap pending = {}
    BY DEF FIInv, WrittenOnce
  <2> QED
    BY <1>1, <1>2, <1>3, <2>1
<1>10. \A p \in {w} : p.by \in Client /\ p.call <= calls[p.by]
  BY <1>2, Pieces
<1> HIDE DEF w
<1>11. calls' = calls
  BY <1>0, <1>1
<1> QED
  BY <1>3, <1>5, <1>6, <1>7, <1>8, <1>9, <1>10, <1>11, FileWritten

LEMMA KeepAppend == ASSUME FIInv, NEW c \in Client, AppendTo(c) PROVE FIInv'
<1>0. FTypeOK
  BY DEF FIInv, WritesSurvive
<1> DEFINE w == Written(c)
<1>1. /\ fpc[c] = "op" /\ exists' = TRUE /\ pending' = pending \cup {w} /\ owed' = owed \cup {w}
      /\ Answer(c, "Ok")
      /\ UNCHANGED <<req, calls, saw, file, lost, tokens, children, faults>>
  BY DEF AppendTo, At
<1>2. w \in Piece /\ w.by = c /\ w.call = calls[c] /\ w \notin ToSet(file) /\ w \notin pending
  BY <1>1, Pieces DEF Underway
<1>4. /\ reply' \in [Client -> {"none", "Ok"} \cup McpErrorCode]
      /\ fpc' \in [Client -> {"idle", "check", "op", "fill", "answered", "done"}]
      /\ fpc'[c] = "answered" /\ reply'[c] = "Ok"
      /\ \A d \in Client : d # c => fpc'[d] = fpc[d] /\ reply'[d] = reply[d]
  BY <1>0, <1>1, AnswerTypes
<1>5. FTypeOK'
  BY <1>0, <1>1, <1>2, <1>4 DEF FTypeOK
<1>7. \A d \in Client : Underway(d)' => Underway(d) /\ Written(d) \notin {w}
  BY <1>4 DEF Underway, is_retryable, Written
<1>8. /\ ToSet(file') \cup pending' \subseteq ToSet(file) \cup pending \cup {w}
      /\ Distinct(file')
  BY <1>1, Pieces
<1>9. /\ ToSet(file') \cap pending' = {}
      /\ owed' \subseteq ToSet(file') \cup pending' \cup lost'
  <2>1. ToSet(file) \cap pending = {} /\ owed \subseteq ToSet(file) \cup pending \cup lost
    BY DEF FIInv, WrittenOnce, WritesSurvive
  <2> QED
    BY <1>1, <1>2, <2>1
<1>10. \A p \in {w} : p.by \in Client /\ p.call <= calls[p.by]
  BY <1>2, Pieces
<1> HIDE DEF w
<1>11. calls' = calls /\ exists'
  BY <1>0, <1>1
<1> QED
  BY <1>5, <1>7, <1>8, <1>9, <1>10, <1>11, FileWritten

\* The background thread: the piece lands or is lost; no client notices.
LEMMA KeepBackground ==
    ASSUME FIInv, NEW q \in pending, Land(q) \/ FailLanding(q)
    PROVE  FIInv'
<1>0. FTypeOK /\ Created
  BY DEF FIInv, WritesSurvive
<1>1. /\ pending' = pending \ {q}
      /\ UNCHANGED <<fpc, req, calls, reply, saw, exists, owed, tokens, children>>
      /\ \/ file' = Append(file, q) /\ lost' = lost /\ faults' = faults
         \/ file' = file /\ lost' = lost \cup {q} /\ faults < MaxFaults /\ faults' = faults + 1
  BY DEF Land, FailLanding
<1>2. ToSet(file) \cap pending = {} /\ owed \subseteq ToSet(file) \cup pending \cup lost
  BY DEF FIInv, WrittenOnce, WritesSurvive
<1>3. q \in Piece /\ q \notin ToSet(file)
  BY <1>2, Pieces
<1>4. /\ Append(file, q) \in Seq(Piece) /\ Distinct(Append(file, q))
      /\ ToSet(Append(file, q)) = ToSet(file) \cup {q}
  BY <1>3, Pieces, AppendShape
<1>5. file' \in Seq(Piece) /\ Distinct(file')
  BY <1>1, <1>4, Pieces
<1>6. /\ ToSet(file') \cup pending' \subseteq ToSet(file) \cup pending \cup {}
      /\ ToSet(file') \cap pending' = {}
      /\ owed' \subseteq ToSet(file') \cup pending' \cup lost'
  BY <1>1, <1>2, <1>4
<1>7. faults' \in 0 .. MaxFaults /\ children' \in 0 .. MaxChildren
  BY <1>0, <1>1, ToolsAssumption DEF FTypeOK
<1>8. FTypeOK'
  BY <1>0, <1>1, <1>3, <1>5, <1>7 DEF FTypeOK
<1>9. \A d \in Client : Underway(d)' => Underway(d)
  BY <1>1 DEF Underway
<1>10. exists' /\ calls' = calls
  BY <1>0, <1>1 DEF Created
<1> QED
  BY <1>5, <1>6, <1>7, <1>8, <1>9, <1>10, FileWritten

LEMMA FInitIInv == FInit => FIInv
<1> SUFFICES ASSUME FInit PROVE FIInv
  OBVIOUS
<1>1. /\ fpc = [c \in Client |-> "idle"] /\ calls = [c \in Client |-> 0]
      /\ req = [c \in Client |-> CHOOSE r \in Requests : TRUE]
      /\ reply = [c \in Client |-> "none"] /\ saw = [c \in Client |-> <<>>]
      /\ exists \in BOOLEAN /\ file = <<>> /\ pending = {} /\ lost = {} /\ owed = {}
      /\ tokens = NetBurst /\ children = 0 /\ faults = 0
  BY DEF FInit
<1>2. (CHOOSE r \in Requests : TRUE) \in Requests
  BY ToolsAssumption
<1>3. file \in Seq(Piece) /\ saw \in [Client -> Seq(Piece)] /\ ToSet(file) = {}
  BY <1>1 DEF ToSet
<1>4. /\ 0 \in 0 .. MaxCalls /\ NetBurst \in 0 .. NetBurst
      /\ 0 \in 0 .. MaxFaults /\ 0 \in 0 .. MaxChildren
  BY ToolsAssumption
<1>5. FTypeOK
  BY <1>1, <1>2, <1>3, <1>4 DEF FTypeOK
<1>6. WritesSurvive
  BY <1>1, <1>3, <1>5 DEF WritesSurvive
<1>7. WrittenOnce /\ Created
  BY <1>1, <1>3 DEF WrittenOnce, Created, Underway
<1> QED
  BY <1>1, <1>6, <1>7 DEF FIInv

LEMMA FNextIInv == FIInv /\ [FNext]_fvars => FIInv'
<1> SUFFICES ASSUME FIInv, [FNext]_fvars PROVE FIInv'
  OBVIOUS
<1>0. FTypeOK
  BY DEF FIInv, WritesSurvive
<1>1. ASSUME NEW c \in Client, Proceed(c) PROVE FIInv'
  BY <1>1, KeepQuiet, KeepTruncate, KeepFill, KeepAppend DEF Proceed, ToolStep
<1>2. ASSUME NEW q \in pending, Land(q) \/ FailLanding(q) PROVE FIInv'
  BY <1>2, KeepBackground
<1>3. CASE RefillPool \/ ChildExits \/ UNCHANGED fvars
  <2>1. /\ UNCHANGED <<fpc, req, calls, reply, saw, faults>> /\ FileUnchanged
        /\ tokens' = tokens \/ (tokens < NetBurst /\ tokens' = tokens + 1)
        /\ children' = children \/ (children > 0 /\ children' = children - 1)
    BY <1>3 DEF RefillPool, ChildExits, fvars, FileUnchanged
  <2>2. tokens' \in 0 .. NetBurst /\ children' \in 0 .. MaxChildren
    BY <1>0, <2>1, ToolsAssumption DEF FTypeOK
  <2>3. FTypeOK'
    BY <1>0, <2>1, <2>2 DEF FTypeOK, FileUnchanged
  <2>4. \A d \in Client : /\ calls'[d] = calls[d]
                          /\ Underway(d)' => Underway(d)
                          /\ fpc'[d] = "fill" => fpc[d] = "fill"
    BY <2>1 DEF Underway
  <2> QED
    BY <2>1, <2>2, <2>3, <2>4, FileLeftAlone
<1> QED
  BY <1>1, <1>2, <1>3 DEF FNext

\* FileWrite in every history of calls, retries and failures, for any number of
\* clients: what was acknowledged is in the file until it is overwritten, unless
\* the background thread has it or lost it, and nothing is in the file twice.
THEOREM AcknowledgedWritesSurvive == FSpec => []WritesSurvive
<1>1. FIInv => WritesSurvive
  BY DEF FIInv
<1> QED
  BY <1>1, FInitIInv, FNextIInv, PTL DEF FSpec

-----------------------------------------------------------------------------
(* The migrations of a flow. *)

\* An empty registry and a flow that is where it is.
LEMMA MInitSafe == MInit => MigrationSafe
BY DEF MInit, MigrationSafe, MTypeOK, RegistrySound, NeverPast

\* The two assertions of register keep the registry free of forks and of
\* migrations that lead back.
LEMMA KeepRegister ==
    ASSUME MigrationSafe, NEW from \in Version, NEW to \in Version, register(from, to)
    PROVE  MigrationSafe'
<1>1. CASE Registrable(from, to)
  <2>1. migrations' = migrations \cup {<<from, to>>} /\ mpc' = mpc
    BY <1>1 DEF register
  <2>2. start' = start /\ version' = version /\ target' = target
    BY DEF register
  <2>3. MTypeOK'
    BY <2>1, <2>2 DEF MigrationSafe, MTypeOK
  <2>4. RegistrySound'
    <3> SUFFICES ASSUME NEW m \in migrations', NEW k \in migrations'
                 PROVE  m[2] > m[1] /\ (m[1] = k[1] => m = k)
      BY DEF RegistrySound
    <3>1. \A x \in migrations : x[1] # from
      BY <1>1 DEF Registrable, Sources
    <3>2. to > from
      BY <1>1 DEF Registrable
    <3>3. CASE m \in migrations /\ k \in migrations
      BY <3>3 DEF MigrationSafe, RegistrySound
    <3>4. CASE m = <<from, to>> /\ k = <<from, to>>
      BY <3>4, <3>2
    <3>5. CASE m = <<from, to>> /\ k \in migrations
      BY <3>5, <3>1, <3>2
    <3>6. CASE m \in migrations /\ k = <<from, to>>
      BY <3>6, <3>1 DEF MigrationSafe, RegistrySound
    <3> QED
      BY <2>1, <3>3, <3>4, <3>5, <3>6
  <2>5. NeverPast'
    BY <2>1, <2>2 DEF MigrationSafe, NeverPast
  <2> QED
    BY <2>3, <2>4, <2>5 DEF MigrationSafe
<1>2. CASE ~Registrable(from, to)
  BY <1>2 DEF register, MigrationSafe, MTypeOK, RegistrySound, NeverPast
<1> QED
  BY <1>1, <1>2

\* A migration takes the flow up, and at most to its target.
LEMMA KeepHop ==
    ASSUME MigrationSafe, NEW ok \in BOOLEAN, Hop(ok)
    PROVE  MigrationSafe'
<1>1. PICK m \in migrations :
          m[1] = version /\ m[2] <= target /\ version' = IF ok THEN m[2] ELSE version
  BY DEF Hop
<1>2. m[2] \in Version
  BY DEF MigrationSafe, MTypeOK
<1>3. migrations' = migrations /\ start' = start /\ target' = target
  BY DEF Hop
<1>4. MTypeOK'
  BY <1>1, <1>2, <1>3 DEF Hop, MigrationSafe, MTypeOK
<1>5. RegistrySound'
  BY <1>3 DEF MigrationSafe, RegistrySound
<1>6. NeverPast'
  BY <1>1, <1>3 DEF Hop, MigrationSafe, NeverPast
<1> QED
  BY <1>4, <1>5, <1>6 DEF MigrationSafe

\* The other steps leave the registry and the version alone.
LEMMA MNextSafe == MigrationSafe /\ [MNext]_mvars => MigrationSafe'
<1> SUFFICES ASSUME MigrationSafe, [MNext]_mvars PROVE MigrationSafe'
  OBVIOUS
<1> USE VersionAssumption
<1>1. ASSUME NEW t \in Version, migrate_to(t) PROVE MigrationSafe'
  <2>1. version \in Int /\ t \in Int
    BY DEF MigrationSafe, MTypeOK, Version
  <2> QED
    BY <1>1, <2>1 DEF migrate_to, MigrationSafe, MTypeOK, RegistrySound, NeverPast
<1>2. CASE migrate_latest
  <2>1. version \in Int
    BY DEF MigrationSafe, MTypeOK, Version
  <2>2. ASSUME NEW t \in Version, t > version, target' = t, mpc' = "loop",
               UNCHANGED <<migrations, start, version>>
        PROVE  MigrationSafe'
    <3>1. t \in Int
      BY DEF Version
    <3> QED
      BY <2>1, <2>2, <3>1 DEF MigrationSafe, MTypeOK, RegistrySound, NeverPast
  <2>3. CASE target' = version /\ mpc' = "Ok"
    BY <1>2, <2>3 DEF migrate_latest, MigrationSafe, MTypeOK, RegistrySound, NeverPast
  <2> QED
    BY <1>2, <2>2, <2>3 DEF migrate_latest
<1>3. CASE Stuck
  BY <1>3 DEF Stuck, MigrationSafe, MTypeOK, RegistrySound, NeverPast
<1>4. CASE Arrive
  <2>1. version \in Int /\ target \in Int
    BY DEF MigrationSafe, MTypeOK, Version
  <2> QED
    BY <1>4, <2>1 DEF Arrive, MigrationSafe, MTypeOK, RegistrySound, NeverPast
<1>5. CASE UNCHANGED mvars
  BY <1>5 DEF mvars, MigrationSafe, MTypeOK, RegistrySound, NeverPast
<1> QED
  BY <1>1, <1>2, <1>3, <1>4, <1>5, KeepRegister, KeepHop DEF MNext, Migrating

\* register and migrate_to for every history of registrations: no version has two
\* ways out, none leads back, and a flow that arrives is exactly at its target.
THEOREM MigrationsSafe == MSpec => []MigrationSafe
BY MInitSafe, MNextSafe, PTL DEF MSpec

(***************************************************************************)
(* Giving up.                                                              *)
(***************************************************************************)

\* A bounded set of numbers has a largest one.
LEMMA LargestOf ==
  ASSUME NEW n \in Nat, NEW S \in SUBSET (0 .. n), S # {}
  PROVE  \E x \in S : \A y \in S : y <= x
<1> DEFINE T == {n - x : x \in S}
<1>1. \A x \in S : x \in Int /\ n - x \in Nat
  OBVIOUS
<1>2. T \subseteq Nat /\ T # {}
  BY <1>1
<1>3. \E a \in T : \A b \in T : ~(<<b, a>> \in OpToRel(<, Nat))
  <2> HIDE DEF T
  <2> QED
    BY <1>2, NatLessThanWellFounded, WFMin
<1>4. PICK a \in T : \A b \in T : ~(<<b, a>> \in OpToRel(<, Nat))
  BY <1>3
<1>5. \A b \in T : ~(b < a)
  BY <1>2, <1>4 DEF OpToRel
<1>6. PICK x \in S : a = n - x
  BY <1>4
<1>7. ASSUME NEW y \in S PROVE y <= x
  <2>1. ~(n - y < n - x)
    BY <1>5, <1>6
  <2> QED
    BY <1>1, <2>1
<1> QED
  BY <1>7

\* No chain to g leads over a version behind g: the last of those would need a
\* migration to go on, and migrations lead up.
LEMMA NotBehind ==
    ASSUME NEW M, M \subseteq Version \X Version, \A m \in M : m[2] > m[1],
           NEW g \in Version,
           NEW P, P \subseteq {m[1] : m \in M},
           \A m \in M : m[1] \in P => m[2] \in P \cup {g},
           NEW v \in P
    PROVE  ~(v > g)
<1> SUFFICES ASSUME v > g PROVE FALSE
  OBVIOUS
<1> DEFINE S == {x \in P : x > g}
<1>1. \A m \in M : m[1] \in Version /\ m[2] \in Version
  OBVIOUS
<1>2. P \subseteq Version
  BY <1>1
<1>3. Version \subseteq Int
  BY VersionAssumption DEF Version
<1>4. PICK x \in S : \A y \in S : y <= x
  <2>1. S \in SUBSET Version /\ S # {}
    BY <1>2
  <2> HIDE DEF S
  <2> QED
    BY <2>1, LargestOf, VersionAssumption DEF Version
<1>5. PICK m \in M : m[1] = x
  BY <1>4
<1>6. m[2] \in P \cup {g}
  BY <1>4, <1>5
<1>7. x \in Int /\ g \in Int /\ m[2] \in Int /\ m[2] > x /\ x > g
  BY <1>1, <1>2, <1>3, <1>4, <1>5
<1>8. m[2] \in S
  BY <1>6, <1>7
<1> QED
  BY <1>4, <1>7, <1>8

\* What one step does to the part of the invariant about chains.
LEMMA KeepOnTheWay ==
    ASSUME MigrationIInv, [MNext]_mvars, MigrationSafe'
    PROVE  OnTheWay' /\ ErrOnlyWithoutPath'
<1> USE DEF MigrationIInv, MigrationSound
<1>0. start \in Int /\ version \in Int /\ target \in Int
  BY VersionAssumption DEF MigrationSafe, MTypeOK, Version
<1>1. ASSUME NEW from \in Version, NEW to \in Version, register(from, to)
      PROVE  OnTheWay' /\ ErrOnlyWithoutPath'
  <2>1. mpc' \in {"setup", "panicked"} /\ mpc = "setup" /\ version' = version /\ start' = start
    BY <1>1 DEF register
  <2> QED
    BY <2>1 DEF OnTheWay, ErrOnlyWithoutPath
<1>2. ASSUME NEW t \in Version, migrate_to(t)
      PROVE  OnTheWay' /\ ErrOnlyWithoutPath'
  <2>1. /\ mpc = "setup" /\ version' = version /\ start' = start /\ version = start
        /\ mpc' \in {"Ok", "Err", "loop"} /\ target' = t
    BY <1>2 DEF migrate_to, OnTheWay
  <2>2. OnTheWay'
    <3>1. \A P : Chain(P)' => start' \in P \cup {target'}
      BY DEF Chain
    <3> QED
      BY <2>1, <3>1 DEF OnTheWay
  <2>3. ErrOnlyWithoutPath'
    <3> SUFFICES ASSUME mpc' = "Err", NEW P \in SUBSET (Sources' \ {target'}), Chain(P)'
                 PROVE  FALSE
      BY DEF ErrOnlyWithoutPath
    <3>1. version > t
      BY <1>2 DEF migrate_to
    <3>2. t \in Int
      BY VersionAssumption DEF Version
    <3>3. start' \in P \cup {target'}
      BY DEF Chain
    <3>4. start' \in P /\ start' > target'
      BY <1>0, <2>1, <3>1, <3>2, <3>3
    <3>5. ~(start' > target')
      <4>1. /\ migrations' \subseteq Version \X Version /\ target' \in Version
            /\ \A m \in migrations' : m[2] > m[1]
        BY DEF MigrationSafe, MTypeOK, RegistrySound
      <4>2. /\ P \subseteq {m[1] : m \in migrations'}
            /\ \A m \in migrations' : m[1] \in P => m[2] \in P \cup {target'}
        BY DEF Sources, Chain
      <4> QED
        BY <3>4, <4>1, <4>2, NotBehind
    <3> QED
      BY <3>4, <3>5
  <2> QED
    BY <2>2, <2>3
<1>3. CASE migrate_latest
  <2>1. /\ mpc = "setup" /\ version' = version /\ start' = start /\ version = start
        /\ mpc' \in {"Ok", "loop"}
    BY <1>3 DEF migrate_latest, OnTheWay
  <2>2. \A P : Chain(P)' => start' \in P \cup {target'}
    BY DEF Chain
  <2> QED
    BY <2>1, <2>2 DEF OnTheWay, ErrOnlyWithoutPath
<1>4. CASE Stuck
  <2>1. /\ mpc = "loop" /\ version < target /\ \A m \in migrations : m[1] = version => m[2] > target
        /\ mpc' = "Err" /\ migrations' = migrations /\ start' = start /\ version' = version
        /\ target' = target
    BY <1>4 DEF Stuck
  <2>2. ASSUME NEW P \in SUBSET (Sources \ {target}), Chain(P) PROVE FALSE
    <3>1. version \in P
      BY <1>0, <2>1, <2>2 DEF OnTheWay
    <3>2. PICK m \in migrations : m[1] = version
      BY <3>1 DEF Sources
    <3>3. m[2] > target
      BY <2>1, <3>2
    <3>4. m[2] \in P \cup {target}
      BY <2>2, <3>1, <3>2 DEF Chain
    <3>5. m[2] \in P
      BY <1>0, <3>3, <3>4
    <3>6. /\ migrations \subseteq Version \X Version /\ target \in Version
          /\ \A k \in migrations : k[2] > k[1]
      BY DEF MigrationSafe, MTypeOK, RegistrySound
    <3>7. /\ P \subseteq {k[1] : k \in migrations}
          /\ \A k \in migrations : k[1] \in P => k[2] \in P \cup {target}
      BY <2>2 DEF Sources, Chain
    <3> QED
      BY <3>3, <3>5, <3>6, <3>7, NotBehind
  <2>3. Sources' = Sources /\ \A P : Chain(P)' <=> Chain(P)
    BY <2>1 DEF Sources, Chain
  <2> QED
    BY <2>1, <2>2, <2>3 DEF OnTheWay, ErrOnlyWithoutPath
<1>5. CASE Arrive
  BY <1>5 DEF Arrive, OnTheWay, ErrOnlyWithoutPath
<1>6. ASSUME NEW ok \in BOOLEAN, Hop(ok) PROVE OnTheWay' /\ ErrOnlyWithoutPath'
  <2>1. PICK m \in migrations : m[1] = version /\ version' = IF ok THEN m[2] ELSE version
    BY <1>6 DEF Hop
  <2>2. /\ mpc = "loop" /\ version < target /\ migrations' = migrations /\ start' = start
        /\ target' = target /\ mpc' = IF ok THEN "loop" ELSE "failed"
    BY <1>6 DEF Hop
  <2>3. Sources' = Sources /\ \A P : Chain(P)' <=> Chain(P)
    BY <2>2 DEF Sources, Chain
  <2>4. ASSUME NEW P \in SUBSET (Sources \ {target}), Chain(P) PROVE m[2] \in P \cup {target}
    <3>1. version \in P
      BY <1>0, <2>2, <2>4 DEF OnTheWay
    <3> QED
      BY <2>1, <2>4, <3>1 DEF Chain
  <2>5. OnTheWay'
    BY <2>1, <2>2, <2>3, <2>4 DEF OnTheWay
  <2>6. ErrOnlyWithoutPath'
    BY <2>2 DEF ErrOnlyWithoutPath
  <2> QED
    BY <2>5, <2>6
<1>7. CASE UNCHANGED mvars
  <2>1. /\ migrations' = migrations /\ start' = start /\ version' = version /\ target' = target
        /\ mpc' = mpc
    BY <1>7 DEF mvars
  <2>2. Sources' = Sources /\ \A P : Chain(P)' <=> Chain(P)
    BY <2>1 DEF Sources, Chain
  <2> QED
    BY <2>1, <2>2 DEF OnTheWay, ErrOnlyWithoutPath
<1> QED
  BY <1>1, <1>2, <1>3, <1>4, <1>5, <1>6, <1>7 DEF MNext, Migrating

\* migrate_to and migrate_latest for every history of registrations: where they
\* end with Err, no chain of registered migrations leads to the target.
THEOREM MigrationsSound == MSpec => []MigrationSound
<1>1. MInit => MigrationIInv
  <2> SUFFICES ASSUME MInit PROVE MigrationIInv
    OBVIOUS
  <2>1. MigrationSafe
    BY MInitSafe
  <2>2. OnTheWay /\ ErrOnlyWithoutPath
    BY DEF MInit, OnTheWay, ErrOnlyWithoutPath
  <2> QED
    BY <2>1, <2>2 DEF MigrationIInv, MigrationSound
<1>2. MigrationIInv /\ [MNext]_mvars => MigrationIInv'
  BY MNextSafe, KeepOnTheWay DEF MigrationIInv, MigrationSound
<1>3. MigrationIInv => MigrationSound
  BY DEF MigrationIInv
<1> QED
  BY <1>1, <1>2, <1>3, PTL DEF MSpec

(***************************************************************************)
(* The search for cycles.                                                  *)
(***************************************************************************)

Frame == [node : Node, left : SUBSET Node]

LEMMA Nodes ==
  ASSUME NEW f \in Definition
  PROVE  /\ N \in Nat /\ Unknown \notin Step /\ Step \subseteq Nat
         /\ OwnSteps(f) \subseteq Step /\ Step \subseteq Node
         /\ \A n : Neighbours(f, n) \subseteq Node
         /\ \A n : \A d \in Neighbours(f, n) : n \in OwnSteps(f) /\ d \in f.deps[n]
         /\ \A n \in OwnSteps(f) : Neighbours(f, n) = f.deps[n]
         /\ \A n : \A d \in Neighbours(f, n) \cap OwnSteps(f) : d \in OwnDeps(f)[n]
         /\ \A s \in Step : OwnDeps(f)[s] \subseteq OwnSteps(f) /\ OwnDeps(f)[s] \subseteq Neighbours(f, s)
<1>1. N \in Nat /\ Unknown \notin Step /\ Step \subseteq Nat
  BY NAssumption DEF Unknown, Step
<1>2. OwnSteps(f) \subseteq Step /\ Step \subseteq Node
  BY DEF OwnSteps, Node
<1>3. f.deps \in [Step -> SUBSET Node]
  BY DEF Definition, Node
<1> QED
  BY <1>1, <1>2, <1>3 DEF Neighbours, OwnDeps

\* The stack and its nodes, as the proofs use them.
LEMMA StackShape ==
  ASSUME SearchTypeOK
  PROVE  /\ stack \in Seq(Frame) /\ Len(stack) \in Nat /\ DOMAIN stack = 1 .. Len(stack)
         /\ \A i \in DOMAIN stack : stack[i] \in Frame /\ stack[i].node \in Node
                                    /\ stack[i].left \subseteq Node
         /\ stack # <<>> => Len(stack) \in DOMAIN stack
<1>1. stack \in Seq(Frame)
  BY DEF SearchTypeOK, Frame
<1>2. Len(stack) \in Nat /\ DOMAIN stack = 1 .. Len(stack)
  BY <1>1, LenProperties
<1>3. \A i \in DOMAIN stack : stack[i] \in Frame
  BY <1>1, <1>2, ElementOfSeq
<1>4. stack # <<>> => Len(stack) \in DOMAIN stack
  BY <1>1, <1>2, EmptySeq
<1> QED
  BY <1>1, <1>2, <1>3, <1>4 DEF Frame

\* The stack after a call of dfs was entered from the innermost of `open`.
LEMMA PushShape ==
  ASSUME NEW open \in Seq(Frame), NEW x \in Frame, NEW st, st = Append(open, x)
  PROVE  /\ st \in Seq(Frame) /\ Len(st) = Len(open) + 1
         /\ DOMAIN st = 1 .. Len(open) + 1
         /\ st[Len(open) + 1] = x /\ \A i \in 1 .. Len(open) : st[i] = open[i]
         /\ Len(open) \in Nat
  BY AppendProperties, LenProperties

LEMMA PopShape ==
  ASSUME NEW s \in Seq(Frame), s # <<>>, NEW st, st = SubSeq(s, 1, Len(s) - 1)
  PROVE  /\ st \in Seq(Frame) /\ Len(st) = Len(s) - 1 /\ DOMAIN st = 1 .. Len(s) - 1
         /\ \A i \in 1 .. Len(s) - 1 : st[i] = s[i]
<1>1. Len(s) \in Nat /\ Len(s) >= 1
  <2>1. Len(s) \in Nat \ {0}
    BY EmptySeq
  <2> QED
    BY <2>1
<1>2. /\ st \in Seq(Frame)
      /\ Len(st) = (IF 1 <= Len(s) - 1 THEN Len(s) - 1 - 1 + 1 ELSE 0)
      /\ \A i \in 1 .. Len(s) - 1 - 1 + 1 : st[i] = s[1 + i - 1]
  BY <1>1, SubSeqProperties, LenProperties
<1>3. Len(st) = Len(s) - 1
  <2>1. \A k \in Nat : k >= 1 => (IF 1 <= k - 1 THEN k - 1 - 1 + 1 ELSE 0) = k - 1
    OBVIOUS
  <2> QED
    BY <1>1, <1>2, <2>1
<1>4. ASSUME NEW i \in 1 .. Len(s) - 1 PROVE st[i] = s[i]
  <2>1. i \in 1 .. Len(s) - 1 - 1 + 1 /\ 1 + i - 1 = i
    BY <1>1
  <2> QED
    BY <1>2, <2>1
<1> QED
  BY <1>2, <1>3, <1>4, LenProperties

\* dfs is entered for a node that was not visited, by the loop over the steps
\* or from the innermost call, which has it crossed off.
LEMMA KeepEnter ==
  ASSUME NEW f \in Definition, SearchInv(f), ~found, UNCHANGED found,
         NEW n \in Node, n \notin visited,
         NEW open \in Seq(Frame), Len(open) = Len(stack),
         \A i \in 1 .. Len(stack) :
            /\ open[i].node = stack[i].node
            /\ open[i].left = IF i = Len(stack) THEN stack[i].left \ {n} ELSE stack[i].left,
         stack # <<>> => n \in Neighbours(f, stack[Len(stack)].node),
         Enter(f, n, open)
  PROVE  SearchInv(f)'
<1> DEFINE L == Len(stack)
<1>1. /\ SearchTypeOK /\ OpenPath(f) /\ FallsAlong(f) /\ LookedAt(f) /\ Numbered(f)
  BY DEF SearchInv
<1>2. /\ L \in Nat /\ DOMAIN stack = 1 .. L
      /\ stack # <<>> => L \in 1 .. L
      /\ \A i \in 1 .. L : stack[i].node \in Node
      /\ stack \in Seq(Frame)
  BY <1>1, StackShape
<1>3. /\ stack' \in Seq(Frame) /\ DOMAIN stack' = 1 .. L + 1
      /\ stack'[L + 1] = [node |-> n, left |-> Neighbours(f, n)]
      /\ \A i \in 1 .. L : stack'[i] = open[i]
  BY Nodes, PushShape DEF Enter, Frame
<1>4. /\ \A i \in 1 .. L : stack'[i].node = stack[i].node
      /\ \A i \in 1 .. L : stack'[i].left = IF i = L THEN stack[i].left \ {n} ELSE stack[i].left
      /\ stack'[L + 1].node = n /\ stack'[L + 1].left = Neighbours(f, n)
  <2>1. stack'[L + 1].node = n /\ stack'[L + 1].left = Neighbours(f, n)
    BY ONLY <1>3
  <2>2. ASSUME NEW i \in 1 .. L
        PROVE  /\ stack'[i].node = stack[i].node
               /\ stack'[i].left = IF i = L THEN stack[i].left \ {n} ELSE stack[i].left
    <3>1. stack'[i] = open[i]
      BY <1>3
    <3> QED
      BY <3>1
  <2> QED
    BY <2>1, <2>2
<1>5. visited' = visited \cup {n} /\ in_stack' = in_stack \cup {n} /\ found' = found
  BY DEF Enter
<1>6. \A i \in 1 .. L : stack[i].node # n
  BY <1>1, <1>2 DEF OpenPath, SearchTypeOK
<1>0. L \in Nat
  BY <1>2
<1> HIDE DEF L
<1>7. SearchTypeOK'
  BY <1>1, <1>3, <1>5 DEF SearchTypeOK, Frame
<1>8. OpenPath(f)'
  <2>1. in_stack' = {stack'[i].node : i \in DOMAIN stack'}
    <3>1. in_stack = {stack[i].node : i \in 1 .. L}
      BY <1>1, <1>2 DEF OpenPath
    <3>2. \A x : x \in in_stack' <=> \E i \in 1 .. L + 1 : x = stack'[i].node
      BY <1>2, <1>4, <1>5, <3>1
    <3> QED
      BY <1>3, <3>2
  <2>2. \A i, j \in 1 .. L + 1 : stack'[i].node = stack'[j].node => i = j
    <3>1. \A i, j \in 1 .. L : stack[i].node = stack[j].node => i = j
      BY <1>1, <1>2 DEF OpenPath
    <3> QED
      BY <1>2, <1>4, <1>6, <3>1
  <2>3. \A i \in 1 .. L + 1 : stack'[i].left \subseteq Neighbours(f, stack'[i].node)
    <3>1. \A i \in 1 .. L : stack[i].left \subseteq Neighbours(f, stack[i].node)
      BY <1>1, <1>2 DEF OpenPath
    <3>2. ASSUME NEW i \in 1 .. L + 1 PROVE stack'[i].left \subseteq Neighbours(f, stack'[i].node)
      <4>1. CASE i \in 1 .. L
        BY <1>4, <3>1, <4>1
      <4>2. CASE i = L + 1
        BY <1>4, <4>2
      <4> QED
        BY <1>2, <4>1, <4>2
    <3> QED
      BY <3>2
  <2>4. ASSUME NEW i \in 1 .. L + 1, i + 1 \in 1 .. L + 1
        PROVE  stack'[i + 1].node \in Neighbours(f, stack'[i].node)
    <3>1. \A k \in 1 .. L : k + 1 \in 1 .. L => stack[k + 1].node \in Neighbours(f, stack[k].node)
      <4>1. \A k \in DOMAIN stack : k + 1 \in DOMAIN stack =>
               stack[k + 1].node \in Neighbours(f, stack[k].node)
        BY <1>1 DEF OpenPath
      <4>2. DOMAIN stack = 1 .. L
        BY <1>2
      <4> QED
        BY <4>1, <4>2
    <3>2. CASE i + 1 \in 1 .. L
      <4>1. i \in 1 .. L
        BY <1>2, <3>2
      <4> QED
        BY <1>4, <3>1, <3>2, <4>1
    <3>3. CASE i = L /\ i + 1 = L + 1
      <4>1. stack # <<>> /\ i \in 1 .. L
        BY <1>2, <3>3, EmptySeq DEF L
      <4>2. n \in Neighbours(f, stack[L].node)
        BY <4>1 DEF L
      <4> QED
        BY <1>4, <3>3, <4>1, <4>2
    <3>4. i + 1 \in 1 .. L \/ (i = L /\ i + 1 = L + 1)
      BY <1>0, <2>4
    <3> QED
      BY <3>2, <3>3, <3>4
  <2> QED
    BY <1>3, <2>1, <2>2, <2>3, <2>4 DEF OpenPath, Neighbours, OwnSteps
<1>9. FallsAlong(f)'
  <2> SUFFICES ASSUME NEW rank \in [Step -> Step], Orders(rank, f),
                      NEW i \in 1 .. L + 1, NEW j \in 1 .. L + 1, i < j,
                      stack'[j].node \in OwnSteps(f)
               PROVE  rank[stack'[j].node] < rank[stack'[i].node]
    BY <1>3 DEF FallsAlong, Orders, OwnDeps, OwnSteps
  <2>1. \A k, l \in 1 .. L : k < l /\ stack[l].node \in OwnSteps(f) =>
           rank[stack[l].node] < rank[stack[k].node]
    <3>1. \A k, l \in DOMAIN stack : k < l /\ stack[l].node \in OwnSteps(f) =>
             rank[stack[l].node] < rank[stack[k].node]
      BY <1>1 DEF FallsAlong
    <3> QED
      BY ONLY <1>2, <3>1
  <2>2. i \in 1 .. L
    BY <1>2
  <2>3. CASE j \in 1 .. L
    BY <1>4, <2>1, <2>2, <2>3
  <2>4. CASE j = L + 1
    <3>1. stack # <<>> /\ L \in 1 .. L
      BY <1>2, <2>2, EmptySeq DEF L
    <3>2. n \in Neighbours(f, stack[L].node) /\ n \in OwnSteps(f)
      BY <1>4, <2>4, <3>1 DEF L
    <3>3. stack[L].node \in OwnSteps(f) /\ n \in OwnDeps(f)[stack[L].node]
      BY <3>2, Nodes
    <3>4. rank[n] < rank[stack[L].node]
      BY <3>3, Nodes DEF Orders
    <3>5. i = L \/ rank[stack[L].node] < rank[stack[i].node]
      BY <1>2, <2>1, <2>2, <3>1, <3>3
    <3>6. /\ rank[n] \in Nat /\ rank[stack[L].node] \in Nat
          /\ i # L => rank[stack[i].node] \in Nat
      <4>1. i # L => stack[i].node \in OwnSteps(f)
        <5>1. i # L => i + 1 \in 1 .. L
          BY <1>2, <2>2
        <5>2. i # L => stack[i + 1].node \in Neighbours(f, stack[i].node)
          BY <1>1, <1>2, <2>2, <5>1 DEF OpenPath
        <5> QED
          BY <5>2, Nodes
      <4> QED
        BY <3>2, <3>3, <4>1, Nodes
    <3>7. rank[n] < rank[stack[i].node]
      BY <3>4, <3>5, <3>6
    <3> QED
      BY <1>4, <2>2, <2>4, <3>7
  <2> QED
    BY <1>2, <2>3, <2>4
<1>10. LookedAt(f)'
  <2> SUFFICES ASSUME NEW i \in 1 .. L + 1, NEW d \in Neighbours(f, stack'[i].node) \ stack'[i].left
               PROVE  /\ d \in visited'
                      /\ d \in in_stack' => i + 1 \in 1 .. L + 1 /\ d = stack'[i + 1].node
    BY <1>3 DEF LookedAt, Neighbours, OwnSteps
  <2>1. i \in 1 .. L
    BY <1>2, <1>4
  <2>2. d \in Neighbours(f, stack[i].node)
    BY <1>4, <2>1
  <2>3. CASE i = L /\ d = n
    BY <1>2, <1>4, <1>5, <2>1, <2>3
  <2>4. CASE ~(i = L /\ d = n)
    <3>1. d \notin stack[i].left
      BY <1>4, <2>1, <2>4
    <3>2. /\ d \in visited
          /\ d \in in_stack => i + 1 \in 1 .. L /\ d = stack[i + 1].node
      BY <1>1, <1>2, <2>1, <2>2, <3>1 DEF LookedAt
    <3> QED
      BY <1>2, <1>4, <1>5, <3>2
  <2> QED
    BY <2>3, <2>4
<1>11. Numbered(f)'
  <2>1. Returned(f)' = Returned(f)
    BY <1>5 DEF Returned, OwnSteps
  <2> QED
    BY ONLY <1>1, <2>1 DEF Numbered
<1> QED
  BY <1>5, <1>7, <1>8, <1>9, <1>10, <1>11 DEF SearchInv

\* The innermost call crosses a neighbour off.
CrossOff(s, d) == [s EXCEPT ![Len(s)].left = @ \ {d}]

LEMMA CrossedOff ==
  ASSUME NEW s \in Seq(Frame), s # <<>>, NEW d
  PROVE  /\ CrossOff(s, d) \in Seq(Frame) /\ Len(CrossOff(s, d)) = Len(s)
         /\ DOMAIN CrossOff(s, d) = DOMAIN s
         /\ \A i \in 1 .. Len(s) :
               /\ CrossOff(s, d)[i].node = s[i].node
               /\ CrossOff(s, d)[i].left = IF i = Len(s) THEN s[i].left \ {d} ELSE s[i].left
<1>1. Len(s) \in 1 .. Len(s) /\ DOMAIN s = 1 .. Len(s)
  BY EmptySeq, LenProperties
<1> DEFINE top == [s[Len(s)] EXCEPT !.left = @ \ {d}]
<1>2. CrossOff(s, d) = [s EXCEPT ![Len(s)] = top]
  BY DEF CrossOff
<1>3. s[Len(s)] \in Frame
  BY <1>1, ElementOfSeq
<1>4. top \in Frame /\ top.node = s[Len(s)].node /\ top.left = s[Len(s)].left \ {d}
  BY <1>3 DEF Frame
<1> HIDE DEF top
<1>5. CrossOff(s, d) \in Seq(Frame) /\ Len(CrossOff(s, d)) = Len(s)
  BY <1>1, <1>2, <1>4, ExceptSeq
<1>6. DOMAIN CrossOff(s, d) = DOMAIN s
  BY <1>2
<1>7. ASSUME NEW i \in 1 .. Len(s)
      PROVE  /\ CrossOff(s, d)[i].node = s[i].node
             /\ CrossOff(s, d)[i].left = IF i = Len(s) THEN s[i].left \ {d} ELSE s[i].left
  <2>1. CASE i = Len(s)
    <3>1. CrossOff(s, d)[i] = top
      BY <1>1, <1>2, <2>1
    <3> QED
      BY <1>4, <2>1, <3>1
  <2>2. CASE i # Len(s)
    <3>1. CrossOff(s, d)[i] = s[i]
      BY <1>1, <1>2, <2>2
    <3> QED
      BY <2>2, <3>1
  <2> QED
    BY <2>1, <2>2
<1> QED
  BY <1>5, <1>6, <1>7

\* The innermost call passes over a neighbour that was visited, or finds the
\* cycle that closes there.
LEMMA KeepPass ==
  ASSUME NEW f \in Definition, SearchInv(f), ~found, stack # <<>>,
         NEW d \in Node, d \in visited, d \in stack[Len(stack)].left,
         stack' = CrossOff(stack, d),
         found' = (d \in in_stack), UNCHANGED <<visited, in_stack>>
  PROVE  SearchInv(f)'
<1> DEFINE L == Len(stack)
<1>1. /\ SearchTypeOK /\ OpenPath(f) /\ FallsAlong(f) /\ LookedAt(f) /\ Numbered(f)
  BY DEF SearchInv
<1>2. /\ L \in Nat /\ DOMAIN stack = 1 .. L /\ L \in 1 .. L
      /\ stack \in Seq(Frame) /\ \A i \in 1 .. L : stack[i].node \in Node
  BY <1>1, StackShape
<1>3. /\ stack' \in Seq(Frame) /\ DOMAIN stack' = 1 .. L
      /\ \A i \in 1 .. L : stack'[i].node = stack[i].node
      /\ \A i \in 1 .. L : stack'[i].left = IF i = L THEN stack[i].left \ {d} ELSE stack[i].left
  <2>1. /\ stack' \in Seq(Frame) /\ DOMAIN stack' = DOMAIN stack
        /\ \A i \in 1 .. L : /\ stack'[i].node = stack[i].node
                             /\ stack'[i].left = IF i = L THEN stack[i].left \ {d} ELSE stack[i].left
    BY <1>2, CrossedOff
  <2> QED
    BY <1>2, <2>1
<1>4. d \in stack[L].left
  OBVIOUS
<1> HIDE DEF L
<1>5. SearchTypeOK'
  BY <1>1, <1>3 DEF SearchTypeOK, Frame
<1>6. OpenPath(f)'
  <2>1. in_stack' = {stack'[i].node : i \in DOMAIN stack'}
    <3>1. in_stack = {stack[i].node : i \in 1 .. L}
      BY <1>1, <1>2 DEF OpenPath
    <3> QED
      BY <1>3, <3>1
  <2>2. \A i, j \in 1 .. L : stack'[i].node = stack'[j].node => i = j
    BY <1>1, <1>2, <1>3 DEF OpenPath
  <2>3. \A i \in 1 .. L : stack'[i].left \subseteq Neighbours(f, stack'[i].node)
    <3>1. \A i \in 1 .. L : stack[i].left \subseteq Neighbours(f, stack[i].node)
      BY <1>1, <1>2 DEF OpenPath
    <3> QED
      BY <1>3, <3>1
  <2>4. ASSUME NEW i \in 1 .. L, i + 1 \in 1 .. L
        PROVE  stack'[i + 1].node \in Neighbours(f, stack'[i].node)
    <3>1. stack[i + 1].node \in Neighbours(f, stack[i].node)
      BY <1>1, <1>2, <2>4 DEF OpenPath
    <3> QED
      BY <1>3, <2>4, <3>1
  <2> QED
    BY <1>3, <2>1, <2>2, <2>3, <2>4 DEF OpenPath, Neighbours, OwnSteps
<1>7. FallsAlong(f)'
  <2> SUFFICES ASSUME NEW rank \in [Step -> Step], Orders(rank, f),
                      NEW i \in 1 .. L, NEW j \in 1 .. L, i < j,
                      stack'[j].node \in OwnSteps(f)
               PROVE  rank[stack'[j].node] < rank[stack'[i].node]
    BY <1>3 DEF FallsAlong, Orders, OwnDeps, OwnSteps
  <2>1. stack[j].node \in OwnSteps(f)
    BY <1>3
  <2>2. rank[stack[j].node] < rank[stack[i].node]
    BY <1>1, <1>2, <2>1 DEF FallsAlong
  <2> QED
    BY <1>3, <2>2
<1>8. ASSUME ~found' PROVE LookedAt(f)'
  <2> SUFFICES ASSUME NEW i \in 1 .. L, NEW e \in Neighbours(f, stack'[i].node) \ stack'[i].left
               PROVE  /\ e \in visited'
                      /\ e \in in_stack' => i + 1 \in 1 .. L /\ e = stack'[i + 1].node
    BY <1>3 DEF LookedAt, Neighbours, OwnSteps
  <2>1. CASE e = d
    BY <1>8, <2>1
  <2>2. CASE e # d
    <3>1. e \in Neighbours(f, stack[i].node) \ stack[i].left
      BY <1>3, <2>2
    <3>2. /\ e \in visited
          /\ e \in in_stack => i + 1 \in 1 .. L /\ e = stack[i + 1].node
      BY <1>1, <1>2, <3>1 DEF LookedAt
    <3> QED
      BY <1>3, <3>2
  <2> QED
    BY <2>1, <2>2
<1>9. Numbered(f)'
  <2>1. Returned(f)' = Returned(f)
    BY DEF Returned, OwnSteps
  <2> QED
    BY ONLY <1>1, <2>1 DEF Numbered
<1>10. ASSUME d \in in_stack PROVE ~Acyclic(OwnDeps(f))
  <2> SUFFICES ASSUME NEW rank \in [Step -> Step], Orders(rank, f) PROVE FALSE
    BY DEF Acyclic, Orders
  <2>1. PICK j \in 1 .. L : stack[j].node = d
    BY <1>1, <1>2, <1>10 DEF OpenPath
  <2>2. d \in Neighbours(f, stack[L].node)
    BY <1>1, <1>2, <1>4 DEF OpenPath
  <2>3. stack[L].node \in OwnSteps(f)
    BY <2>2, Nodes
  <2>4. j # L => rank[stack[L].node] < rank[d]
    <3>1. j # L => j < L
      BY <1>2
    <3> QED
      BY <1>1, <1>2, <2>1, <2>3, <3>1 DEF FallsAlong
  <2>5. d \in OwnSteps(f)
    <3>1. CASE j = L
      BY <2>1, <2>3, <3>1
    <3>2. CASE j # L
      <4>1. j + 1 \in 1 .. L
        BY <1>2, <3>2
      <4>2. stack[j + 1].node \in Neighbours(f, d)
        BY <1>1, <1>2, <2>1, <4>1 DEF OpenPath
      <4> QED
        BY <4>2, Nodes
    <3> QED
      BY <3>1, <3>2
  <2>6. rank[d] < rank[stack[L].node]
    <3>1. d \in OwnDeps(f)[stack[L].node] /\ stack[L].node \in Step
      BY <2>2, <2>3, <2>5, Nodes
    <3> QED
      BY <3>1 DEF Orders
  <2>7. rank[d] \in Nat /\ rank[stack[L].node] \in Nat
    BY <2>3, <2>5, Nodes
  <2> QED
    BY <2>1, <2>4, <2>6, <2>7
<1> QED
  <2>1. found' => stack' # <<>> /\ ~Acyclic(OwnDeps(f))
    <3>1. stack' # <<>>
      <4>1. Len(stack') = Len(stack) /\ Len(stack) # 0
        BY <1>2, CrossedOff DEF L
      <4> QED
        BY <4>1, EmptySeq
    <3> QED
      BY <1>10, <3>1
  <2> QED
    BY <1>5, <1>6, <1>7, <1>8, <1>9, <2>1 DEF SearchInv

LEMMA KeepVisit ==
  ASSUME NEW f \in Definition, SearchInv(f), NEW d \in Node, Visit(f, d)
  PROVE  SearchInv(f)'
<1> DEFINE open == CrossOff(stack, d)
<1>1. /\ stack # <<>> /\ ~found /\ d \in stack[Len(stack)].left
      /\ IF d \notin visited
         THEN Enter(f, d, open) /\ UNCHANGED found
         ELSE stack' = open /\ found' = (d \in in_stack) /\ UNCHANGED <<visited, in_stack>>
  BY DEF Visit, Innermost, CrossOff
<1>2. /\ SearchTypeOK /\ OpenPath(f)
  BY DEF SearchInv
<1>3. /\ open \in Seq(Frame) /\ Len(open) = Len(stack)
      /\ \A i \in 1 .. Len(stack) :
               /\ open[i].node = stack[i].node
               /\ open[i].left = IF i = Len(stack) THEN stack[i].left \ {d} ELSE stack[i].left
  BY <1>1, <1>2, CrossedOff, StackShape
<1>4. d \in Neighbours(f, stack[Len(stack)].node)
  BY <1>1, <1>2, StackShape DEF OpenPath
<1> HIDE DEF open
<1>5. CASE d \notin visited
  BY <1>1, <1>3, <1>4, <1>5, KeepEnter
<1>6. CASE d \in visited
  BY <1>1, <1>6, KeepPass DEF open
<1> QED
  BY <1>5, <1>6

LEMMA KeepStart ==
  ASSUME NEW f \in Definition, SearchInv(f), NEW s \in OwnSteps(f), Start(f, s)
  PROVE  SearchInv(f)'
<1>1. s \in Node /\ s \notin visited /\ stack = <<>> /\ UNCHANGED found /\ Enter(f, s, stack)
  BY Nodes DEF Start
<1>4. ~found
  BY <1>1 DEF SearchInv
<1>2. stack \in Seq(Frame) /\ Len(stack) = 0
  BY <1>1, EmptySeq
<1>3. \A i \in 1 .. Len(stack) :
         /\ stack[i].node = stack[i].node
         /\ stack[i].left = IF i = Len(stack) THEN stack[i].left \ {s} ELSE stack[i].left
  BY <1>2
<1> QED
  BY <1>1, <1>2, <1>3, <1>4, KeepEnter

\* The innermost call returns false: its node gets the next number.
LEMMA KeepLeave ==
  ASSUME NEW f \in Definition, SearchInv(f), Leave
  PROVE  SearchInv(f)'
<1> DEFINE L == Len(stack)
           n == stack[L].node
<1>1. /\ SearchTypeOK /\ OpenPath(f) /\ FallsAlong(f) /\ LookedAt(f) /\ Numbered(f)
  BY DEF SearchInv, Leave
<1>2. /\ L \in Nat /\ DOMAIN stack = 1 .. L /\ L \in 1 .. L
      /\ stack \in Seq(Frame) /\ \A i \in 1 .. L : stack[i].node \in Node
  BY <1>1, StackShape DEF Leave
<1>3. /\ stack' \in Seq(Frame) /\ DOMAIN stack' = 1 .. L - 1
      /\ \A i \in 1 .. L - 1 : stack'[i] = stack[i]
  BY <1>2, PopShape DEF Leave
<1>4. /\ ~found /\ found' = found /\ visited' = visited
      /\ in_stack' = in_stack \ {n} /\ stack[L].left = {}
  BY DEF Leave, Innermost
<1>5. /\ \A i, j \in 1 .. L : stack[i].node = stack[j].node => i = j
      /\ \A i \in 1 .. L : stack[i].left \subseteq Neighbours(f, stack[i].node)
      /\ \A i \in 1 .. L : i + 1 \in 1 .. L => stack[i + 1].node \in Neighbours(f, stack[i].node)
      /\ in_stack = {stack[i].node : i \in 1 .. L}
  BY <1>1, <1>2 DEF OpenPath
<1>0. n = stack[L].node /\ L \in Nat /\ 1 .. L - 1 \subseteq 1 .. L /\ L \notin 1 .. L - 1
  BY <1>2
<1> HIDE DEF L, n
<1>6. SearchTypeOK'
  BY <1>1, <1>3, <1>4 DEF SearchTypeOK, Frame
<1>7. OpenPath(f)'
  <2>1. in_stack' = {stack'[i].node : i \in DOMAIN stack'}
    <3>1. ASSUME NEW x PROVE x \in in_stack' <=> \E i \in 1 .. L - 1 : x = stack'[i].node
      <4>1. ASSUME x \in in_stack' PROVE \E i \in 1 .. L - 1 : x = stack'[i].node
        <5>1. PICK i \in 1 .. L : x = stack[i].node
          BY <1>4, <1>5, <4>1
        <5>2. i # L
          BY <1>0, <1>4, <4>1, <5>1
        <5>3. i \in 1 .. L - 1
          BY <1>0, <5>2
        <5> QED
          BY <1>3, <5>1, <5>3
      <4>2. ASSUME NEW i \in 1 .. L - 1, x = stack'[i].node PROVE x \in in_stack'
        <5>1. x = stack[i].node /\ i \in 1 .. L /\ i # L
          BY <1>0, <1>3, <4>2
        <5>2. x # n
          BY <1>0, <1>2, <1>5, <5>1
        <5> QED
          BY <1>4, <1>5, <5>1, <5>2
      <4> QED
        BY <4>1, <4>2
    <3> QED
      BY <1>3, <3>1
  <2>2. \A i, j \in 1 .. L - 1 : stack'[i].node = stack'[j].node => i = j
    BY <1>0, <1>3, <1>5
  <2>3. \A i \in 1 .. L - 1 : stack'[i].left \subseteq Neighbours(f, stack'[i].node)
    BY <1>0, <1>3, <1>5
  <2>4. ASSUME NEW i \in 1 .. L - 1, i + 1 \in 1 .. L - 1
        PROVE  stack'[i + 1].node \in Neighbours(f, stack'[i].node)
    BY <1>0, <1>3, <1>5, <2>4
  <2> QED
    BY <1>3, <2>1, <2>2, <2>3, <2>4 DEF OpenPath, Neighbours, OwnSteps
<1>8. FallsAlong(f)'
  <2> SUFFICES ASSUME NEW rank \in [Step -> Step], Orders(rank, f),
                      NEW i \in 1 .. L - 1, NEW j \in 1 .. L - 1, i < j,
                      stack'[j].node \in OwnSteps(f)
               PROVE  rank[stack'[j].node] < rank[stack'[i].node]
    BY <1>3 DEF FallsAlong, Orders, OwnDeps, OwnSteps
  <2>1. i \in DOMAIN stack /\ j \in DOMAIN stack /\ stack'[i] = stack[i] /\ stack'[j] = stack[j]
    BY <1>0, <1>2, <1>3
  <2> QED
    BY <1>1, <2>1 DEF FallsAlong
<1>9. LookedAt(f)'
  <2> SUFFICES ASSUME NEW i \in 1 .. L - 1, NEW d \in Neighbours(f, stack'[i].node) \ stack'[i].left
               PROVE  /\ d \in visited'
                      /\ d \in in_stack' => i + 1 \in 1 .. L - 1 /\ d = stack'[i + 1].node
    BY <1>3 DEF LookedAt, Neighbours, OwnSteps
  <2>1. i \in DOMAIN stack /\ stack'[i] = stack[i]
    BY <1>0, <1>2, <1>3
  <2>2. /\ d \in visited
        /\ d \in in_stack => i + 1 \in 1 .. L /\ d = stack[i + 1].node
    BY <1>1, <1>2, <2>1 DEF LookedAt
  <2>3. ASSUME d \in in_stack' PROVE i + 1 \in 1 .. L - 1 /\ d = stack'[i + 1].node
    <3>1. d \in in_stack /\ d # n
      BY <1>4, <2>3
    <3>2. i + 1 # L
      BY <1>0, <2>2, <3>1
    <3>3. i + 1 \in 1 .. L - 1
      BY <1>0, <2>2, <3>1, <3>2
    <3> QED
      BY <1>3, <2>2, <3>1, <3>3
  <2> QED
    BY <1>4, <2>2, <2>3
<1>10. Numbered(f)'
  <2>1. n \in in_stack /\ n \in visited
    BY <1>0, <1>1, <1>2, <1>5 DEF SearchTypeOK
  <2>2. PICK rank \in [Step -> Step] :
           \A s \in Returned(f) :
              /\ rank[s] <= Cardinality(Returned(f))
              /\ \A d \in OwnDeps(f)[s] : d \in Returned(f) /\ rank[d] < rank[s]
    BY <1>1 DEF Numbered
  <2>3. CASE n \notin OwnSteps(f)
    <3>1. Returned(f)' = Returned(f)
      BY <1>4, <2>3 DEF Returned, OwnSteps
    <3> QED
      BY ONLY <1>1, <3>1 DEF Numbered
  <2>4. CASE n \in OwnSteps(f)
    <3>1. Returned(f)' = Returned(f) \cup {n} /\ n \notin Returned(f)
      BY <1>4, <2>1, <2>4 DEF Returned, OwnSteps
    <3>2. /\ Returned(f) \subseteq Step /\ n \in Step /\ IsFiniteSet(Step) /\ Cardinality(Step) = N
      <4>1. N \in Nat
        BY Nodes
      <4> QED
        BY <2>4, <4>1, Nodes, FS_Interval DEF Returned, Step
    <3> DEFINE c == Cardinality(Returned(f))
    <3>3. IsFiniteSet(Returned(f)) /\ c \in Nat
      BY <3>2, FS_Subset, FS_CardinalityType
    <3>4. Cardinality(Returned(f)') = c + 1
      BY <3>1, <3>3, FS_AddElement
    <3>5. c + 1 \in Step
      <4>1. Cardinality(Returned(f)') <= N
        BY <3>1, <3>2, FS_Subset
      <4>2. N \in Nat
        BY Nodes
      <4> QED
        BY <3>3, <3>4, <4>1, <4>2 DEF Step
    <3> DEFINE next == [rank EXCEPT ![n] = c + 1]
    <3>6. /\ next \in [Step -> Step] /\ next[n] = c + 1
          /\ \A s \in Returned(f) : next[s] = rank[s]
      BY <3>1, <3>2, <3>5
    <3>7. \A s \in Returned(f) : rank[s] \in Nat
      BY <3>2, Nodes
    <3> HIDE DEF next, c
    <3>8. ASSUME NEW s \in Returned(f)
          PROVE  /\ next[s] <= c + 1
                 /\ \A d \in OwnDeps(f)[s] : d \in Returned(f)' /\ next[d] < next[s]
      BY <2>2, <3>1, <3>3, <3>6, <3>7 DEF c
    <3>9. ASSUME NEW d \in OwnDeps(f)[n] PROVE d \in Returned(f)' /\ next[d] < next[n]
      <4>1. d \in Neighbours(f, stack[L].node) \ stack[L].left /\ d \in OwnSteps(f)
        BY <1>0, <1>4, <3>2, Nodes
      <4>2. d \in visited /\ (d \in in_stack => L + 1 \in DOMAIN stack)
        BY <1>1, <1>2, <4>1 DEF LookedAt
      <4>3. L + 1 \notin DOMAIN stack
        BY <1>0, <1>2
      <4>4. d \in Returned(f)
        BY <4>1, <4>2, <4>3 DEF Returned
      <4>5. rank[d] <= c
        BY <2>2, <4>4 DEF c
      <4> QED
        BY <3>1, <3>3, <3>6, <3>7, <4>4, <4>5
    <3>10. \A s \in Returned(f)' :
              /\ next[s] <= Cardinality(Returned(f)')
              /\ \A d \in OwnDeps(f)[s] : d \in Returned(f)' /\ next[d] < next[s]
      BY <3>1, <3>3, <3>4, <3>6, <3>8, <3>9
    <3> QED
      BY <3>6, <3>10 DEF Numbered
  <2> QED
    BY <2>3, <2>4
<1> QED
  BY <1>4, <1>6, <1>7, <1>8, <1>9, <1>10 DEF SearchInv

LEMMA KeepSearch ==
  ASSUME NEW f \in Definition, SearchInv(f), Search(f)
  PROVE  SearchInv(f)'
<1>1. CASE \E s \in OwnSteps(f) : Start(f, s)
  BY <1>1, KeepStart
<1>2. CASE \E d \in Node : Visit(f, d)
  BY <1>2, KeepVisit
<1>3. CASE Leave
  BY <1>3, KeepLeave
<1> QED
  BY <1>1, <1>2, <1>3 DEF Search

LEMMA SearchBegins ==
  ASSUME NEW f \in Definition, SearchInit
  PROVE  SearchInv(f)
<1>1. stack = <<>> /\ visited = {} /\ in_stack = {} /\ found = FALSE
  BY DEF SearchInit
<1>2. stack \in Seq([node : Node, left : SUBSET Node]) /\ DOMAIN stack = {}
  BY <1>1, EmptySeq
<1>3. Numbered(f)
  <2>1. [s \in Step |-> s] \in [Step -> Step] /\ Returned(f) = {}
    BY <1>1 DEF Returned
  <2> QED
    BY <2>1 DEF Numbered
<1> QED
  BY <1>1, <1>2, <1>3 DEF SearchInv, SearchTypeOK, OpenPath, LookedAt, FallsAlong

LEMMA SearchBeginsAgain ==
  ASSUME NEW f \in Definition, SearchAgain
  PROVE  SearchInv(f)'
<1>1. stack' = <<>> /\ visited' = {} /\ in_stack' = {} /\ found' = FALSE
  BY DEF SearchAgain
<1>2. stack' \in Seq([node : Node, left : SUBSET Node]) /\ DOMAIN stack' = {}
  BY <1>1, EmptySeq
<1>3. Numbered(f)'
  <2>1. [s \in Step |-> s] \in [Step -> Step] /\ Returned(f)' = {}
    BY <1>1 DEF Returned
  <2> QED
    BY <2>1 DEF Numbered
<1> QED
  BY <1>1, <1>2, <1>3 DEF SearchInv, SearchTypeOK, OpenPath, LookedAt, FallsAlong

\* The search reports a cycle exactly where the dependencies have one.
LEMMA SearchDecides ==
  ASSUME NEW f \in Definition, SearchInv(f), SearchEnded(f)
  PROVE  found <=> ~Acyclic(OwnDeps(f))
<1>1. CASE found
  BY <1>1 DEF SearchInv
<1>2. CASE ~found
  <2>1. stack = <<>> /\ OwnSteps(f) \subseteq visited /\ OpenPath(f) /\ Numbered(f)
    BY <1>2 DEF SearchEnded, SearchInv
  <2>2. in_stack = {}
    BY <2>1 DEF OpenPath
  <2>3. Returned(f) = OwnSteps(f)
    BY <2>1, <2>2 DEF Returned
  <2>4. PICK rank \in [Step -> Step] :
           \A s \in OwnSteps(f) : \A d \in OwnDeps(f)[s] : rank[d] < rank[s]
    BY <2>1, <2>3 DEF Numbered
  <2>5. \A s \in Step : s \notin OwnSteps(f) => OwnDeps(f)[s] = {}
    BY DEF OwnDeps
  <2>6. Acyclic(OwnDeps(f))
    BY <2>4, <2>5 DEF Acyclic
  <2> QED
    BY <1>2, <2>6
<1> QED
  BY <1>1, <1>2

\* validate says what the definition deserves, in every mode.
LEMMA ValidateExpected ==
  ASSUME NEW f \in Definition, SearchInv(f), f.mode = "Dag" => SearchEnded(f)
  PROVE  FlowDef_validate(f) = Expected(f)
<1>1. /\ f.mode \in Mode /\ \A s \in Step : f.trigger[s] \in Trigger
      /\ OwnSteps(f) \subseteq Step
  BY Nodes DEF Definition
<1>2. ASSUME f.mode = "Dag" PROVE found <=> ~Acyclic(OwnDeps(f))
  BY <1>2, SearchDecides
<1>3. \A s \in OwnSteps(f) : f.deps[s] \subseteq OwnSteps(f) <=> f.deps[s] = OwnDeps(f)[s]
  BY <1>1 DEF OwnDeps
<1>4. \A s \in OwnSteps(f) : f.trigger[s] = "Any" <=> f.trigger[s] # "All"
  BY <1>1 DEF Trigger
<1>5. CASE f.mode = "Dag"
  BY <1>2, <1>3, <1>4, <1>5 DEF FlowDef_validate, check_cycles, Expected
<1>6. CASE f.mode = "Hierarchical"
  BY <1>1, <1>4, <1>6 DEF FlowDef_validate, validate_hierarchical, Expected
<1>7. CASE f.mode \in {"Sequential", "Parallel"}
  BY <1>1, <1>4, <1>7 DEF FlowDef_validate, Expected
<1> QED
  BY <1>1, <1>5, <1>6, <1>7 DEF Mode

(***************************************************************************)
(* What lets a flow through.                                               *)
(***************************************************************************)

LEMMA Jobs ==
  ASSUME job \in ValidateJobs \cup HardwareJobs
  PROVE  /\ job.kind = "validate" =>
               /\ job.flow \in Flows /\ job.flow \in Definition
               /\ job = [kind |-> "validate", flow |-> job.flow]
         /\ job.kind = "hardware" =>
               /\ job.reqs \subseteq Requirement
               /\ job.base \in Nat /\ job.gpus \in Nat /\ job.tpus \in Nat
         /\ job.kind \in {"validate", "hardware"}
<1>1. CASE job \in ValidateJobs
  BY <1>1, AdmissionAssumption DEF ValidateJobs
<1>2. CASE job \in HardwareJobs
  <2>1. Devices \subseteq Nat
    BY AdmissionAssumption DEF Devices
  <2> QED
    BY <1>2, <2>1 DEF HardwareJobs
<1> QED
  BY <1>1, <1>2

LEMMA LimitBounds ==
  ASSUME NEW limit \in Nat, NEW needed \in BOOLEAN, NEW count \in Nat
  PROVE  /\ Limit(limit, needed, count) \in Nat
         /\ Limit(limit, needed, count) <= limit
         /\ limit >= 1 => Limit(limit, needed, count) >= 1
         /\ needed /\ count # 0 => Limit(limit, needed, count) <= count
  BY DEF Limit, Lesser, AtLeastOne

LEMMA HardwareSound ==
  ASSUME NEW reqs \in SUBSET Requirement, NEW base \in Nat, NEW gpus \in Nat, NEW tpus \in Nat,
         check_requirements(reqs, gpus, tpus) = "Ok",
         NEW limit, limit = effective_concurrency(reqs, base, gpus, tpus)
  PROVE  /\ limit >= 1
         /\ limit <= AtLeastOne(base)
         /\ "Gpu" \in reqs => limit <= gpus
         /\ "Tpu" \in reqs => limit <= tpus
<1>1. /\ "Gpu" \in reqs => gpus # 0
      /\ "Tpu" \in reqs => tpus # 0
  BY DEF check_requirements, satisfying
<1> DEFINE gpu_needed == reqs \cap {"Gpu", "GpuOrTpu"} # {}
           tpu_needed == reqs \cap {"Tpu", "GpuOrTpu"} # {}
           one == Limit(base, gpu_needed, gpus)
           two == Limit(one, tpu_needed, tpus)
<1>2. limit = AtLeastOne(two)
  BY DEF effective_concurrency
<1>3. /\ gpu_needed \in BOOLEAN /\ tpu_needed \in BOOLEAN
      /\ "Gpu" \in reqs => gpu_needed
      /\ "Tpu" \in reqs => tpu_needed
  OBVIOUS
<1> HIDE DEF gpu_needed, tpu_needed
<1>4. /\ one \in Nat /\ one <= base
      /\ gpu_needed /\ gpus # 0 => one <= gpus
  BY <1>3, LimitBounds
<1> HIDE DEF one
<1>5. /\ two \in Nat /\ two <= one
      /\ tpu_needed /\ tpus # 0 => two <= tpus
  BY <1>3, <1>4, LimitBounds
<1> HIDE DEF two
<1> QED
  BY <1>1, <1>2, <1>3, <1>4, <1>5 DEF AtLeastOne

LEMMA DInitInv == DInit => AdmissionInv
<1> SUFFICES ASSUME DInit PROVE AdmissionInv
  OBVIOUS
<1>1. job \in ValidateJobs \cup HardwareJobs /\ out = "none" /\ SearchInit
  BY DEF DInit
<1>2. job.kind = "validate" => SearchInv(job.flow)
  BY <1>1, Jobs, SearchBegins
<1>3. AdmissionDecides
  BY <1>1 DEF AdmissionDecides, ValidateDecides, HardwareLimits
<1> QED
  BY <1>1, <1>2, <1>3 DEF AdmissionInv

LEMMA DNextInv == AdmissionInv /\ [DNext]_dvars => AdmissionInv'
<1> SUFFICES ASSUME AdmissionInv, [DNext]_dvars PROVE AdmissionInv'
  OBVIOUS
<1>1. job \in ValidateJobs \cup HardwareJobs /\ AdmissionDecides
  BY DEF AdmissionInv
<1>2. job' = job
  BY DEF DNext, SearchCycles, Validate, CheckHardware, dvars
<1>3. job' \in ValidateJobs \cup HardwareJobs
  BY <1>1, <1>2 DEF ValidateJobs, HardwareJobs, Devices
<1>4. ASSUME job.kind = "validate" PROVE SearchInv(job.flow)'
  <2>1. PICK f \in Definition : f = job.flow
    BY <1>1, <1>4, Jobs
  <2>2. SearchInv(f)
    BY <1>4, <2>1 DEF AdmissionInv
  <2>3. SearchInv(f)'
    <3>1. CASE SearchCycles
      BY <2>1, <2>2, <3>1, KeepSearch DEF SearchCycles
    <3>2. CASE UNCHANGED svars
      BY <2>2, <3>2 DEF svars, SearchInv, SearchTypeOK, OpenPath, FallsAlong, LookedAt, Numbered,
                        Returned
    <3> QED
      BY <3>1, <3>2 DEF DNext, Validate, CheckHardware, dvars
  <2>4. job'.flow = f
    BY <1>2, <2>1
  <2> QED
    BY <2>3, <2>4
<1>5. ValidateDecides'
  <2>1. CASE Validate
    <3>1. job.kind = "validate" /\ (Searching => SearchEnded(job.flow))
          /\ out' = FlowDef_validate(job.flow) /\ out = "none"
      BY <2>1 DEF Validate
    <3>2. PICK f \in Definition : f = job.flow
      BY <1>1, <3>1, Jobs
    <3>3. SearchInv(f) /\ (f.mode = "Dag" => SearchEnded(f))
      BY <3>1, <3>2 DEF AdmissionInv, Searching
    <3>4. out' = Expected(f)
      BY <3>1, <3>2, <3>3, ValidateExpected
    <3> QED
      BY <1>2, <3>2, <3>4 DEF ValidateDecides
  <2>2. CASE UNCHANGED out \/ CheckHardware
    BY <1>1, <1>2, <2>2 DEF CheckHardware, AdmissionDecides, ValidateDecides
  <2> QED
    BY <2>1, <2>2 DEF DNext, SearchCycles, dvars
<1>6. HardwareLimits'
  <2>1. CASE CheckHardware
    <3>1. job.kind = "hardware" /\ out' = check_requirements(job.reqs, job.gpus, job.tpus)
      BY <2>1 DEF CheckHardware
    <3>2. /\ job.reqs \subseteq Requirement
          /\ job.base \in Nat /\ job.gpus \in Nat /\ job.tpus \in Nat
      BY <1>1, <3>1, Jobs
    <3> QED
      BY <1>2, <3>1, <3>2, HardwareSound DEF HardwareLimits
  <2>2. CASE UNCHANGED out \/ Validate
    BY <1>1, <1>2, <2>2 DEF Validate, AdmissionDecides, HardwareLimits
  <2> QED
    BY <2>1, <2>2 DEF DNext, SearchCycles, dvars
<1> QED
  BY <1>2, <1>3, <1>4, <1>5, <1>6 DEF AdmissionInv, AdmissionDecides

\* FlowDef::validate and the hardware check decide right, for any number of
\* steps, any set of definitions and any devices: the search for cycles stops
\* with a cycle exactly where there is one, in whatever order it takes the
\* steps and their dependencies, and every other refusal is deserved.
THEOREM AdmissionCorrect == DSpec => []AdmissionDecides
<1>1. AdmissionInv => AdmissionDecides
  BY DEF AdmissionInv
<1> QED
  BY <1>1, DInitInv, DNextInv, PTL DEF DSpec

(***************************************************************************)
(* A flow that was built with the tools.                                   *)
(***************************************************************************)

\* The steps that the flow holds, each once.
Used == {flow.steps[k] : k \in DOMAIN flow.steps}

\* The types as the proofs use them.
LEMMA MadeShape ==
  ASSUME AuthoringInv
  PROVE  /\ N \in Nat /\ Len(made) \in Nat /\ DOMAIN made = 1 .. Len(made)
         /\ DOMAIN made \subseteq Step /\ Used \subseteq DOMAIN made
         /\ \A i \in DOMAIN made : /\ made[i].id = i /\ made[i].deps \subseteq Node
                                   /\ made[i].deps \subseteq 1 .. i - 1 \cup {Unknown}
         /\ Len(flow.steps) \in Nat /\ DOMAIN flow.steps = 1 .. Len(flow.steps)
<1> DEFINE Made == [id : Step, name : StepName, deps : SUBSET Node]
<1>1. made \in Seq(Made) /\ flow.steps \in Seq(Step)
  BY DEF AuthoringInv, MadeInOrder
<1>2. /\ Len(made) \in Nat /\ DOMAIN made = 1 .. Len(made)
      /\ Len(flow.steps) \in Nat /\ DOMAIN flow.steps = 1 .. Len(flow.steps)
  BY <1>1, LenProperties
<1>3. \A i \in DOMAIN made : made[i] \in Made
  BY <1>1, <1>2, ElementOfSeq
<1>4. \A i \in DOMAIN made : made[i].id = i /\ made[i].deps \subseteq 1 .. i - 1 \cup {Unknown}
  BY DEF AuthoringInv, MadeInOrder
<1>5. \A i \in DOMAIN made : made[i].id \in Step /\ made[i].deps \subseteq Node
  BY <1>3
<1>6. DOMAIN made \subseteq Step
  BY <1>4, <1>5
<1>7. Used \subseteq DOMAIN made
  BY DEF Used, AuthoringInv
<1> QED
  BY <1>2, <1>4, <1>5, <1>6, <1>7, NAssumption

\* The definition that flow_validate parses: the steps of the flow, whatever
\* their order and however often they were added.
LEMMA ParsedShape ==
  ASSUME AuthoringInv
  PROVE  /\ Parsed.mode = flow.mode
         /\ Parsed.deps = [s \in Step |-> IF s \in Used THEN made[s].deps ELSE {}]
         /\ Parsed.trigger = [s \in Step |-> "All"]
         /\ Parsed.up = [s \in Step |-> IF s \in Used THEN 0 ELSE N]
         /\ OwnSteps(Parsed) = Used
         /\ flow.mode \in Mode => Parsed \in Definition
<1> DEFINE at(s) == {k \in DOMAIN flow.steps : made[flow.steps[k]].id = s}
           of(s) == made[flow.steps[CHOOSE k \in at(s) : \A j \in at(s) : j <= k]]
<1>1. ASSUME NEW s \in Step PROVE /\ at(s) # {} <=> s \in Used
                                  /\ at(s) # {} => of(s) = made[s]
  <2>1. at(s) = {k \in DOMAIN flow.steps : flow.steps[k] = s}
    BY MadeShape DEF Used
  <2>2. at(s) # {} <=> s \in Used
    BY <2>1 DEF Used
  <2>3. ASSUME at(s) # {} PROVE of(s) = made[s]
    <3>1. \E k \in at(s) : \A j \in at(s) : j <= k
      <4>1. at(s) \in SUBSET (0 .. Len(flow.steps)) /\ Len(flow.steps) \in Nat
        BY MadeShape
      <4> HIDE DEF at
      <4> QED
        BY <2>3, <4>1, LargestOf
    <3> DEFINE k == CHOOSE k \in at(s) : \A j \in at(s) : j <= k
    <3>2. k \in at(s)
      <4> HIDE DEF at
      <4> QED
        BY <3>1
    <3> HIDE DEF k
    <3>3. flow.steps[k] = s
      BY <2>1, <3>2
    <3> QED
      BY <3>3 DEF k
  <2> QED
    BY <2>2, <2>3
<1>2. Parsed = [mode |-> flow.mode,
                deps |-> [s \in Step |-> IF at(s) = {} THEN {} ELSE of(s).deps],
                trigger |-> [s \in Step |-> "All"],
                up |-> [s \in Step |-> IF at(s) = {} THEN N ELSE 0]]
  BY DEF Parsed, Parse
<1> HIDE DEF at, of
<1>3. /\ Parsed.mode = flow.mode
      /\ Parsed.deps = [s \in Step |-> IF s \in Used THEN made[s].deps ELSE {}]
      /\ Parsed.trigger = [s \in Step |-> "All"]
      /\ Parsed.up = [s \in Step |-> IF s \in Used THEN 0 ELSE N]
  BY <1>1, <1>2
<1>4. OwnSteps(Parsed) = Used
  <2>1. \A s \in Step : N # 0
    BY NAssumption DEF Step
  <2>2. Used \subseteq Step
    BY MadeShape
  <2> QED
    BY <1>3, <2>1, <2>2 DEF OwnSteps
<1>5. ASSUME flow.mode \in Mode PROVE Parsed \in Definition
  <2>1. Parsed.deps \in [Step -> SUBSET Node]
    <3>1. ASSUME NEW s \in Step PROVE (IF s \in Used THEN made[s].deps ELSE {}) \subseteq Node
      BY MadeShape
    <3> QED
      BY <1>3, <3>1
  <2>2. Parsed.up \in [Step -> 0 .. N]
    BY <1>3, NAssumption
  <2>3. Parsed.trigger \in [Step -> Trigger]
    BY <1>3 DEF Trigger
  <2>4. Parsed = [mode |-> Parsed.mode, deps |-> Parsed.deps, trigger |-> Parsed.trigger,
                  up |-> Parsed.up]
    BY <1>2
  <2> QED
    BY <1>3, <1>5, <2>1, <2>2, <2>3, <2>4 DEF Definition, Node
<1> QED
  BY <1>3, <1>4, <1>5

\* A step depends only on steps made before it.
LEMMA ParsedAcyclic ==
  ASSUME AuthoringInv
  PROVE  Acyclic(OwnDeps(Parsed))
<1> DEFINE rank == [s \in Step |-> s]
<1>1. ASSUME NEW s \in Step, NEW d \in OwnDeps(Parsed)[s] PROVE rank[d] < rank[s]
  <2>1. OwnSteps(Parsed) = Used /\ Parsed.deps[s] = IF s \in Used THEN made[s].deps ELSE {}
    BY ParsedShape
  <2>2. s \in Used /\ d \in made[s].deps /\ d \in Used
    BY <2>1 DEF OwnDeps
  <2>3. d \in Step /\ s \in DOMAIN made
    BY <2>2, MadeShape
  <2>4. d \in 1 .. s - 1 \cup {Unknown}
    BY <2>2, <2>3, MadeShape
  <2>5. d # Unknown /\ s \in Int
    BY <2>3, NAssumption DEF Step, Unknown
  <2> QED
    BY <2>3, <2>4, <2>5
<1>2. rank \in [Step -> Step]
  OBVIOUS
<1> HIDE DEF rank
<1> QED
  BY <1>1, <1>2 DEF Acyclic

\* So the verdict is about the dependencies that were not added.
LEMMA ParsedExpected ==
  ASSUME AuthoringInv, flow.mode \in Mode
  PROVE  Expected(Parsed) =
            IF (IF flow.mode = "Dag" THEN Closed ELSE Bare) THEN "Ok" ELSE "InvalidFlow"
<1>1. /\ Parsed.mode = flow.mode /\ OwnSteps(Parsed) = Used /\ Used \subseteq Step
      /\ \A s \in Step : Parsed.deps[s] = IF s \in Used THEN made[s].deps ELSE {}
      /\ \A s \in Step : Parsed.trigger[s] = "All"
  BY ParsedShape, MadeShape
<1>2. Closed <=> \A s \in Used : made[s].deps \subseteq Used
  <2>1. {made[flow.steps[k]].id : k \in DOMAIN flow.steps} = Used
    BY MadeShape DEF Used
  <2> QED
    BY <2>1 DEF Closed, Used
<1>3. Bare <=> \A s \in Used : made[s].deps = {}
  BY DEF Bare, Used
<1>4. \A s \in Used : OwnDeps(Parsed)[s] = made[s].deps \cap Used
  BY <1>1 DEF OwnDeps
<1>5. CASE flow.mode = "Dag"
  <2>1. Closed <=> \A s \in Used : Parsed.deps[s] = OwnDeps(Parsed)[s]
    <3>1. ASSUME NEW s \in Used
          PROVE  made[s].deps \subseteq Used <=> Parsed.deps[s] = OwnDeps(Parsed)[s]
      <4>1. Parsed.deps[s] = made[s].deps /\ OwnDeps(Parsed)[s] = made[s].deps \cap Used
        BY <1>1, <1>4
      <4> QED
        BY <4>1
    <3> QED
      BY <1>2, <3>1
  <2> QED
    BY <1>1, <1>5, <2>1, ParsedAcyclic DEF Expected
<1>6. CASE flow.mode # "Dag"
  <2>1. Bare <=> \A s \in Used : Parsed.deps[s] = {}
    BY <1>1, <1>3
  <2>2. Bare <=> \A s \in Step : Parsed.deps[s] = {}
    BY <1>1, <1>3
  <2> QED
    BY <1>1, <1>6, <2>1, <2>2 DEF Expected
<1> QED
  BY <1>5, <1>6

LEMMA TerminalStates ==
  ASSUME NEW s \in WorkflowState
  PROVE  is_terminal(s) <=> {t \in WorkflowState : valid_transition(s, t)} = {}
<1>1. ASSUME is_terminal(s), NEW t PROVE ~valid_transition(s, t)
  BY <1>1 DEF is_terminal, valid_transition
<1>2. ASSUME ~is_terminal(s) PROVE \E t \in WorkflowState : valid_transition(s, t)
  <2>1. CASE s = "Created"
    BY <2>1 DEF valid_transition, WorkflowState
  <2>2. CASE s = "Running"
    BY <2>2 DEF valid_transition, WorkflowState
  <2>3. CASE s = "Paused"
    BY <2>3 DEF valid_transition, WorkflowState
  <2>4. CASE s = "Failed"
    BY <2>4 DEF valid_transition, WorkflowState
  <2>5. CASE s = "RollingBack"
    BY <2>5 DEF valid_transition, WorkflowState
  <2> QED
    BY <1>2, <2>1, <2>2, <2>3, <2>4, <2>5 DEF is_terminal, WorkflowState
<1> QED
  BY <1>1, <1>2

\* What the verdict says of the flow.
Verdict == IF (IF flow.mode = "Dag" THEN Closed ELSE Bare) THEN "Ok" ELSE "InvalidFlow"

LEMMA SoundParts ==
  AuthoringSound <=>
    /\ judged \notin {"none", "asked"} => judged = Verdict
    /\ is_terminal(wstate) <=> {t \in WorkflowState : valid_transition(wstate, t)} = {}
BY DEF AuthoringSound, Verdict, StateCheck

\* What an action has to show.
LEMMA SoundAfter ==
  ASSUME wstate' \in WorkflowState,
         judged' \notin {"none", "asked"} => judged' = Verdict'
  PROVE  AuthoringSound'
<1>1. is_terminal(wstate') <=> {t \in WorkflowState : valid_transition(wstate', t)} = {}
  BY TerminalStates
<1> QED
  BY <1>1 DEF AuthoringSound, Verdict, StateCheck, WorkflowState, is_terminal, valid_transition

LEMMA AInitInv == AInit => AuthoringInv
<1> SUFFICES ASSUME AInit PROVE AuthoringInv
  OBVIOUS
<1>1. made = <<>> /\ flow = NoFlow /\ judged = "none" /\ wstate = "Created"
  BY DEF AInit
<1>2. MadeInOrder
  BY <1>1, EmptySeq DEF MadeInOrder
<1>3. /\ flow = [mode |-> flow.mode, steps |-> flow.steps] /\ flow.steps = <<>>
  BY <1>1 DEF NoFlow
<1>4. flow.steps \in Seq(Step) /\ DOMAIN flow.steps = {}
  BY <1>3, EmptySeq
<1>5. wstate \in WorkflowState
  BY <1>1 DEF WorkflowState
<1>6. AuthoringSound
  BY <1>1, <1>5, TerminalStates, SoundParts
<1> QED
  BY <1>1, <1>2, <1>3, <1>4, <1>5, <1>6 DEF AuthoringInv

LEMMA KeepStepCreate ==
  ASSUME AuthoringInv, NEW name \in StepName, NEW deps \in SUBSET Node, StepCreate(name, deps)
  PROVE  AuthoringInv'
<1> DEFINE Made == [id : Step, name : StepName, deps : SUBSET Node]
           L == Len(made)
           x == [id |-> L + 1, name |-> name, deps |-> deps]
<1>1. /\ judged # "asked" /\ L < N /\ deps \subseteq KnownIds
      /\ made' = Append(made, x) /\ UNCHANGED <<flow, judged, wstate, svars>>
  BY DEF StepCreate, new_id
<1>2. /\ N \in Nat /\ L \in Nat /\ DOMAIN made = 1 .. L /\ made \in Seq(Made)
      /\ \A i \in DOMAIN made : made[i].id = i /\ made[i].deps \subseteq 1 .. i - 1 \cup {Unknown}
  BY MadeShape DEF AuthoringInv, MadeInOrder
<1>3. x \in Made
  BY <1>1, <1>2 DEF Step
<1>4. /\ made' \in Seq(Made) /\ DOMAIN made' = 1 .. L + 1
      /\ made'[L + 1] = x /\ \A i \in 1 .. L : made'[i] = made[i]
  <2>1. /\ made' \in Seq(Made) /\ Len(made') = L + 1
        /\ made'[L + 1] = x /\ \A i \in 1 .. L : made'[i] = made[i]
    BY <1>1, <1>2, <1>3, AppendProperties
  <2> QED
    BY <2>1, LenProperties
<1>5. deps \subseteq 1 .. L \cup {Unknown}
  BY <1>1, <1>2 DEF KnownIds
<1>6. x.id = L + 1 /\ x.deps = deps
  OBVIOUS
<1> HIDE DEF x, L
<1>7. ASSUME NEW i \in 1 .. L + 1
      PROVE  made'[i].id = i /\ made'[i].deps \subseteq 1 .. i - 1 \cup {Unknown}
  <2>1. CASE i \in 1 .. L
    BY <1>2, <1>4, <2>1
  <2>2. CASE i = L + 1
    <3>1. i - 1 = L
      BY <1>2, <2>2
    <3> QED
      BY <1>4, <1>5, <1>6, <2>2, <3>1
  <2> QED
    BY <1>2, <2>1, <2>2
<1>8. MadeInOrder'
  BY <1>4, <1>7 DEF MadeInOrder, Node, Step, Unknown
<1>9. \A k \in DOMAIN flow.steps : /\ flow.steps[k] \in DOMAIN made'
                                   /\ made'[flow.steps[k]] = made[flow.steps[k]]
  <2>1. \A k \in DOMAIN flow.steps : flow.steps[k] \in 1 .. L
    BY <1>2 DEF AuthoringInv
  <2> QED
    BY <1>2, <1>4, <2>1
<1>10. AuthoringSound'
  <2>1. Closed' <=> Closed
    BY <1>1, <1>9 DEF Closed
  <2>2. Bare' <=> Bare
    BY <1>1, <1>9 DEF Bare
  <2>3. Verdict' = Verdict
    BY <1>1, <2>1, <2>2 DEF Verdict
  <2>4. judged \notin {"none", "asked"} => judged = Verdict
    BY SoundParts DEF AuthoringInv
  <2>5. wstate' \in WorkflowState
    BY <1>1 DEF AuthoringInv, WorkflowState
  <2> QED
    BY <1>1, <2>3, <2>4, <2>5, SoundAfter
<1> QED
  BY <1>1, <1>8, <1>9, <1>10 DEF AuthoringInv, Mode, NoFlow, WorkflowState, Step

\* flow_create and flow_add_step: the flow has other steps, and no verdict.
LEMMA KeepFlowSteps ==
  ASSUME AuthoringInv, UNCHANGED <<made, wstate>>, judged' = "none",
         flow' = [mode |-> flow'.mode, steps |-> flow'.steps], flow'.mode \in Mode,
         flow'.steps \in Seq(DOMAIN made)
  PROVE  AuthoringInv'
<1>1. MadeInOrder' /\ DOMAIN made' = DOMAIN made
  BY DEF AuthoringInv, MadeInOrder, Node, Step, Unknown
<1>2. wstate' \in WorkflowState
  BY DEF AuthoringInv, WorkflowState
<1>3. AuthoringSound'
  BY <1>2, SoundAfter
<1>4. \A k \in DOMAIN flow'.steps : flow'.steps[k] \in DOMAIN made'
  BY <1>1, ElementOfSeq, LenProperties
<1>5. flow'.steps \in Seq(Step)
  <2>1. DOMAIN made \subseteq Step
    BY MadeShape
  <2>2. /\ Len(flow'.steps) \in Nat
        /\ flow'.steps \in [1 .. Len(flow'.steps) -> DOMAIN made]
    BY LenProperties
  <2>3. flow'.steps \in [1 .. Len(flow'.steps) -> Step]
    BY <2>1, <2>2
  <2> QED
    BY <2>2, <2>3, SeqDef
<1> QED
  BY <1>1, <1>2, <1>3, <1>4, <1>5 DEF AuthoringInv, Mode, NoFlow, WorkflowState, Step

LEMMA KeepFlowCreate ==
  ASSUME AuthoringInv, NEW mode \in Mode, NEW i \in 0 .. Len(made),
         FlowCreate(mode, IF i = 0 THEN <<>> ELSE <<i>>)
  PROVE  AuthoringInv'
<1> DEFINE steps == IF i = 0 THEN <<>> ELSE <<i>>
<1>1. /\ flow' = [mode |-> mode, steps |-> steps] /\ judged' = "none"
      /\ UNCHANGED <<made, wstate>>
  BY DEF FlowCreate
<1>2. steps \in Seq(DOMAIN made)
  <2>1. Len(made) \in Nat /\ DOMAIN made = 1 .. Len(made)
    BY MadeShape
  <2>2. CASE i = 0
    BY <2>2, EmptySeq
  <2>3. CASE i # 0
    <3>1. i \in DOMAIN made
      BY <2>1, <2>3
    <3> QED
      BY <2>3, <3>1
  <2> QED
    BY <2>2, <2>3
<1> HIDE DEF steps
<1>3. flow'.mode = mode /\ flow'.steps = steps
  BY <1>1
<1> QED
  BY <1>1, <1>2, <1>3, KeepFlowSteps

LEMMA KeepFlowAddStep ==
  ASSUME AuthoringInv, NEW i \in DOMAIN made, FlowAddStep(i)
  PROVE  AuthoringInv'
<1>1. /\ flow # NoFlow /\ judged' = "none" /\ UNCHANGED <<made, wstate>>
      /\ flow' = [flow EXCEPT !.steps = Append(@, i)]
  BY DEF FlowAddStep
<1>2. /\ flow = [mode |-> flow.mode, steps |-> flow.steps] /\ flow.mode \in Mode
      /\ flow.steps \in Seq(Step) /\ \A k \in DOMAIN flow.steps : flow.steps[k] \in DOMAIN made
  BY <1>1 DEF AuthoringInv
<1>3. flow' = [mode |-> flow.mode, steps |-> Append(flow.steps, i)]
  BY <1>1, <1>2
<1>4. flow'.mode = flow.mode /\ flow'.steps = Append(flow.steps, i)
  BY <1>3
<1>5. flow.steps \in Seq(DOMAIN made)
  <2>1. /\ Len(flow.steps) \in Nat /\ DOMAIN flow.steps = 1 .. Len(flow.steps)
        /\ flow.steps \in [1 .. Len(flow.steps) -> Step]
    BY <1>2, LenProperties
  <2>2. flow.steps \in [1 .. Len(flow.steps) -> DOMAIN made]
    BY <1>2, <2>1
  <2> QED
    BY <2>1, <2>2, SeqDef
<1>6. Append(flow.steps, i) \in Seq(DOMAIN made)
  BY <1>5, AppendProperties
<1> QED
  BY <1>1, <1>2, <1>3, <1>4, <1>6, KeepFlowSteps

\* The rest changes neither the steps nor the flow.
LEMMA KeepJudging ==
  ASSUME AuthoringInv, UNCHANGED <<made, flow>>, wstate' \in WorkflowState,
         flow.mode \in Mode \/ judged' = "none",
         judged' = "asked" => SearchInv(Parsed)',
         judged' \notin {"none", "asked"} => judged' = Verdict
  PROVE  AuthoringInv'
<1>1. MadeInOrder'
  BY DEF AuthoringInv, MadeInOrder, Node, Step, Unknown
<1>2. Verdict' = Verdict
  BY DEF Verdict, Closed, Bare
<1>3. AuthoringSound'
  BY <1>2, SoundAfter
<1> QED
  BY <1>1, <1>3 DEF AuthoringInv, Mode, NoFlow, WorkflowState, Step

LEMMA KeepValidate ==
  ASSUME AuthoringInv, Ask \/ SearchFlow \/ Judge
  PROVE  AuthoringInv'
<1>1. /\ UNCHANGED <<made, flow, wstate>> /\ wstate \in WorkflowState
      /\ flow # NoFlow \/ judged # "none"
  BY DEF Ask, SearchFlow, Judge, AuthoringInv
<1>2. flow.mode \in Mode
  BY <1>1 DEF AuthoringInv
<1>3. PICK f \in Definition : f = Parsed
  BY <1>2, ParsedShape
<1>4. Parsed' = f
  BY <1>1, <1>3 DEF Parsed
<1>5. CASE Ask
  <2>1. SearchInv(f)' /\ judged' = "asked"
    BY <1>5, SearchBeginsAgain DEF Ask
  <2> QED
    BY <1>1, <1>2, <1>4, <2>1, KeepJudging
<1>6. CASE SearchFlow
  <2>1. judged = "asked" /\ judged' = judged /\ Search(f)
    BY <1>3, <1>6 DEF SearchFlow
  <2>2. SearchInv(f)
    BY <1>3, <2>1 DEF AuthoringInv
  <2>3. SearchInv(f)'
    BY <2>1, <2>2, KeepSearch
  <2> QED
    BY <1>1, <1>2, <1>4, <2>1, <2>3, KeepJudging
<1>7. CASE Judge
  <2>1. judged = "asked" /\ (flow.mode = "Dag" => SearchEnded(f)) /\ judged' = FlowDef_validate(f)
    BY <1>3, <1>7 DEF Judge
  <2>2. SearchInv(f) /\ f.mode = flow.mode
    BY <1>3, <2>1, ParsedShape DEF AuthoringInv
  <2>3. judged' = Expected(f)
    BY <2>1, <2>2, ValidateExpected
  <2>4. Expected(f) = Verdict
    BY <1>2, <1>3, ParsedExpected DEF Verdict
  <2>5. judged' # "asked"
    BY <2>3, <2>4 DEF Verdict
  <2> QED
    BY <1>1, <1>2, <2>3, <2>4, <2>5, KeepJudging
<1> QED
  BY <1>5, <1>6, <1>7

LEMMA KeepStateTransition ==
  ASSUME AuthoringInv, NEW to \in WorkflowState, StateTransition(to)
  PROVE  AuthoringInv'
<1>1. UNCHANGED <<made, flow, judged, svars>> /\ wstate' \in WorkflowState
  BY DEF StateTransition, WorkflowState
<1>2. judged \notin {"none", "asked"} => judged = Verdict
  BY SoundParts DEF AuthoringInv
<1>3. judged' = "asked" => SearchInv(Parsed)'
  <2>1. judged = "asked" => SearchInv(Parsed)
    BY DEF AuthoringInv
  <2> QED
    BY <1>1, <2>1 DEF svars, Parsed, SearchInv, SearchTypeOK, OpenPath, FallsAlong, LookedAt,
                      Numbered, Returned
<1>4. flow.mode \in Mode \/ judged' = "none"
  BY <1>1 DEF AuthoringInv
<1> QED
  BY <1>1, <1>2, <1>3, <1>4, KeepJudging

LEMMA ANextInv == AuthoringInv /\ [BuildFlow \/ WalkStates]_avars => AuthoringInv'
<1> SUFFICES ASSUME AuthoringInv, [BuildFlow \/ WalkStates]_avars PROVE AuthoringInv'
  OBVIOUS
<1>1. CASE \E name \in StepName, deps \in SUBSET Node : StepCreate(name, deps)
  BY <1>1, KeepStepCreate
<1>2. CASE \E mode \in Mode, i \in 0 .. Len(made) : FlowCreate(mode, IF i = 0 THEN <<>> ELSE <<i>>)
  BY <1>2, KeepFlowCreate
<1>3. CASE \E i \in DOMAIN made : FlowAddStep(i)
  BY <1>3, KeepFlowAddStep
<1>4. CASE Ask \/ SearchFlow \/ Judge
  BY <1>4, KeepValidate
<1>5. CASE WalkStates
  BY <1>5, KeepStateTransition DEF WalkStates
<1>6. CASE UNCHANGED avars
  <2>1. UNCHANGED <<made, flow, judged, wstate, svars>>
    BY <1>6 DEF avars
  <2>2. judged \notin {"none", "asked"} => judged = Verdict
    BY SoundParts DEF AuthoringInv
  <2>3. judged' = "asked" => SearchInv(Parsed)'
    <3>1. judged = "asked" => SearchInv(Parsed)
      BY DEF AuthoringInv
    <3> QED
      BY <2>1, <3>1 DEF svars, Parsed, SearchInv, SearchTypeOK, OpenPath, FallsAlong, LookedAt,
                        Numbered, Returned
  <2>4. (flow.mode \in Mode \/ judged' = "none") /\ wstate' \in WorkflowState
    BY <2>1 DEF AuthoringInv, WorkflowState
  <2> QED
    BY <2>1, <2>2, <2>3, <2>4, KeepJudging
<1> QED
  BY <1>1, <1>2, <1>3, <1>4, <1>5, <1>6 DEF BuildFlow

\* A flow built with the tools never has a cycle, for any number of steps and
\* names: flow_validate refuses it only for a dependency that was not added,
\* or for any outside of Dag; and the terminal states are those without a way out.
THEOREM AuthoringIsSound == ASpec => []AuthoringSound
<1>1. AuthoringInv => AuthoringSound
  BY DEF AuthoringInv
<1> QED
  BY <1>1, AInitInv, ANextInv, PTL DEF ASpec
=============================================================================
