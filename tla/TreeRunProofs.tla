---------------------------- MODULE TreeRunProofs ----------------------------
(***************************************************************************)
(* run_sequential and run_hierarchical, for every number of steps, every   *)
(* tree and every condition: IInv is inductive, the properties follow, and *)
(* both executors keep their contract.                                     *)
(***************************************************************************)
EXTENDS TreeRun, SequenceTheorems, WellFoundedInduction, TLAPS

(***************************************************************************)
(* The shape of a tree.                                                    *)
(***************************************************************************)

LEMMA Depths ==
  ASSUME TypeOK
  PROVE  /\ N \in Nat /\ Step \subseteq Nat /\ 0 \notin Step /\ N + 1 \notin Step
         /\ \A x \in Int : x \in Step <=> 1 <= x /\ x <= N
         /\ \A u \in Step : tree.depth[u] \in Nat /\ tree.depth[u] >= 1
         /\ 1 \in Step => tree.depth[1] = 1
         /\ \A u \in Step : u # 1 => u - 1 \in Step /\ tree.depth[u] <= tree.depth[u - 1] + 1
<1>1. /\ N \in Nat /\ Step \subseteq Nat /\ 0 \notin Step /\ N + 1 \notin Step
      /\ \A x \in Int : x \in Step <=> 1 <= x /\ x <= N
  BY NAssumption DEF Step
<1>2. tree.depth \in [Step -> 1 .. N] /\ Shape(tree.depth)
  BY DEF TypeOK, Tree
<1>3. \A u \in Step : tree.depth[u] \in Nat /\ tree.depth[u] >= 1
  BY <1>1, <1>2
<1>4. 1 \in Step => tree.depth[1] = 1
  <2> SUFFICES ASSUME 1 \in Step PROVE tree.depth[1] = 1
    OBVIOUS
  <2>1. tree.depth[1] <= 1
    BY <1>2 DEF Shape
  <2> QED
    BY <1>3, <2>1
<1>5. ASSUME NEW u \in Step, u # 1
      PROVE  u - 1 \in Step /\ tree.depth[u] <= tree.depth[u - 1] + 1
  <2>1. u - 1 \in Step
    BY <1>1, <1>5
  <2> QED
    BY <1>2, <1>5, <2>1 DEF Shape
<1> QED
  BY <1>1, <1>3, <1>4, <1>5

\* A subtree is the interval up to the next step that is not deeper.
LEMMA Subtree ==
  ASSUME TypeOK, NEW s \in Step
  PROVE  /\ SubtreeEnd(s) \in s .. N /\ SubtreeEnd(s) \in Step
         /\ \A u \in s + 1 .. SubtreeEnd(s) : u \in Step /\ tree.depth[u] > tree.depth[s]
         /\ SubtreeEnd(s) < N => /\ SubtreeEnd(s) + 1 \in Step
                                 /\ tree.depth[SubtreeEnd(s) + 1] <= tree.depth[s]
<1> DEFINE d == tree.depth
           B == {u \in Nat : u \in s + 1 .. N /\ d[u] <= d[s]}
           Ends(e) == /\ \A u \in s + 1 .. e : d[u] > d[s]
                      /\ e < N => d[e + 1] <= d[s]
<1>1. /\ N \in Nat /\ s \in Nat /\ 1 <= s /\ s <= N
      /\ \A x \in Int : x \in Step <=> 1 <= x /\ x <= N
      /\ \A u \in Step : d[u] \in Nat
  BY Depths
<1> HIDE DEF d
<1>2. \E e \in s .. N : Ends(e)
  <2>1. CASE B = {}
    <3>1. ASSUME NEW u \in s + 1 .. N PROVE d[u] > d[s]
      <4>1. u \in Nat /\ u \in Step
        BY <1>1
      <4>2. ~(d[u] <= d[s])
        BY <2>1, <4>1
      <4> QED
        BY <1>1, <4>1, <4>2
    <3>2. N \in s .. N /\ ~(N < N)
      BY <1>1
    <3> QED
      BY <3>1, <3>2
  <2>2. CASE B # {}
    <3>1. PICK b \in B : \A y \in B : ~(<<y, b>> \in OpToRel(<, Nat))
      <4>1. IsWellFoundedOn(OpToRel(<, Nat), Nat)
        BY NatLessThanWellFounded
      <4>2. B \subseteq Nat
        OBVIOUS
      <4> HIDE DEF B
      <4> QED
        BY <2>2, <4>1, <4>2, WFMin
    <3>2. b \in s + 1 .. N /\ b \in Nat /\ d[b] <= d[s]
      OBVIOUS
    <3>3. b - 1 \in s .. N /\ (b - 1) + 1 = b
      BY <1>1, <3>2
    <3>4. ASSUME NEW u \in s + 1 .. b - 1 PROVE d[u] > d[s]
      <4>1. u \in Nat /\ u < b /\ u \in s + 1 .. N /\ u \in Step
        BY <1>1, <3>2
      <4>2. <<u, b>> \in OpToRel(<, Nat)
        BY <3>2, <4>1 DEF OpToRel
      <4>3. u \notin B
        BY <3>1, <4>2
      <4>4. ~(d[u] <= d[s])
        BY <4>1, <4>3
      <4> QED
        BY <1>1, <4>1, <4>4
    <3>5. d[(b - 1) + 1] <= d[s]
      BY <3>2, <3>3
    <3> QED
      BY <3>3, <3>4, <3>5
  <2> QED
    BY <2>1, <2>2
<1>3. PICK e : e = SubtreeEnd(s)
  OBVIOUS
<1>4. e \in s .. N /\ Ends(e)
  <2>1. e = CHOOSE x \in s .. N : Ends(x)
    BY <1>3 DEF SubtreeEnd, d
  <2> HIDE DEF Ends
  <2> QED
    BY <1>2, <2>1
<1>5. e \in Step /\ \A u \in s + 1 .. e : u \in Step
  BY <1>1, <1>4
<1>6. e < N => e + 1 \in Step
  BY <1>1, <1>4
<1> QED
  BY <1>3, <1>4, <1>5, <1>6 DEF d

(***************************************************************************)
(* Where the walk is.                                                      *)
(***************************************************************************)

LEMMA Typed ==
  ASSUME IInv
  PROVE  /\ TypeOK
         /\ results \in Seq(StepResult) /\ Len(results) \in Nat /\ DOMAIN results = 1 .. Len(results)
         /\ \A i \in DOMAIN results : results[i] \in StepResult /\ results[i].step \in Step
         /\ Len(frames) \in Nat /\ DOMAIN frames = 1 .. Len(frames)
         /\ \A k \in DOMAIN frames :
              frames[k] \in [first : 1 .. N + 1, last : 0 .. N, next : 1 .. N + 1, failed : BOOLEAN]
<1>1. TypeOK
  BY DEF IInv
<1>2. results \in Seq(StepResult)
  BY <1>1 DEF TypeOK
<1>3. /\ Len(results) \in Nat /\ DOMAIN results = 1 .. Len(results)
      /\ \A i \in DOMAIN results : results[i] \in StepResult
  BY <1>2, LenProperties, ElementOfSeq
<1>4. \A r \in StepResult : r.step \in Step
  BY DEF StepResult
<1>5. frames \in Seq([first : 1 .. N + 1, last : 0 .. N, next : 1 .. N + 1, failed : BOOLEAN])
  BY <1>1 DEF TypeOK
<1>6. /\ Len(frames) \in Nat /\ DOMAIN frames = 1 .. Len(frames)
      /\ \A k \in DOMAIN frames :
           frames[k] \in [first : 1 .. N + 1, last : 0 .. N, next : 1 .. N + 1, failed : BOOLEAN]
  BY <1>5, LenProperties, ElementOfSeq
<1> QED
  BY <1>1, <1>2, <1>3, <1>4, <1>6

\* The innermost call.
LEMMA Innermost ==
  ASSUME IInv, frames # <<>>
  PROVE  /\ Len(frames) \in Nat /\ Len(frames) >= 1 /\ Len(frames) \in DOMAIN frames /\ 1 \in DOMAIN frames
         /\ Top = frames[Len(frames)]
         /\ Top \in [first : 1 .. N + 1, last : 0 .. N, next : 1 .. N + 1, failed : BOOLEAN]
         /\ Top.first \in Nat /\ Top.first >= 1 /\ Top.last \in Nat /\ Top.last <= N
         /\ Top.next \in Nat /\ Top.failed \in BOOLEAN
         /\ FrameOK(Top)
<1>1. frames \in Seq([first : 1 .. N + 1, last : 0 .. N, next : 1 .. N + 1, failed : BOOLEAN])
  BY DEF IInv, TypeOK
<1>2. Len(frames) \in Nat \ {0}
  BY <1>1, EmptySeq
<1>3. Len(frames) >= 1 /\ Len(frames) \in DOMAIN frames /\ 1 \in DOMAIN frames
  BY <1>2, Typed
<1>4. Top = frames[Len(frames)]
  BY DEF Top
<1>5. Top \in [first : 1 .. N + 1, last : 0 .. N, next : 1 .. N + 1, failed : BOOLEAN]
  BY <1>3, <1>4, Typed
<1>6. N \in Nat
  BY NAssumption
<1>7. /\ Top.first \in 1 .. N + 1 /\ Top.last \in 0 .. N /\ Top.next \in 1 .. N + 1
      /\ Top.failed \in BOOLEAN
  BY <1>5
<1>8. /\ Top.first \in Nat /\ Top.first >= 1 /\ Top.last \in Nat /\ Top.last <= N
      /\ Top.next \in Nat
  BY <1>6, <1>7
<1>9. FrameOK(Top)
  BY <1>3, <1>4 DEF IInv, Stack
<1> QED
  BY <1>2, <1>3, <1>4, <1>5, <1>7, <1>8, <1>9

\* The innermost call stands at a step s.
Stands(s) == frames # <<>> /\ s = Top.next /\ Top.next <= Top.last

LEMMA Standing ==
  ASSUME IInv, NEW s \in Step, (At(s) \/ running = s)
  PROVE  Stands(s)
<1>1. CASE At(s)
  BY <1>1 DEF At, Stands
<1>2. CASE running = s
  <2>1. s # 0
    BY Depths, Typed
  <2> QED
    BY <1>2, <2>1 DEF IInv, Position, Stands
<1> QED
  BY <1>1, <1>2

LEMMA AtStep ==
  ASSUME IInv, NEW s \in Step, Stands(s)
  PROVE  /\ Top.first \in Step /\ Top.last \in Step /\ Top.first <= s /\ s <= Top.last
         /\ tree.depth[s] = tree.depth[Top.first]
         /\ SubtreeEnd(s) <= Top.last
         /\ SubtreeEnd(s) + 1 <= Top.last => tree.depth[SubtreeEnd(s) + 1] = tree.depth[Top.first]
         /\ s \in Walked
<1>1. /\ N \in Nat /\ s \in Nat /\ 1 <= s /\ s <= N
      /\ \A x \in Int : x \in Step <=> 1 <= x /\ x <= N
      /\ \A u \in Step : tree.depth[u] \in Nat
      /\ 1 \in Step => tree.depth[1] = 1
  BY Depths, Typed
<1>2. s = Top.next /\ Top.next <= Top.last /\ frames # <<>>
  BY DEF Stands
<1>3. /\ Top.first \in Nat /\ Top.first >= 1 /\ Top.last \in Nat /\ Top.last <= N
      /\ Top.first <= Top.next
      /\ \A u \in Top.first .. Top.last : tree.depth[u] >= tree.depth[Top.first]
      /\ Top.last < N => tree.depth[Top.last + 1] < tree.depth[Top.first]
      /\ tree.depth[s] = tree.depth[Top.first]
  BY <1>2, Innermost DEF FrameOK
<1>4. Top.first \in Step /\ Top.last \in Step
  BY <1>1, <1>2, <1>3
<1>5. PICK e \in Step : /\ e = SubtreeEnd(s)
                        /\ e \in s .. N
                        /\ \A u \in s + 1 .. e : u \in Step /\ tree.depth[u] > tree.depth[s]
                        /\ e < N => e + 1 \in Step /\ tree.depth[e + 1] <= tree.depth[s]
  BY Subtree, Typed
<1>6. e <= Top.last
  <2> SUFFICES ASSUME ~(e <= Top.last) PROVE FALSE
    OBVIOUS
  <2>1. Top.last < N /\ Top.last + 1 \in s + 1 .. e
    BY <1>1, <1>2, <1>3, <1>5
  <2>2. Top.last + 1 \in Step /\ tree.depth[Top.last + 1] > tree.depth[s]
    BY <1>5, <2>1
  <2>3. tree.depth[Top.last + 1] < tree.depth[s]
    BY <1>3, <2>1
  <2>4. tree.depth[Top.last + 1] \in Nat /\ tree.depth[s] \in Nat
    BY <1>1, <2>2
  <2> QED
    BY <2>2, <2>3, <2>4
<1>7. e + 1 <= Top.last => tree.depth[e + 1] = tree.depth[Top.first]
  <2> SUFFICES ASSUME e + 1 <= Top.last PROVE tree.depth[e + 1] = tree.depth[Top.first]
    OBVIOUS
  <2>1. e < N /\ e + 1 \in Top.first .. Top.last
    BY <1>1, <1>2, <1>3, <1>5
  <2>2. /\ tree.depth[e + 1] >= tree.depth[Top.first] /\ e + 1 \in Step
        /\ tree.depth[e + 1] <= tree.depth[Top.first]
    BY <1>3, <1>5, <2>1
  <2>3. tree.depth[e + 1] \in Nat /\ tree.depth[Top.first] \in Nat
    BY <1>1, <1>4, <2>2
  <2> QED
    BY <2>2, <2>3
<1>8. s \in Walked
  <2>1. CASE nested
    BY <2>1 DEF Walked
  <2>2. CASE ~nested
    <3>1. Len(frames) = 1
      <4>1. ~(Len(frames) > 1)
        BY <2>2 DEF IInv, Stack
      <4>2. Len(frames) \in Nat /\ Len(frames) >= 1
        BY <1>2, Innermost
      <4> QED
        BY <4>1, <4>2
    <3>2. Top.first = 1
      BY <1>2, <3>1, Innermost DEF IInv, Stack
    <3>3. tree.depth[s] = 1
      BY <1>1, <1>3, <1>4, <3>2
    <3> QED
      BY <2>2, <3>3 DEF Walked
  <2> QED
    BY <2>1, <2>2
<1> QED
  BY <1>2, <1>3, <1>4, <1>5, <1>6, <1>7, <1>8

\* What is around s completed.
LEMMA AroundStep ==
  ASSUME IInv, NEW s \in Step, Stands(s), NEW u \in Step, Under(s, u), u # s
  PROVE  HasResult(results, u, "Completed")
<1>1. /\ \A x \in Step : x \in Nat /\ tree.depth[x] \in Nat
      /\ N \in Nat /\ \A x \in Int : x \in Step <=> 1 <= x /\ x <= N
  BY Depths, Typed
<1>2. /\ Top.first \in Step /\ Top.last \in Step /\ Top.first <= s /\ s <= Top.last
      /\ tree.depth[s] = tree.depth[Top.first]
  BY AtStep
<1>3. \A v \in Top.first .. Top.last : tree.depth[v] >= tree.depth[Top.first]
  BY Innermost DEF FrameOK, Stands
<1>4. u <= s /\ \A v \in u + 1 .. s : tree.depth[v] > tree.depth[u]
  BY DEF Under
<1>5. s \in u + 1 .. s
  BY <1>1, <1>4
<1>6. tree.depth[u] < tree.depth[Top.first]
  BY <1>1, <1>2, <1>4, <1>5
<1>7. u < Top.first
  <2> SUFFICES ASSUME ~(u < Top.first) PROVE FALSE
    OBVIOUS
  <2>1. u \in Top.first .. Top.last
    BY <1>1, <1>2, <1>4
  <2> QED
    BY <1>1, <1>2, <1>3, <1>6, <2>1
<1>8. \A v \in u + 1 .. Top.first : v \in u + 1 .. s
  BY <1>1, <1>2
<1>9. Under(Top.first, u) /\ u # Top.first
  BY <1>1, <1>2, <1>4, <1>7, <1>8 DEF Under
<1> QED
  BY <1>9, Innermost DEF IInv, Stack, Stands

\* The earlier siblings of s are those the innermost call walked.
LEMMA BesideStep ==
  ASSUME IInv, NEW s \in Step, Stands(s), NEW u \in Step
  PROVE  EarlierSibling(u, s) <=> u \in Top.first .. s - 1 /\ tree.depth[u] = tree.depth[Top.first]
<1>1. /\ \A x \in Step : x \in Nat /\ tree.depth[x] \in Nat
      /\ N \in Nat /\ \A x \in Int : x \in Step <=> 1 <= x /\ x <= N
  BY Depths, Typed
<1>2. /\ Top.first \in Step /\ Top.last \in Step /\ Top.first <= s /\ s <= Top.last
      /\ tree.depth[s] = tree.depth[Top.first]
  BY AtStep
<1>3. /\ \A v \in Top.first .. Top.last : tree.depth[v] >= tree.depth[Top.first]
      /\ Top.first > 1 => tree.depth[Top.first - 1] < tree.depth[Top.first]
  BY Innermost DEF FrameOK, Stands
<1>4. ASSUME u \in Top.first .. s - 1, tree.depth[u] = tree.depth[Top.first]
      PROVE  EarlierSibling(u, s)
  <2>0. s \in Nat /\ Top.first \in Nat /\ Top.last \in Nat /\ u \in Nat
    BY <1>1, <1>2
  <2>1. u < s /\ \A v \in u .. s : v \in Top.first .. Top.last
    BY <1>2, <1>4, <2>0
  <2> QED
    BY <1>2, <1>3, <1>4, <2>1 DEF EarlierSibling
<1>5. ASSUME EarlierSibling(u, s)
      PROVE  u \in Top.first .. s - 1 /\ tree.depth[u] = tree.depth[Top.first]
  <2>1. u < s /\ tree.depth[u] = tree.depth[s] /\ \A v \in u .. s : tree.depth[v] >= tree.depth[s]
    BY <1>5 DEF EarlierSibling
  <2>2. Top.first <= u
    <3> SUFFICES ASSUME ~(Top.first <= u) PROVE FALSE
      OBVIOUS
    <3>1. Top.first > 1 /\ Top.first - 1 \in u .. s /\ Top.first - 1 \in Step
      BY <1>1, <1>2, <2>1
    <3> QED
      BY <1>1, <1>2, <1>3, <2>1, <3>1
  <2> QED
    BY <1>1, <1>2, <2>1, <2>2
<1> QED
  BY <1>4, <1>5

(***************************************************************************)
(* The results grow by those of an interval.                               *)
(***************************************************************************)

\* q holds a result for each of the steps s .. e.
Covers(q, s, e) ==
    /\ q \in Seq(StepResult) /\ Len(q) = e - s + 1
    /\ \A j \in 1 .. Len(q) : q[j].step = s + j - 1

\* rt is rs with the results q behind it.
Joined(rs, q, rt) ==
    /\ rt \in Seq(StepResult)
    /\ \A i \in DOMAIN rs : i \in DOMAIN rt /\ rt[i] = rs[i]
    /\ \A j \in 1 .. Len(q) : Len(rs) + j \in DOMAIN rt /\ rt[Len(rs) + j] = q[j]
    /\ \A i \in DOMAIN rt : \/ i \in DOMAIN rs
                            \/ i > Len(rs) /\ i - Len(rs) \in 1 .. Len(q) /\ rt[i] = q[i - Len(rs)]

LEMMA Joining ==
  ASSUME NEW rs \in Seq(StepResult), NEW q \in Seq(StepResult)
  PROVE  Joined(rs, q, rs \o q)
<1>1. PICK m \in Nat : m = Len(rs) /\ DOMAIN rs = 1 .. m
  BY LenProperties
<1>2. PICK c \in Nat : c = Len(q)
  BY LenProperties
<1>3. PICK rt \in Seq(StepResult) :
        /\ rt = rs \o q
        /\ Len(rt) = m + c
        /\ \A i \in 1 .. m + c : rt[i] = IF i <= m THEN rs[i] ELSE q[i - m]
  <2>1. /\ rs \o q \in Seq(StepResult)
        /\ Len(rs \o q) = Len(rs) + Len(q)
        /\ \A i \in 1 .. Len(rs) + Len(q) :
             (rs \o q)[i] = IF i <= Len(rs) THEN rs[i] ELSE q[i - Len(rs)]
    BY ConcatProperties
  <2>2. /\ Len(rs \o q) = m + c
        /\ \A i \in 1 .. m + c : (rs \o q)[i] = IF i <= m THEN rs[i] ELSE q[i - m]
    BY <1>1, <1>2, <2>1
  <2> QED
    BY <2>1, <2>2
<1>4. DOMAIN rt = 1 .. m + c
  BY <1>3, LenProperties
<1>5. \A i \in DOMAIN rs : i \in DOMAIN rt /\ rt[i] = rs[i]
  <2> SUFFICES ASSUME NEW i \in 1 .. m PROVE i \in 1 .. m + c /\ rt[i] = rs[i]
    BY <1>1, <1>4
  <2>1. i \in 1 .. m + c /\ i <= m
    OBVIOUS
  <2> QED
    BY <1>3, <2>1
<1>6. \A j \in 1 .. c : m + j \in DOMAIN rt /\ rt[m + j] = q[j]
  <2> SUFFICES ASSUME NEW j \in 1 .. c PROVE m + j \in 1 .. m + c /\ rt[m + j] = q[j]
    BY <1>4
  <2>1. m + j \in 1 .. m + c /\ ~(m + j <= m) /\ (m + j) - m = j
    OBVIOUS
  <2> QED
    BY <1>3, <2>1
<1>7. \A i \in DOMAIN rt : \/ i \in DOMAIN rs
                           \/ i > m /\ i - m \in 1 .. c /\ rt[i] = q[i - m]
  <2> SUFFICES ASSUME NEW i \in 1 .. m + c
               PROVE  i \in 1 .. m \/ (i > m /\ i - m \in 1 .. c /\ rt[i] = q[i - m])
    BY <1>1, <1>4
  <2>1. \/ i \in 1 .. m
        \/ i > m /\ ~(i <= m) /\ i - m \in 1 .. c
    OBVIOUS
  <2> QED
    BY <1>3, <2>1
<1> QED
  BY <1>1, <1>2, <1>3, <1>5, <1>6, <1>7 DEF Joined

\* Ascending results that end before s stay ascending.
LEMMA Extended ==
  ASSUME NEW rs \in Seq(StepResult), NEW rt, NEW s \in Step, NEW e \in Step, s <= e,
         NEW q, Covers(q, s, e), Joined(rs, q, rt),
         \A u \in Reported(rs) : u < s,
         \A i, j \in DOMAIN rs : i < j => rs[i].step < rs[j].step
  PROVE  /\ \A i, j \in DOMAIN rt : i < j => rt[i].step < rt[j].step
         /\ Reported(rt) = Reported(rs) \cup s .. e
         /\ \A u \in Step, st \in Status :
              HasResult(rt, u, st) <=> \/ HasResult(rs, u, st)
                                       \/ \E j \in 1 .. e - s + 1 : u = s + j - 1 /\ q[j].status = st
         /\ \A u \in Step, st \in Status : u < s => (HasResult(rt, u, st) <=> HasResult(rs, u, st))
<1>1. s \in Nat /\ e \in Nat /\ \A u \in Step : u \in Nat
  BY NAssumption DEF Step
<1>2. PICK m \in Nat : m = Len(rs) /\ DOMAIN rs = 1 .. m
  BY LenProperties
<1>3. PICK c \in Nat : c = e - s + 1 /\ c = Len(q)
  BY <1>1 DEF Covers
<1>4. \A j \in 1 .. c : q[j].step = s + j - 1
  BY <1>3 DEF Covers
<1>5. /\ \A i \in DOMAIN rs : i \in DOMAIN rt /\ rt[i] = rs[i]
      /\ \A j \in 1 .. c : m + j \in DOMAIN rt /\ rt[m + j] = q[j]
      /\ \A i \in DOMAIN rt : \/ i \in DOMAIN rs
                              \/ i > m /\ i - m \in 1 .. c /\ rt[i] = q[i - m]
  BY <1>2, <1>3 DEF Joined
<1>6. \A i \in DOMAIN rs : rs[i].step \in Nat /\ rs[i].step < s
  <2>1. \A i \in DOMAIN rs : rs[i] \in StepResult
    BY LenProperties, ElementOfSeq
  <2>2. \A i \in DOMAIN rs : rs[i].step \in Step
    BY <2>1 DEF StepResult
  <2> QED
    BY <1>1, <2>2 DEF Reported
<1>7. DOMAIN rt \subseteq Int
  <2>1. rt \in Seq(StepResult)
    BY DEF Joined
  <2> QED
    BY <2>1, LenProperties
<1>8. ASSUME NEW i \in DOMAIN rt, NEW j \in DOMAIN rt, i < j
      PROVE  rt[i].step < rt[j].step
  <2>1. CASE i \in DOMAIN rs /\ j \in DOMAIN rs
    BY <1>5, <1>8, <2>1
  <2>2. CASE i \in DOMAIN rs /\ j - m \in 1 .. c /\ rt[j] = q[j - m]
    <3>1. rt[j].step = s + (j - m) - 1 /\ rt[i].step < s /\ rt[i].step \in Nat
      BY <1>4, <1>5, <1>6, <2>2
    <3> QED
      BY <1>1, <1>3, <2>2, <3>1
  <2>3. CASE i > m /\ j \in DOMAIN rs
    BY <1>2, <1>7, <1>8, <2>3
  <2>4. CASE i - m \in 1 .. c /\ rt[i] = q[i - m] /\ j - m \in 1 .. c /\ rt[j] = q[j - m]
    <3>1. rt[i].step = s + (i - m) - 1 /\ rt[j].step = s + (j - m) - 1
      BY <1>4, <2>4
    <3> QED
      BY <1>1, <1>7, <1>8, <3>1
  <2> QED
    BY <1>5, <2>1, <2>2, <2>3, <2>4
<1>9. \A x \in s .. e : x - s + 1 \in 1 .. c /\ x = s + (x - s + 1) - 1
  BY <1>1, <1>3
<1>10. \A j \in 1 .. c : s + j - 1 \in s .. e
  BY <1>1, <1>3
<1>11. ASSUME NEW x PROVE x \in Reported(rt) <=> x \in Reported(rs) \cup s .. e
  <2>1. ASSUME NEW i \in DOMAIN rt, x = rt[i].step PROVE x \in Reported(rs) \cup s .. e
    <3>1. CASE i \in DOMAIN rs
      BY <1>5, <2>1, <3>1 DEF Reported
    <3>2. CASE i - m \in 1 .. c /\ rt[i] = q[i - m]
      BY <1>4, <1>10, <2>1, <3>2
    <3> QED
      BY <1>5, <3>1, <3>2
  <2>2. ASSUME x \in Reported(rs) PROVE x \in Reported(rt)
    BY <1>5, <2>2 DEF Reported
  <2>3. ASSUME x \in s .. e PROVE x \in Reported(rt)
    <3>1. PICK j \in 1 .. c : x = s + j - 1
      BY <1>9, <2>3
    <3>2. m + j \in DOMAIN rt /\ rt[m + j].step = x
      BY <1>4, <1>5, <3>1
    <3> QED
      BY <3>2 DEF Reported
  <2> QED
    BY <2>1, <2>2, <2>3 DEF Reported
<1>12. ASSUME NEW u \in Step, NEW st \in Status
       PROVE  HasResult(rt, u, st) <=> \/ HasResult(rs, u, st)
                                       \/ \E j \in 1 .. c : u = s + j - 1 /\ q[j].status = st
  <2>1. ASSUME NEW i \in DOMAIN rt, rt[i].step = u, rt[i].status = st
        PROVE  HasResult(rs, u, st) \/ \E j \in 1 .. c : u = s + j - 1 /\ q[j].status = st
    <3>1. CASE i \in DOMAIN rs
      BY <1>5, <2>1, <3>1 DEF HasResult
    <3>2. CASE i - m \in 1 .. c /\ rt[i] = q[i - m]
      BY <1>4, <2>1, <3>2
    <3> QED
      BY <1>5, <3>1, <3>2
  <2>2. ASSUME HasResult(rs, u, st) PROVE HasResult(rt, u, st)
    BY <1>5, <2>2 DEF HasResult
  <2>3. ASSUME NEW j \in 1 .. c, u = s + j - 1, q[j].status = st PROVE HasResult(rt, u, st)
    BY <1>4, <1>5, <2>3 DEF HasResult
  <2> QED
    BY <2>1, <2>2, <2>3 DEF HasResult
<1>13. ASSUME NEW u \in Step, NEW st \in Status, u < s
       PROVE  HasResult(rt, u, st) <=> HasResult(rs, u, st)
  <2>1. \A j \in 1 .. c : u # s + j - 1
    BY <1>1, <1>13
  <2> QED
    BY <1>12, <2>1
<1> QED
  BY <1>3, <1>8, <1>11, <1>12, <1>13

(***************************************************************************)
(* One step after another.                                                 *)
(***************************************************************************)

\* The reasons of the results q for s and its subtree are what the walk found.
Justified(q) ==
    \A j \in 1 .. Len(q) :
        /\ q[j].reason = "prior_step_failed" => Top.failed
        /\ q[j].reason = "parent_step_failed" => j > 1 /\ q[1].status = "Failed"
        /\ q[j].reason = "cancelled" => cancelled
        /\ q[j].reason = "flow_timeout_exceeded" => timed_out

\* The results of s and of the part of its subtree up to e.
Answers(s, e, q) ==
    /\ s <= e /\ e <= SubtreeEnd(s)
    /\ nested \/ e = s
    /\ Covers(q, s, e)
    /\ Justified(q)

LEMMA Reporting ==
  ASSUME IInv, NEW s \in Step, Stands(s), NEW e \in Step, NEW q, Answers(s, e, q),
         NEW rt, Joined(results, q, rt)
  PROVE  /\ rt \in Seq(StepResult)
         /\ \A i, j \in DOMAIN rt : i < j => rt[i].step < rt[j].step
         /\ Reported(rt) = Reported(results) \cup s .. e
         /\ \A nx : \/ nx = e + 1
                    \/ ~nested /\ nx = SubtreeEnd(s) + 1
                    => Reported(rt) = {u \in Walked : u < nx}
         /\ \A u \in Step, st \in Status : HasResult(results, u, st) => HasResult(rt, u, st)
         /\ \A u \in Step, st \in Status :
              u < s \/ u > e => (HasResult(rt, u, st) <=> HasResult(results, u, st))
         /\ \A st \in Status : HasResult(rt, s, st) <=> q[1].status = st
<1>1. /\ N \in Nat /\ \A x \in Step : x \in Nat /\ tree.depth[x] \in Nat /\ tree.depth[x] >= 1
      /\ \A x \in Int : x \in Step <=> 1 <= x /\ x <= N
      /\ results \in Seq(StepResult)
  BY Depths, Typed
<1>2. s <= e /\ e <= SubtreeEnd(s) /\ (nested \/ e = s) /\ Covers(q, s, e)
  BY DEF Answers
<1>3. Reported(results) = {u \in Walked : u < s}
  BY DEF IInv, Position, Stands
<1>4. Joined(results, q, rt)
  OBVIOUS
<1>5. /\ \A u \in Reported(results) : u < s
      /\ \A i, j \in DOMAIN results : i < j => results[i].step < results[j].step
  BY <1>3 DEF IInv, PreOrder
<1>6. /\ \A i, j \in DOMAIN rt : i < j => rt[i].step < rt[j].step
      /\ Reported(rt) = Reported(results) \cup s .. e
      /\ \A u \in Step, st \in Status :
              HasResult(rt, u, st) <=> \/ HasResult(results, u, st)
                                       \/ \E j \in 1 .. e - s + 1 : u = s + j - 1 /\ q[j].status = st
      /\ \A u \in Step, st \in Status : u < s => (HasResult(rt, u, st) <=> HasResult(results, u, st))
  BY <1>1, <1>2, <1>4, <1>5, Extended
<1>7. PICK t \in Step : /\ t = SubtreeEnd(s) /\ s <= t
                        /\ \A u \in s + 1 .. t : u \in Step /\ tree.depth[u] > tree.depth[s]
  BY Subtree, Typed
<1>8. s \in Walked /\ Walked \subseteq Step
  BY AtStep DEF Walked
<1>9. ASSUME NEW nx, nx = e + 1 \/ (~nested /\ nx = SubtreeEnd(s) + 1)
      PROVE  Reported(rt) = {u \in Walked : u < nx}
  <2>1. CASE nested
    <3>1. Walked = Step /\ nx = e + 1
      BY <1>9, <2>1 DEF Walked
    <3>2. ASSUME NEW u \in Step PROVE u \in s .. e \/ u < s <=> u < e + 1
      BY <1>1, <1>2
    <3>3. s .. e \subseteq Step
      BY <1>1
    <3> QED
      BY <1>3, <1>6, <3>1, <3>2, <3>3
  <2>2. CASE ~nested
    <3>1. Walked = {u \in Step : tree.depth[u] = 1} /\ e = s
      BY <1>2, <2>2 DEF Walked
    <3>2. s .. e = {s}
      BY <1>1, <3>1
    <3>3. ASSUME NEW u \in Walked PROVE u < s \/ u = s <=> u < nx
      <4>1. u \in Nat /\ s \in Nat /\ t \in Nat /\ nx \in Nat
        BY <1>1, <1>7, <1>8, <1>9, <3>1
      <4>2. ~(u \in s + 1 .. t)
        BY <1>1, <1>7, <1>8, <3>1
      <4> QED
        BY <1>7, <1>9, <3>1, <4>1, <4>2
    <3> QED
      BY <1>3, <1>6, <1>8, <3>2, <3>3
  <2> QED
    BY <2>1, <2>2
<1>10. ASSUME NEW u \in Step, NEW st \in Status, u > e
       PROVE  HasResult(rt, u, st) <=> HasResult(results, u, st)
  <2>1. \A j \in 1 .. e - s + 1 : u # s + j - 1
    BY <1>1, <1>10
  <2> QED
    BY <1>6, <2>1
<1>11. ASSUME NEW st \in Status PROVE HasResult(rt, s, st) <=> q[1].status = st
  <2>1. ~HasResult(results, s, st)
    <3>1. s \notin Reported(results)
      BY <1>1, <1>3
    <3> QED
      BY <3>1 DEF HasResult, Reported
  <2>2. \A j \in 1 .. e - s + 1 : s = s + j - 1 <=> j = 1
    BY <1>1
  <2>3. 1 \in 1 .. e - s + 1
    BY <1>1, <1>2
  <2> QED
    BY <1>6, <2>1, <2>2, <2>3
<1>12. rt \in Seq(StepResult)
  BY <1>4 DEF Joined
<1> QED
  BY <1>6, <1>9, <1>10, <1>11, <1>12

\* The results of s keep every property of the results, wherever the walk goes on.
LEMMA Settling ==
  ASSUME IInv, NEW s \in Step, Stands(s), NEW e \in Step, NEW q, Answers(s, e, q),
         Joined(results, q, results'), UNCHANGED <<tree, begun, unwound, env>>, frames' # <<>>
  PROVE  PreOrder' /\ NothingRunsBehindFailure' /\ FailureContained' /\ ConditionsSeeSiblings' /\ Stops'
<1>1. /\ N \in Nat /\ \A x \in Step : x \in Nat /\ tree.depth[x] \in Nat
      /\ \A x \in Int : x \in Step <=> 1 <= x /\ x <= N
  BY Depths, Typed
<1>2. PICK rt : rt = results'
  OBVIOUS
<1>3. /\ rt \in Seq(StepResult)
      /\ \A i, j \in DOMAIN rt : i < j => rt[i].step < rt[j].step
      /\ Reported(rt) = {u \in Walked : u < e + 1}
      /\ \A u \in Step, st \in Status : HasResult(results, u, st) => HasResult(rt, u, st)
      /\ \A u \in Step, st \in Status : u < s => (HasResult(rt, u, st) <=> HasResult(results, u, st))
      /\ \A st \in Status : HasResult(rt, s, st) <=> q[1].status = st
  BY <1>2, Reporting
<1>4. /\ tree' = tree /\ begun' = begun /\ cancelled' = cancelled /\ timed_out' = timed_out
      /\ nested' = nested /\ Walked' = Walked
      /\ \A u, v : Under(u, v)' <=> Under(u, v)
      /\ \A u, v : EarlierSibling(u, v)' <=> EarlierSibling(u, v)
  BY DEF env, nested, Walked, Under, EarlierSibling
<1>5. \A i \in DOMAIN rt : \/ i \in DOMAIN results /\ rt[i] = results[i]
                           \/ i - Len(results) \in 1 .. Len(q) /\ rt[i] = q[i - Len(results)]
  BY <1>2 DEF Joined
<1>6. PreOrder'
  <2>1. \A u \in Reported(rt) : u \in Nat
    BY <1>1, <1>3 DEF Walked
  <2>2. \A u \in Reported(rt) : \A v \in Walked : v < u => v \in Reported(rt)
    <3> SUFFICES ASSUME NEW u \in Reported(rt), NEW v \in Walked, v < u PROVE v < e + 1
      BY <1>3
    <3>1. v \in Nat /\ u \in Nat /\ e \in Nat /\ u < e + 1
      BY <1>1, <1>3, <2>1 DEF Walked
    <3> QED
      BY <3>1
  <2>3. ~Done'
    BY DEF Done
  <2> QED
    BY <1>2, <1>3, <1>4, <2>2, <2>3 DEF PreOrder
<1>7. NothingRunsBehindFailure'
  <2> SUFFICES ASSUME NEW t \in begun
               PROVE  /\ nested => \A u \in Step : Under(t, u) /\ u # t => HasResult(rt, u, "Completed")
                      /\ \A u \in Step : EarlierSibling(u, t) => ~HasResult(rt, u, "Failed")
    BY <1>2, <1>4 DEF NothingRunsBehindFailure
  <2>1. t \in Step /\ t <= s
    <3>1. ~unwound /\ begun \subseteq Reported(results) \cup {running} /\ begun \subseteq Step
      BY DEF IInv, TypeOK, Position, Stands
    <3>2. Reported(results) = {u \in Walked : u < s} /\ (running = 0 \/ running = s)
      BY DEF IInv, Position, Stands
    <3>3. t \in Step /\ t \in Nat /\ s \in Nat /\ t # 0
      BY <1>1, <3>1
    <3> QED
      BY <3>1, <3>2, <3>3
  <2>2. ASSUME nested, NEW u \in Step, Under(t, u), u # t PROVE HasResult(rt, u, "Completed")
    <3>1. HasResult(results, u, "Completed")
      BY <2>2 DEF IInv, NothingRunsBehindFailure
    <3> QED
      BY <1>3, <3>1 DEF Status
  <2>3. ASSUME NEW u \in Step, EarlierSibling(u, t) PROVE ~HasResult(rt, u, "Failed")
    <3>1. ~HasResult(results, u, "Failed")
      BY <2>3 DEF IInv, NothingRunsBehindFailure
    <3>2. u < s
      BY <1>1, <2>1, <2>3 DEF EarlierSibling
    <3> QED
      BY <1>3, <3>1, <3>2 DEF Status
  <2> QED
    BY <2>2, <2>3
<1>8. FailureContained'
  <2> DEFINE Behind(x) == \E u, v \in Step : Under(x, v) /\ EarlierSibling(u, v) /\ HasResult(rt, u, "Failed")
             Below(x) == \E u \in Step : u # x /\ Under(x, u) /\ HasResult(rt, u, "Failed")
  <2> SUFFICES ASSUME NEW i \in DOMAIN rt
               PROVE  /\ rt[i].reason = "prior_step_failed" => Behind(rt[i].step)
                      /\ rt[i].reason = "parent_step_failed" => Below(rt[i].step)
    BY <1>2, <1>4 DEF FailureContained
  <2>1. CASE i \in DOMAIN results /\ rt[i] = results[i]
    <3>1. \A u \in Step : HasResult(results, u, "Failed") => HasResult(rt, u, "Failed")
      BY <1>3 DEF Status
    <3> QED
      BY <2>1, <3>1 DEF IInv, FailureContained
  <2>2. ASSUME NEW j \in 1 .. Len(q), rt[i] = q[j]
        PROVE  /\ rt[i].reason = "prior_step_failed" => Behind(rt[i].step)
               /\ rt[i].reason = "parent_step_failed" => Below(rt[i].step)
    <3>1. PICK x \in Nat : /\ x = rt[i].step /\ x = s + j - 1 /\ s <= x /\ x <= e
      <4>1. Len(q) = e - s + 1 /\ q[j].step = s + j - 1
        BY <2>2 DEF Answers, Covers
      <4>2. s + j - 1 \in Nat /\ s <= s + j - 1 /\ s + j - 1 <= e
        BY <1>1, <2>2, <4>1
      <4> QED
        BY <2>2, <4>1, <4>2
    <3>2. Under(x, s)
      <4>1. \A v \in s + 1 .. SubtreeEnd(s) : tree.depth[v] > tree.depth[s]
        BY Subtree, Typed
      <4>2. e <= SubtreeEnd(s) /\ SubtreeEnd(s) \in Nat
        BY <1>1, Subtree, Typed DEF Answers
      <4>3. \A v \in s + 1 .. x : v \in s + 1 .. SubtreeEnd(s)
        BY <1>1, <3>1, <4>2
      <4> QED
        BY <3>1, <4>1, <4>3 DEF Under
    <3>3. ASSUME rt[i].reason = "prior_step_failed" PROVE Behind(x)
      <4>1. Top.failed
        BY <2>2, <3>3 DEF Answers, Justified
      <4>2. PICK u \in Top.first .. Top.next - 1 :
               tree.depth[u] = tree.depth[Top.first] /\ HasResult(results, u, "Failed")
        BY <4>1, Innermost DEF FrameOK, Stands
      <4>3. Top.next = s /\ Top.first \in Step
        BY AtStep DEF Stands
      <4>4. u \in Top.first .. s - 1 /\ u \in Step /\ u < s
        BY <1>1, <4>2, <4>3
      <4>5. EarlierSibling(u, s)
        BY <4>2, <4>4, BesideStep
      <4>6. HasResult(rt, u, "Failed")
        BY <1>3, <4>2, <4>4 DEF Status
      <4> QED
        BY <3>2, <4>4, <4>5, <4>6
    <3>4. ASSUME rt[i].reason = "parent_step_failed" PROVE Below(x)
      <4>1. j > 1 /\ q[1].status = "Failed"
        BY <2>2, <3>4 DEF Answers, Justified
      <4>2. s # x
        BY <1>1, <3>1, <4>1
      <4>3. HasResult(rt, s, "Failed")
        BY <1>3, <4>1 DEF Status
      <4> QED
        BY <3>2, <4>2, <4>3
    <3> QED
      BY <3>1, <3>3, <3>4
  <2> QED
    BY <1>5, <2>1, <2>2
<1>9. ConditionsSeeSiblings'
  BY <1>4 DEF IInv, ConditionsSeeSiblings
<1>10. Stops'
  <2> SUFFICES ASSUME NEW i \in DOMAIN rt
               PROVE  /\ rt[i].reason = "cancelled" => cancelled
                      /\ rt[i].reason = "flow_timeout_exceeded" => timed_out
    BY <1>2, <1>4 DEF Stops
  <2>1. CASE i \in DOMAIN results /\ rt[i] = results[i]
    BY <2>1 DEF IInv, Stops
  <2>2. CASE i - Len(results) \in 1 .. Len(q) /\ rt[i] = q[i - Len(results)]
    BY <2>2 DEF Answers, Justified
  <2> QED
    BY <1>5, <2>1, <2>2
<1> QED
  BY <1>6, <1>7, <1>8, <1>9, <1>10

(***************************************************************************)
(* The stack of calls.                                                     *)
(***************************************************************************)

Call == [first : 1 .. N + 1, last : 0 .. N, next : 1 .. N + 1, failed : BOOLEAN]

LEMMA Advancing ==
  ASSUME IInv, NEW s \in Step, Stands(s), NEW fl \in BOOLEAN
  PROVE  /\ Advanced(s, fl) \in Seq(Call)
         /\ Len(Advanced(s, fl)) = Len(frames)
         /\ \A k \in 1 .. Len(frames) - 1 : Advanced(s, fl)[k] = frames[k]
         /\ Advanced(s, fl)[Len(frames)] =
              [first |-> Top.first, last |-> Top.last, next |-> SubtreeEnd(s) + 1, failed |-> fl]
<1>1. PICK t \in Nat : t = SubtreeEnd(s) + 1 /\ t \in 1 .. N + 1
  <2>1. SubtreeEnd(s) \in Nat /\ 1 <= SubtreeEnd(s) /\ SubtreeEnd(s) <= N /\ N \in Nat
    BY Subtree, Depths, Typed
  <2> QED
    BY <2>1
<1>2. PICK n \in Nat : n = Len(frames) /\ n >= 1 /\ n \in DOMAIN frames /\ DOMAIN frames = 1 .. n
  BY Innermost, Typed DEF Stands
<1>3. frames \in Seq(Call) /\ frames[n] \in Call /\ Top = frames[n]
  BY <1>2, Typed DEF Call, IInv, TypeOK, Top
<1>4. PICK g : g = Advanced(s, fl)
  OBVIOUS
<1>5. g = [frames EXCEPT ![n] = [first |-> Top.first, last |-> Top.last, next |-> t, failed |-> fl]]
  <2>1. g = [frames EXCEPT ![n].next = t, ![n].failed = fl]
    BY <1>1, <1>2, <1>4 DEF Advanced
  <2>2. DOMAIN g = 1 .. n /\ \A k \in 1 .. n : k # n => g[k] = frames[k]
    BY <1>2, <2>1
  <2>3. g[n] = [[frames[n] EXCEPT !.next = t] EXCEPT !.failed = fl]
    BY <1>2, <2>1
  <2>4. g[n] = [first |-> Top.first, last |-> Top.last, next |-> t, failed |-> fl]
    BY <1>3, <2>3 DEF Call
  <2> QED
    BY <1>2, <2>1, <2>2, <2>4
<1>6. [first |-> Top.first, last |-> Top.last, next |-> t, failed |-> fl] \in Call
  BY <1>1, <1>3 DEF Call
<1>7. g \in Seq(Call) /\ Len(g) = n
  BY <1>2, <1>3, <1>5, <1>6, ExceptSeq
<1>8. /\ g[n] = [first |-> Top.first, last |-> Top.last, next |-> t, failed |-> fl]
      /\ \A k \in 1 .. n - 1 : g[k] = frames[k]
  <2>1. \A k \in 1 .. n - 1 : k \in 1 .. n /\ k # n
    BY <1>2
  <2> QED
    BY <1>2, <1>5, <2>1
<1> QED
  BY <1>1, <1>2, <1>4, <1>7, <1>8

\* FrameOK(f) in a tree with depths d, with the results rs.
Fits(d, f, rs) ==
    /\ f.first <= f.next /\ f.next <= f.last + 1
    /\ f.first > 1 => d[f.first - 1] < d[f.first]
    /\ \A u \in f.first .. f.last : d[u] >= d[f.first]
    /\ f.last < N => d[f.last + 1] < d[f.first]
    /\ f.next <= f.last => d[f.next] = d[f.first]
    /\ f.failed <=> \E u \in f.first .. f.next - 1 :
                       d[u] = d[f.first] /\ HasResult(rs, u, "Failed")

\* The flags of the calls around do not depend on the subtree of s: it is deeper.
LEMMA OuterCall ==
  ASSUME IInv, NEW s \in Step, Stands(s), NEW e \in Step, NEW q, Answers(s, e, q),
         NEW rt, Joined(results, q, rt), NEW k \in 1 .. Len(frames) - 1
  PROVE  Fits(tree.depth, frames[k], rt)
<1>1. /\ N \in Nat /\ \A x \in Step : x \in Nat /\ tree.depth[x] \in Nat
      /\ \A x \in Int : x \in Step <=> 1 <= x /\ x <= N
  BY Depths, Typed
<1>2. PICK n \in Nat : n = Len(frames) /\ n >= 1 /\ n \in DOMAIN frames /\ DOMAIN frames = 1 .. n
  BY Innermost, Typed DEF Stands
<1>3. k \in Nat /\ k \in DOMAIN frames /\ k < n
  BY <1>2
<1>4. PICK f \in Call : f = frames[k]
  BY <1>3, Typed DEF Call
<1>5. f.first \in 1 .. N + 1 /\ f.last \in 0 .. N /\ f.next \in 1 .. N + 1
  BY DEF Call
<1>6. FrameOK(f) /\ tree.depth[f.first] < tree.depth[Top.first]
  BY <1>2, <1>3, <1>4 DEF IInv, Stack, Top
<1>7. \A u \in s .. e : u \in Step /\ tree.depth[u] # tree.depth[f.first]
  <2> SUFFICES ASSUME NEW u \in s .. e, tree.depth[u] = tree.depth[f.first] PROVE FALSE
    BY <1>1
  <2>1. u \in Step /\ tree.depth[s] = tree.depth[Top.first]
    BY <1>1, AtStep
  <2>2. u = s \/ (u \in Step /\ tree.depth[u] > tree.depth[s])
    <3>1. e <= SubtreeEnd(s) /\ SubtreeEnd(s) \in Nat
      BY <1>1, Subtree, Typed DEF Answers
    <3>2. u = s \/ u \in s + 1 .. SubtreeEnd(s)
      BY <1>1, <3>1
    <3> QED
      BY <3>2, Subtree, Typed
  <2>3. tree.depth[u] < tree.depth[s]
    BY <1>6, <2>1
  <2>4. tree.depth[u] \in Nat /\ tree.depth[s] \in Nat
    BY <1>1, <2>1
  <2> QED
    BY <2>2, <2>3, <2>4
<1>8. \A u \in f.first .. f.next - 1 :
         tree.depth[u] = tree.depth[f.first] =>
            (HasResult(rt, u, "Failed") <=> HasResult(results, u, "Failed"))
  <2> SUFFICES ASSUME NEW u \in f.first .. f.next - 1, tree.depth[u] = tree.depth[f.first]
               PROVE  HasResult(rt, u, "Failed") <=> HasResult(results, u, "Failed")
    OBVIOUS
  <2>1. u \in Step
    BY <1>1, <1>5
  <2>2. u < s \/ u > e
    BY <1>1, <1>7, <2>1
  <2> QED
    BY <2>1, <2>2, Reporting DEF Status
<1> QED
  BY <1>4, <1>6, <1>8 DEF Fits, FrameOK

\* The call that dealt with s notes whether s failed.
LEMMA InnerCall ==
  ASSUME IInv, NEW s \in Step, Stands(s), NEW e \in Step, NEW q, Answers(s, e, q),
         NEW rt, Joined(results, q, rt), NEW fl \in BOOLEAN,
         fl <=> Top.failed \/ q[1].status = "Failed"
  PROVE  Fits(tree.depth,
              [first |-> Top.first, last |-> Top.last, next |-> SubtreeEnd(s) + 1, failed |-> fl], rt)
<1>1. /\ N \in Nat /\ \A x \in Step : x \in Nat /\ tree.depth[x] \in Nat
      /\ \A x \in Int : x \in Step <=> 1 <= x /\ x <= N
  BY Depths, Typed
<1>2. PICK t \in Step : /\ t = SubtreeEnd(s) /\ s <= t /\ t <= Top.last
                        /\ \A u \in s + 1 .. t : u \in Step /\ tree.depth[u] > tree.depth[s]
                        /\ t + 1 <= Top.last => tree.depth[t + 1] = tree.depth[Top.first]
  BY Subtree, AtStep, Typed
<1>3. /\ Top.first \in Step /\ Top.last \in Step /\ Top.first <= s /\ s <= Top.last
      /\ tree.depth[s] = tree.depth[Top.first] /\ s = Top.next
  BY AtStep DEF Stands
<1>4. FrameOK(Top)
  BY Innermost DEF Stands
<1>5. s <= e /\ e <= t
  BY <1>2 DEF Answers
<1>6. Top.first <= t + 1 /\ t + 1 <= Top.last + 1 /\ (t + 1) - 1 = t
  BY <1>1, <1>2, <1>3
<1>7. fl <=> \E u \in Top.first .. t : tree.depth[u] = tree.depth[Top.first] /\ HasResult(rt, u, "Failed")
  <2>1. Top.failed <=> \E u \in Top.first .. s - 1 :
                          tree.depth[u] = tree.depth[Top.first] /\ HasResult(results, u, "Failed")
    BY <1>3, <1>4 DEF FrameOK
  <2>2. \A u \in Top.first .. s - 1 : HasResult(rt, u, "Failed") <=> HasResult(results, u, "Failed")
    <3>1. \A u \in Top.first .. s - 1 : u \in Step /\ u < s
      BY <1>1, <1>3
    <3> QED
      BY <3>1, Reporting DEF Status
  <2>3. HasResult(rt, s, "Failed") <=> q[1].status = "Failed"
    BY Reporting DEF Status
  <2>4. \A u \in Top.first .. t : u \in Top.first .. s - 1 \/ u = s \/ u \in s + 1 .. t
    BY <1>1, <1>2, <1>3
  <2>5. \A u \in s + 1 .. t : tree.depth[u] # tree.depth[Top.first]
    BY <1>1, <1>2, <1>3
  <2>6. s \in Top.first .. t /\ \A u \in Top.first .. s - 1 : u \in Top.first .. t
    BY <1>1, <1>2, <1>3
  <2> QED
    BY <1>3, <2>1, <2>2, <2>3, <2>4, <2>5, <2>6
<1> QED
  BY <1>2, <1>4, <1>6, <1>7 DEF Fits, FrameOK

\* The sub_steps of a completed step are a call of their own.
LEMMA NewCall ==
  ASSUME IInv, NEW s \in Step, SubtreeEnd(s) > s, NEW rt
  PROVE  /\ Fits(tree.depth, Frame(s + 1, SubtreeEnd(s)), rt)
         /\ Frame(s + 1, SubtreeEnd(s)) \in Call
         /\ tree.depth[s + 1] > tree.depth[s] /\ s + 1 \in Step
<1>1. /\ N \in Nat /\ \A x \in Step : x \in Nat /\ tree.depth[x] \in Nat
      /\ \A x \in Int : x \in Step <=> 1 <= x /\ x <= N
      /\ \A u \in Step : u # 1 => u - 1 \in Step /\ tree.depth[u] <= tree.depth[u - 1] + 1
  BY Depths, Typed
<1>2. PICK t \in Step : /\ t = SubtreeEnd(s) /\ s < t
                        /\ \A u \in s + 1 .. t : u \in Step /\ tree.depth[u] > tree.depth[s]
                        /\ t < N => t + 1 \in Step /\ tree.depth[t + 1] <= tree.depth[s]
  BY Subtree, Typed
<1>3. s + 1 \in s + 1 .. t /\ s + 1 # 1 /\ (s + 1) - 1 = s
  BY <1>1, <1>2
<1>4. /\ s + 1 \in Step /\ tree.depth[s + 1] > tree.depth[s] /\ tree.depth[s + 1] <= tree.depth[s] + 1
      /\ tree.depth[s + 1] \in Nat /\ tree.depth[s] \in Nat
  BY <1>1, <1>2, <1>3
<1>5. \A u \in s + 1 .. t : tree.depth[u] >= tree.depth[s + 1]
  <2> SUFFICES ASSUME NEW u \in s + 1 .. t PROVE tree.depth[u] >= tree.depth[s + 1]
    OBVIOUS
  <2>1. tree.depth[u] > tree.depth[s] /\ tree.depth[u] \in Nat
    BY <1>1, <1>2
  <2> QED
    BY <1>4, <2>1
<1>6. t < N => tree.depth[t + 1] < tree.depth[s + 1]
  <2> SUFFICES ASSUME t < N PROVE tree.depth[t + 1] < tree.depth[s + 1]
    OBVIOUS
  <2>1. tree.depth[t + 1] <= tree.depth[s] /\ tree.depth[t + 1] \in Nat
    BY <1>1, <1>2
  <2> QED
    BY <1>4, <2>1
<1>7. PICK f : f = Frame(s + 1, t)
  OBVIOUS
<1>8. f.first = s + 1 /\ f.last = t /\ f.next = s + 1 /\ f.failed = FALSE /\ f \in Call
  <2>1. s + 1 \in 1 .. N + 1 /\ t \in 0 .. N
    BY <1>1, <1>4
  <2> QED
    BY <1>7, <2>1 DEF Frame, Call
<1>9. s + 1 .. (s + 1) - 1 = {} /\ s + 1 <= t + 1
  BY <1>1, <1>2
<1>10. Fits(tree.depth, f, rt)
  BY <1>3, <1>4, <1>5, <1>6, <1>8, <1>9 DEF Fits
<1> QED
  BY <1>2, <1>4, <1>7, <1>8, <1>10

LEMMA NewTypes ==
  ASSUME IInv, results' \in Seq(StepResult), frames' \in Seq(Call), running' \in 0 .. N,
         tree' = tree, begun' \subseteq Step, unwound' \in BOOLEAN,
         cancelled' \in BOOLEAN, timed_out' \in BOOLEAN
  PROVE  TypeOK'
<1>1. tree' \in Tree /\ Shape(tree.depth)'
  BY DEF IInv, TypeOK, Shape
<1> QED
  BY <1>1 DEF TypeOK, Call

\* What a call is nested in stays completed.
LEMMA StillAround ==
  ASSUME IInv, NEW s \in Step, Stands(s), NEW e \in Step, NEW q, Answers(s, e, q),
         NEW rt, Joined(results, q, rt), NEW k \in DOMAIN frames, NEW u \in Step,
         Under(frames[k].first, u), u # frames[k].first
  PROVE  HasResult(rt, u, "Completed")
<1>1. HasResult(results, u, "Completed")
  BY DEF IInv, Stack
<1> QED
  BY <1>1, Reporting DEF Status

\* The walk goes on behind the subtree of s.
LEMMA Advances ==
  ASSUME IInv, NEW s \in Step, Stands(s), NEW e \in Step, NEW q, Answers(s, e, q),
         Joined(results, q, results'), UNCHANGED <<tree, begun, unwound, env>>, running' = 0,
         e = IF nested THEN SubtreeEnd(s) ELSE s,
         NEW fl \in BOOLEAN, fl <=> Top.failed \/ q[1].status = "Failed",
         frames' = Advanced(s, fl)
  PROVE  IInv'
<1>1. /\ N \in Nat /\ \A x \in Step : x \in Nat /\ tree.depth[x] \in Nat
      /\ \A x \in Int : x \in Step <=> 1 <= x /\ x <= N
  BY Depths, Typed
<1>2. PICK n \in Nat : n = Len(frames) /\ n >= 1 /\ n \in DOMAIN frames /\ DOMAIN frames = 1 .. n
  BY Innermost, Typed DEF Stands
<1>3. PICK rt : rt = results'
  OBVIOUS
<1>4. PICK g \in Seq(Call) :
        /\ g = frames' /\ Len(g) = n /\ DOMAIN g = 1 .. n
        /\ \A k \in 1 .. n - 1 : g[k] = frames[k]
        /\ g[n] = [first |-> Top.first, last |-> Top.last, next |-> SubtreeEnd(s) + 1, failed |-> fl]
  <2>1. /\ Advanced(s, fl) \in Seq(Call) /\ Len(Advanced(s, fl)) = n
        /\ \A k \in 1 .. n - 1 : Advanced(s, fl)[k] = frames[k]
        /\ Advanced(s, fl)[n] =
              [first |-> Top.first, last |-> Top.last, next |-> SubtreeEnd(s) + 1, failed |-> fl]
    BY <1>2, Advancing
  <2>2. DOMAIN Advanced(s, fl) = 1 .. n
    BY <2>1, LenProperties
  <2> QED
    BY <2>1, <2>2
<1>5. g # <<>>
  BY <1>2, <1>4, EmptySeq
<1>6. /\ tree' = tree /\ begun' = begun /\ unwound' = unwound
      /\ cancelled' = cancelled /\ timed_out' = timed_out
      /\ nested' = nested /\ Walked' = Walked /\ \A u, v : Under(u, v)' <=> Under(u, v)
  BY DEF env, nested, Walked, Under
<1>7. /\ rt \in Seq(StepResult)
      /\ Reported(rt) = Reported(results) \cup s .. e
      /\ Reported(rt) = {u \in Walked : u < SubtreeEnd(s) + 1}
  BY <1>3, Reporting
<1>8. TypeOK'
  <2>1. results' \in Seq(StepResult) /\ frames' \in Seq(Call) /\ running' \in 0 .. N
    BY <1>1, <1>3, <1>4, <1>7
  <2> QED
    BY <1>6, <2>1, NewTypes DEF IInv, TypeOK
<1>9. \A k \in 1 .. n : g[k].first = frames[k].first /\ g[k].last = frames[k].last
  <2>1. \A k \in 1 .. n : k = n \/ k \in 1 .. n - 1
    BY <1>2
  <2> QED
    BY <1>2, <1>4, <2>1 DEF Top
<1>10. Stack'
  <2>1. g[1].first = 1 /\ g[1].last = N
    <3>1. frames[1].first = 1 /\ frames[1].last = N /\ 1 \in 1 .. n
      BY <1>2 DEF IInv, Stack, Stands
    <3> QED
      BY <1>9, <3>1
  <2>2. n > 1 => nested
    BY <1>2 DEF IInv, Stack
  <2>3. ASSUME NEW k \in 1 .. n PROVE Fits(tree.depth, g[k], rt)
    <3>1. CASE k \in 1 .. n - 1
      <4>1. Fits(tree.depth, frames[k], rt)
        BY <1>2, <1>3, <3>1, OuterCall
      <4> QED
        BY <1>4, <3>1, <4>1
    <3>2. CASE k = n
      <4>1. Fits(tree.depth, [first |-> Top.first, last |-> Top.last,
                              next |-> SubtreeEnd(s) + 1, failed |-> fl], rt)
        BY <1>3, InnerCall
      <4> QED
        BY <1>4, <3>2, <4>1
    <3> QED
      BY <1>2, <3>1, <3>2
  <2>4. \A k \in 1 .. n - 1 : g[k].next = g[k + 1].last + 1
    <3> SUFFICES ASSUME NEW k \in 1 .. n - 1 PROVE g[k].next = g[k + 1].last + 1
      OBVIOUS
    <3>1. k + 1 \in 1 .. n
      BY <1>2
    <3>2. frames[k].next = frames[k + 1].last + 1
      BY <1>2 DEF IInv, Stack
    <3> QED
      BY <1>4, <1>9, <3>1, <3>2
  <2>5. \A j, k \in 1 .. n : j < k => /\ g[j].first < g[k].first
                                      /\ tree.depth[g[j].first] < tree.depth[g[k].first]
    BY <1>2, <1>9 DEF IInv, Stack
  <2>6. \A k \in 1 .. n : \A u \in Step :
           Under(g[k].first, u) /\ u # g[k].first => HasResult(rt, u, "Completed")
    BY <1>2, <1>3, <1>9, StillAround
  <2>7. \A k \in 1 .. n : FrameOK(g[k])'
    BY <1>3, <1>6, <2>3 DEF FrameOK, Fits
  <2> QED
    BY <1>3, <1>4, <1>6, <2>1, <2>2, <2>4, <2>5, <2>6, <2>7 DEF Stack
<1>11. Position'
  <2>1. ~unwound /\ begun \subseteq Reported(results) \cup {running} /\ (running = 0 \/ running = s)
    BY DEF IInv, Position, Stands
  <2>2. s \in s .. e
    BY <1>1 DEF Answers
  <2>3. begun \subseteq Reported(rt) \cup {0}
    BY <1>7, <2>1, <2>2
  <2>4. Top'.next = SubtreeEnd(s) + 1
    BY <1>4 DEF Top
  <2> QED
    BY <1>3, <1>4, <1>5, <1>6, <1>7, <2>1, <2>3, <2>4 DEF Position
<1>12. PreOrder' /\ NothingRunsBehindFailure' /\ FailureContained' /\ ConditionsSeeSiblings' /\ Stops'
  BY <1>4, <1>5, Settling
<1> QED
  BY <1>8, <1>10, <1>11, <1>12 DEF IInv

\* The walk goes on with the sub_steps of s, which completed.
LEMMA Descends ==
  ASSUME IInv, NEW s \in Step, Stands(s), NEW q, Answers(s, s, q),
         Joined(results, q, results'), UNCHANGED <<tree, begun, unwound, env>>, running' = 0,
         nested, SubtreeEnd(s) > s, q[1].status = "Completed",
         frames' = Append(Advanced(s, Top.failed), Frame(s + 1, SubtreeEnd(s)))
  PROVE  IInv'
<1>1. /\ N \in Nat /\ \A x \in Step : x \in Nat /\ tree.depth[x] \in Nat
      /\ \A x \in Int : x \in Step <=> 1 <= x /\ x <= N
  BY Depths, Typed
<1>2. PICK n \in Nat : n = Len(frames) /\ n >= 1 /\ n \in DOMAIN frames /\ DOMAIN frames = 1 .. n
  BY Innermost, Typed DEF Stands
<1>3. PICK rt : rt = results'
  OBVIOUS
<1>4. PICK new \in Call : /\ new = Frame(s + 1, SubtreeEnd(s))
                          /\ new.first = s + 1 /\ new.last = SubtreeEnd(s) /\ new.next = s + 1
                          /\ Fits(tree.depth, new, rt)
                          /\ tree.depth[s + 1] > tree.depth[s] /\ s + 1 \in Step
  BY NewCall DEF Frame
<1>5. PICK g \in Seq(Call) :
        /\ g = frames' /\ Len(g) = n + 1 /\ DOMAIN g = 1 .. n + 1
        /\ \A k \in 1 .. n - 1 : g[k] = frames[k]
        /\ g[n] = [first |-> Top.first, last |-> Top.last, next |-> SubtreeEnd(s) + 1, failed |-> Top.failed]
        /\ g[n + 1] = new
  <2>1. Top.failed \in BOOLEAN
    BY Innermost DEF Stands
  <2>2. PICK h \in Seq(Call) :
           /\ h = Advanced(s, Top.failed) /\ Len(h) = n
           /\ \A k \in 1 .. n - 1 : h[k] = frames[k]
           /\ h[n] = [first |-> Top.first, last |-> Top.last, next |-> SubtreeEnd(s) + 1, failed |-> Top.failed]
    BY <1>2, <2>1, Advancing
  <2>3. /\ Append(h, new) \in Seq(Call) /\ Len(Append(h, new)) = n + 1
        /\ \A i \in 1 .. n : Append(h, new)[i] = h[i]
        /\ Append(h, new)[n + 1] = new
    BY <2>2, AppendProperties
  <2>4. DOMAIN Append(h, new) = 1 .. n + 1
    BY <2>3, LenProperties
  <2>5. n \in 1 .. n /\ \A k \in 1 .. n - 1 : k \in 1 .. n
    BY <1>2
  <2> QED
    BY <1>4, <2>2, <2>3, <2>4, <2>5
<1>6. g # <<>>
  BY <1>5, EmptySeq
<1>7. /\ tree' = tree /\ begun' = begun /\ unwound' = unwound
      /\ cancelled' = cancelled /\ timed_out' = timed_out
      /\ nested' = nested /\ Walked' = Walked /\ \A u, v : Under(u, v)' <=> Under(u, v)
  BY DEF env, nested, Walked, Under
<1>8. /\ rt \in Seq(StepResult)
      /\ Reported(rt) = Reported(results) \cup s .. s
      /\ Reported(rt) = {u \in Walked : u < s + 1}
      /\ HasResult(rt, s, "Completed")
  <2>1. /\ rt \in Seq(StepResult)
        /\ Reported(rt) = Reported(results) \cup s .. s
        /\ Reported(rt) = {u \in Walked : u < s + 1}
        /\ \A st \in Status : HasResult(rt, s, st) <=> q[1].status = st
    <3>1. Joined(results, q, rt)
      BY <1>3
    <3>2. /\ rt \in Seq(StepResult)
          /\ Reported(rt) = Reported(results) \cup s .. s
          /\ \A st \in Status : HasResult(rt, s, st) <=> q[1].status = st
      BY <3>1, Reporting
    <3>3. Reported(rt) = {u \in Walked : u < s + 1}
      BY <3>1, Reporting
    <3> QED
      BY <3>2, <3>3
  <2> QED
    BY <2>1 DEF Status
<1>9. TypeOK'
  <2>1. results' \in Seq(StepResult) /\ frames' \in Seq(Call) /\ running' \in 0 .. N
    BY <1>1, <1>3, <1>5, <1>8
  <2> QED
    BY <1>7, <2>1, NewTypes DEF IInv, TypeOK
<1>10. \A k \in 1 .. n : g[k].first = frames[k].first /\ g[k].last = frames[k].last
  <2>1. \A k \in 1 .. n : k = n \/ k \in 1 .. n - 1
    BY <1>2
  <2> QED
    BY <1>2, <1>5, <2>1 DEF Top
<1>11. \A k \in 1 .. n + 1 : k \in 1 .. n \/ k = n + 1
  BY <1>2
<1>12. tree.depth[s] = tree.depth[Top.first] /\ Top.first \in Step /\ Top.first <= s
  BY AtStep
<1>13. Stack'
  <2>1. g[1].first = 1 /\ g[1].last = N
    <3>1. frames[1].first = 1 /\ frames[1].last = N /\ 1 \in 1 .. n
      BY <1>2 DEF IInv, Stack, Stands
    <3> QED
      BY <1>10, <3>1
  <2>2. ASSUME NEW k \in 1 .. n + 1 PROVE Fits(tree.depth, g[k], rt)
    <3>1. CASE k \in 1 .. n - 1
      <4>1. Fits(tree.depth, frames[k], rt)
        BY <1>2, <1>3, <3>1, OuterCall
      <4> QED
        BY <1>5, <3>1, <4>1
    <3>2. CASE k = n
      <4>1. Top.failed \in BOOLEAN /\ (Top.failed <=> Top.failed \/ q[1].status = "Failed")
        BY Innermost DEF Stands
      <4>2. Fits(tree.depth, [first |-> Top.first, last |-> Top.last,
                              next |-> SubtreeEnd(s) + 1, failed |-> Top.failed], rt)
        BY <1>3, <4>1, InnerCall
      <4> QED
        BY <1>5, <3>2, <4>2
    <3>3. CASE k = n + 1
      BY <1>4, <1>5, <3>3
    <3> QED
      BY <1>2, <3>1, <3>2, <3>3
  <2>3. \A k \in 1 .. n : g[k].next = g[k + 1].last + 1
    <3> SUFFICES ASSUME NEW k \in 1 .. n PROVE g[k].next = g[k + 1].last + 1
      OBVIOUS
    <3>1. CASE k \in 1 .. n - 1
      <4>1. k + 1 \in 1 .. n
        BY <1>2, <3>1
      <4>2. frames[k].next = frames[k + 1].last + 1
        BY <1>2, <3>1 DEF IInv, Stack
      <4> QED
        BY <1>5, <1>10, <3>1, <4>1, <4>2
    <3>2. CASE k = n
      BY <1>4, <1>5, <3>2
    <3> QED
      BY <1>2, <3>1, <3>2
  <2>4. ASSUME NEW j \in 1 .. n + 1, NEW k \in 1 .. n + 1, j < k
        PROVE  g[j].first < g[k].first /\ tree.depth[g[j].first] < tree.depth[g[k].first]
    <3>1. j \in 1 .. n
      BY <1>2, <2>4
    <3>2. CASE k \in 1 .. n
      BY <1>2, <1>10, <2>4, <3>1, <3>2 DEF IInv, Stack
    <3>3. CASE k = n + 1
      <4>1. g[k].first = s + 1 /\ g[j].first = frames[j].first
        BY <1>4, <1>5, <1>10, <3>1, <3>3
      <4>2. j = n \/ (j \in 1 .. n - 1 /\ j < n)
        BY <1>2, <3>1
      <4>3. CASE j = n
        BY <1>1, <1>2, <1>4, <1>12, <4>1, <4>3 DEF Top
      <4>4. CASE j \in 1 .. n - 1 /\ j < n
        <5>1. /\ frames[j].first < Top.first
              /\ tree.depth[frames[j].first] < tree.depth[Top.first]
          BY <1>2, <3>1, <4>4 DEF IInv, Stack, Top
        <5>2. frames[j].first \in Nat /\ frames[j].first >= 1
          <6>1. frames[j] \in Call
            BY <1>2, <3>1, Typed DEF Call
          <6>2. frames[j].first \in 1 .. N + 1
            BY <6>1 DEF Call
          <6> QED
            BY <1>1, <6>2
        <5>3. frames[j].first \in Step /\ frames[j].first < s + 1
          BY <1>1, <1>12, <5>1, <5>2
        <5>4. /\ tree.depth[frames[j].first] \in Nat /\ tree.depth[s] \in Nat
              /\ tree.depth[s + 1] \in Nat
          BY <1>1, <1>4, <5>3
        <5> QED
          BY <1>4, <1>12, <4>1, <5>1, <5>3, <5>4
      <4> QED
        BY <4>2, <4>3, <4>4
    <3> QED
      BY <1>11, <3>2, <3>3
  <2>5. ASSUME NEW k \in 1 .. n + 1, NEW u \in Step, Under(g[k].first, u), u # g[k].first
        PROVE  HasResult(rt, u, "Completed")
    <3>1. CASE k \in 1 .. n
      BY <1>2, <1>3, <1>10, <2>5, <3>1, StillAround
    <3>2. CASE k = n + 1
      <4>1. u <= s + 1 /\ u # s + 1 /\ \A v \in u + 1 .. s + 1 : tree.depth[v] > tree.depth[u]
        BY <1>4, <1>5, <2>5, <3>2 DEF Under
      <4>2. u <= s /\ \A v \in u + 1 .. s : v \in u + 1 .. s + 1
        BY <1>1, <4>1
      <4>3. Under(s, u)
        BY <4>1, <4>2 DEF Under
      <4>4. CASE u = s
        BY <1>8, <4>4
      <4>5. CASE u # s
        <5>1. HasResult(results, u, "Completed")
          BY <4>3, <4>5, AroundStep
        <5> QED
          BY <1>3, <5>1, Reporting DEF Status
      <4> QED
        BY <4>4, <4>5
    <3> QED
      BY <1>11, <3>1, <3>2
  <2>6. \A k \in 1 .. n + 1 : FrameOK(g[k])'
    BY <1>3, <1>7, <2>2 DEF FrameOK, Fits
  <2>7. 1 .. (n + 1) - 1 = 1 .. n
    BY <1>2
  <2> QED
    BY <1>3, <1>5, <1>7, <2>1, <2>3, <2>4, <2>5, <2>6, <2>7 DEF Stack
<1>14. Position'
  <2>1. ~unwound /\ begun \subseteq Reported(results) \cup {running} /\ (running = 0 \/ running = s)
    BY DEF IInv, Position, Stands
  <2>2. s \in s .. s
    BY <1>1
  <2>3. begun \subseteq Reported(rt) \cup {0}
    BY <1>8, <2>1, <2>2
  <2>4. Top'.next = s + 1
    BY <1>4, <1>5 DEF Top
  <2> QED
    BY <1>3, <1>5, <1>6, <1>7, <1>8, <2>1, <2>3, <2>4 DEF Position
<1>15. PreOrder' /\ NothingRunsBehindFailure' /\ FailureContained' /\ ConditionsSeeSiblings' /\ Stops'
  BY <1>5, <1>6, Settling
<1> QED
  BY <1>9, <1>13, <1>14, <1>15 DEF IInv

(***************************************************************************)
(* IInv is inductive.                                                      *)
(***************************************************************************)

LEMMA Base ==
  ASSUME Init
  PROVE  IInv
<1>1. N \in Nat /\ tree \in Tree /\ Shape(tree.depth)
  BY NAssumption, TreesAssumption DEF Init
<1>2. PICK f \in Call : f = Frame(1, N) /\ f.first = 1 /\ f.last = N /\ f.next = 1 /\ f.failed = FALSE
  <2>1. \A i \in 1 .. N + 1, l \in 0 .. N :
            /\ Frame(i, l) \in Call
            /\ Frame(i, l).first = i /\ Frame(i, l).last = l
            /\ Frame(i, l).next = i /\ Frame(i, l).failed = FALSE
    BY DEF Frame, Call
  <2>2. 1 \in 1 .. N + 1 /\ N \in 0 .. N
    BY <1>1
  <2> QED
    BY <2>1, <2>2
<1>3. /\ frames = <<f>> /\ running = 0 /\ results = <<>> /\ begun = {}
      /\ unwound = FALSE /\ cancelled = FALSE /\ timed_out = FALSE
  BY <1>2 DEF Init
<1>4. frames \in Seq(Call) /\ Len(frames) = 1 /\ DOMAIN frames = {1} /\ frames[1] = f /\ frames # <<>>
  BY <1>3
<1>5. results \in Seq(StepResult) /\ DOMAIN results = {}
  BY <1>3
<1>6. TypeOK
  <2>1. running \in 0 .. N /\ begun \subseteq Step
    BY <1>1, <1>3
  <2> QED
    BY <1>1, <1>3, <1>4, <1>5, <2>1 DEF TypeOK, Call
<1>7. Reported(results) = {} /\ \A u, st : ~HasResult(results, u, st)
  BY <1>5 DEF Reported, HasResult
<1>8. Walked \subseteq Step /\ \A x \in Step : x \in Nat /\ x >= 1 /\ tree.depth[x] >= 1 /\ tree.depth[x] \in Nat
  BY <1>6, Depths DEF Walked, Step
<1>9. FrameOK(f)
  <2>1. \A u \in f.first .. f.last : tree.depth[u] >= tree.depth[f.first]
    <3> SUFFICES ASSUME NEW u \in 1 .. N PROVE tree.depth[u] >= tree.depth[1]
      BY <1>2
    <3>1. u \in Step /\ 1 \in Step
      BY <1>1 DEF Step
    <3>2. tree.depth[1] = 1
      BY <1>6, <3>1, Depths
    <3> QED
      BY <1>8, <3>1, <3>2
  <2>2. f.first .. f.next - 1 = {} /\ f.first <= f.next /\ f.next <= f.last + 1 /\ ~(f.first > 1) /\ ~(f.last < N)
    BY <1>1, <1>2
  <2> QED
    BY <1>2, <2>1, <2>2 DEF FrameOK
<1>10. Stack
  <2>1. \A u \in Step : ~(Under(1, u) /\ u # 1)
    BY <1>8 DEF Under
  <2>2. 1 .. Len(frames) - 1 = {} /\ ~(Len(frames) > 1) /\ \A j, k \in DOMAIN frames : ~(j < k)
    BY <1>4
  <2> QED
    BY <1>2, <1>4, <1>9, <2>1, <2>2 DEF Stack
<1>11. Position
  <2>1. Top.next = 1
    BY <1>2, <1>4 DEF Top
  <2>2. {u \in Walked : u < 1} = {}
    BY <1>8
  <2> QED
    BY <1>3, <1>4, <1>7, <2>1, <2>2 DEF Position
<1>12. PreOrder
  BY <1>4, <1>5, <1>7 DEF PreOrder, Done
<1>13. NothingRunsBehindFailure /\ FailureContained /\ ConditionsSeeSiblings /\ Stops
  BY <1>3, <1>5 DEF NothingRunsBehindFailure, FailureContained, ConditionsSeeSiblings, Stops
<1> QED
  BY <1>6, <1>10, <1>11, <1>12, <1>13 DEF IInv

LEMMA Results ==
  ASSUME NEW s \in Step
  PROVE  /\ \A st \in Status : Executed(s, st) \in StepResult
         /\ \A why \in Reason : Skip(s, why) \in StepResult
         /\ Executed(s, "Completed") = [step |-> s, status |-> "Completed", reason |-> "none"]
         /\ Executed(s, "Failed") = [step |-> s, status |-> "Failed", reason |-> "step_error"]
BY DEF Executed, Skip, StepResult, Status, Reason

LEMMA Single ==
  ASSUME NEW S, NEW r \in S
  PROVE  <<r>> \in Seq(S) /\ Len(<<r>>) = 1 /\ <<r>>[1] = r
OBVIOUS

LEMMA Skipping ==
  ASSUME NEW s \in 1 .. N + 1, NEW e \in Step, s <= e + 1, NEW why \in Reason
  PROVE  /\ Skips(s, e, why) \in Seq(StepResult)
         /\ Len(Skips(s, e, why)) = e - s + 1
         /\ \A j \in 1 .. e - s + 1 : Skips(s, e, why)[j] = Skip(s + j - 1, why)
<1>1. PICK c \in Nat : c = e - s + 1
  BY NAssumption DEF Step
<1>2. \A j \in 1 .. c : Skip(s + j - 1, why) \in StepResult
  <2> SUFFICES ASSUME NEW j \in 1 .. c PROVE Skip(s + j - 1, why) \in StepResult
    OBVIOUS
  <2>1. s + j - 1 \in Step
    BY <1>1, NAssumption DEF Step
  <2> QED
    BY <2>1, Results
<1>3. Skips(s, e, why) = [j \in 1 .. c |-> Skip(s + j - 1, why)]
  BY <1>1 DEF Skips
<1> QED
  BY <1>1, <1>2, <1>3

\* The range of the steps a skipped or failed step answers for.
LEMMA Reach ==
  ASSUME IInv, NEW s \in Step
  PROVE  /\ (IF nested THEN SubtreeEnd(s) ELSE s) \in Step
         /\ s <= (IF nested THEN SubtreeEnd(s) ELSE s)
         /\ (IF nested THEN SubtreeEnd(s) ELSE s) <= SubtreeEnd(s)
         /\ s \in Nat /\ SubtreeEnd(s) \in Step /\ SubtreeEnd(s) \in Nat /\ s <= SubtreeEnd(s)
<1>1. \A x \in Step : x \in Nat
  BY Depths, Typed
<1>2. SubtreeEnd(s) \in Step /\ s <= SubtreeEnd(s)
  BY <1>1, Subtree, Typed
<1> QED
  BY <1>1, <1>2

\* What an action reports for s and for its subtree, and how it goes on.
Settled(s, e, q, fl) ==
    /\ Stands(s)
    /\ Answers(s, e, q)
    /\ Joined(results, q, results')
    /\ UNCHANGED <<tree, begun, unwound, env>>
    /\ running' = 0
    /\ fl \in BOOLEAN
    /\ fl <=> Top.failed \/ q[1].status = "Failed"
    /\ q[1].status = "Completed" => running = s
    /\ q[1].status = "Skipped" => running = 0
    /\ \A j \in 1 .. Len(q) : j # 1 => q[j].status # "Completed"

LEMMA SkipStepSettles ==
  ASSUME IInv, NEW s \in Step, SkipStep(s)
  PROVE  \E e, q : /\ e \in Step
                   /\ Settled(s, e, q, Top.failed)
                   /\ e = IF nested THEN SubtreeEnd(s) ELSE s
                   /\ frames' = Advanced(s, Top.failed)
<1>1. Stands(s)
  BY Standing DEF SkipStep
<1>2. PICK e \in Step : e = IF nested THEN SubtreeEnd(s) ELSE s
  BY Reach
<1>3. s <= e /\ e <= SubtreeEnd(s) /\ (nested \/ e = s) /\ s \in Nat /\ e \in Nat
  BY <1>2, Reach, Depths, Typed
<1>4. PICK why \in Reason :
        /\ why = SkipReason(s)
        /\ why = "prior_step_failed" => Top.failed
        /\ why # "parent_step_failed"
        /\ why = "cancelled" => cancelled
        /\ why = "flow_timeout_exceeded" => timed_out
  BY DEF SkipReason, Reason
<1>5. PICK q : q = Skips(s, e, why)
  OBVIOUS
<1>6. /\ q \in Seq(StepResult) /\ Len(q) = e - s + 1
      /\ \A j \in 1 .. e - s + 1 : q[j] = Skip(s + j - 1, why)
  <2>1. s \in 1 .. N + 1 /\ s <= e + 1
    BY <1>3, NAssumption DEF Step
  <2> QED
    BY <1>5, <2>1, Skipping
<1>7. \A j \in 1 .. Len(q) : q[j].step = s + j - 1 /\ q[j].status = "Skipped" /\ q[j].reason = why
  BY <1>6 DEF Skip
<1>8. Answers(s, e, q)
  BY <1>3, <1>4, <1>6, <1>7 DEF Answers, Covers, Justified
<1>9. Joined(results, q, results')
  <2>1. results' = results \o q
    BY <1>2, <1>4, <1>5 DEF SkipStep
  <2> QED
    BY <1>6, <2>1, Typed, Joining
<1>10. /\ Top.failed \in BOOLEAN /\ (Top.failed <=> Top.failed \/ q[1].status = "Failed")
  <2>1. 1 \in 1 .. Len(q)
    BY <1>3, <1>6
  <2>2. q[1].status = "Skipped"
    BY <1>7, <2>1
  <2> QED
    BY <1>1, <2>2, Innermost DEF Stands
<1>11. /\ UNCHANGED <<tree, begun, unwound, env>> /\ running' = 0 /\ running = 0
       /\ frames' = Advanced(s, Top.failed)
  BY DEF SkipStep, At
<1>12. \A j \in 1 .. Len(q) : q[j].status # "Completed"
  BY <1>7
<1>13. q[1].status # "Completed"
  <2>1. 1 \in 1 .. Len(q)
    BY <1>3, <1>6
  <2> QED
    BY <1>12, <2>1
<1>14. Settled(s, e, q, Top.failed)
  BY <1>1, <1>8, <1>9, <1>10, <1>11, <1>12, <1>13 DEF Settled
<1> QED
  BY <1>2, <1>11, <1>14

LEMMA CompleteSettles ==
  ASSUME IInv, NEW s \in Step, Complete(s)
  PROVE  \E q : /\ Settled(s, s, q, Top.failed) /\ q[1].status = "Completed"
               /\ IF nested /\ SubtreeEnd(s) > s
                  THEN frames' = Append(Advanced(s, Top.failed), Frame(s + 1, SubtreeEnd(s)))
                  ELSE /\ frames' = Advanced(s, Top.failed)
                       /\ s = IF nested THEN SubtreeEnd(s) ELSE s
<1>1. Stands(s)
  BY Standing DEF Complete
<1>2. s \in Nat /\ SubtreeEnd(s) \in Nat /\ s <= SubtreeEnd(s)
  BY Reach
<1>3. PICK r \in StepResult : r = Executed(s, "Completed") /\ r.step = s /\ r.status = "Completed" /\ r.reason = "none"
  BY Results DEF Status
<1>4. PICK q \in Seq(StepResult) : q = <<r>> /\ Len(q) = 1 /\ q[1] = r
  BY Single
<1>5. Answers(s, s, q)
  <2>1. s - s + 1 = 1 /\ s + 1 - 1 = s /\ \A j \in 1 .. 1 : j = 1
    BY <1>2
  <2>2. Covers(q, s, s)
    BY <1>3, <1>4, <2>1 DEF Covers
  <2>3. Justified(q)
    BY <1>3, <1>4, <2>1 DEF Justified
  <2> QED
    BY <1>2, <2>2, <2>3 DEF Answers
<1>6. Joined(results, q, results')
  <2>1. results' = results \o q
    BY <1>3, <1>4, Typed, AppendIsConcat DEF Complete
  <2> QED
    BY <2>1, Typed, Joining
<1>7. Top.failed \in BOOLEAN /\ (Top.failed <=> Top.failed \/ q[1].status = "Failed")
  BY <1>1, <1>3, <1>4, Innermost DEF Stands
<1>8. UNCHANGED <<tree, begun, unwound, env>> /\ running' = 0 /\ running = s
  BY DEF Complete
<1>9. q[1].status = "Completed" /\ \A j \in 1 .. Len(q) : j = 1
  BY <1>3, <1>4
<1>10. Settled(s, s, q, Top.failed)
  BY <1>1, <1>5, <1>6, <1>7, <1>8, <1>9 DEF Settled
<1>11. CASE nested /\ SubtreeEnd(s) > s
  <2>1. frames' = Append(Advanced(s, Top.failed), Frame(s + 1, SubtreeEnd(s)))
    BY <1>11 DEF Complete
  <2> QED
    BY <1>9, <1>10, <1>11, <2>1
<1>12. CASE ~(nested /\ SubtreeEnd(s) > s)
  <2>1. frames' = Advanced(s, Top.failed)
    BY <1>12 DEF Complete
  <2>2. s = IF nested THEN SubtreeEnd(s) ELSE s
    BY <1>2, <1>12
  <2> QED
    BY <1>9, <1>10, <1>12, <2>1, <2>2
<1> QED
  BY <1>11, <1>12

LEMMA FailStepSettles ==
  ASSUME IInv, NEW s \in Step, FailStep(s)
  PROVE  \E e, q : /\ e \in Step
                   /\ Settled(s, e, q, TRUE)
                   /\ e = IF nested THEN SubtreeEnd(s) ELSE s
                   /\ frames' = Advanced(s, TRUE)
<1>1. Stands(s)
  BY Standing DEF FailStep
<1>2. PICK e \in Step : e = IF nested THEN SubtreeEnd(s) ELSE s
  BY Reach
<1>3. s <= e /\ e <= SubtreeEnd(s) /\ (nested \/ e = s) /\ s \in Nat /\ e \in Nat
  BY <1>2, Reach, Depths, Typed
<1>4. PICK r \in StepResult : r = Executed(s, "Failed") /\ r.step = s /\ r.status = "Failed" /\ r.reason = "step_error"
  BY Results DEF Status
<1>5. PICK y \in Seq(StepResult) :
        /\ y = IF nested THEN Skips(s + 1, SubtreeEnd(s), "parent_step_failed") ELSE <<>>
        /\ Len(y) = e - s
        /\ \A j \in 1 .. e - s : y[j] = Skip(s + j, "parent_step_failed")
  <2>1. CASE nested
    <3>1. s + 1 \in 1 .. N + 1 /\ s + 1 <= e + 1 /\ e - (s + 1) + 1 = e - s
      BY <1>3, NAssumption DEF Step
    <3>2. /\ Skips(s + 1, e, "parent_step_failed") \in Seq(StepResult)
          /\ Len(Skips(s + 1, e, "parent_step_failed")) = e - (s + 1) + 1
          /\ \A j \in 1 .. e - (s + 1) + 1 :
               Skips(s + 1, e, "parent_step_failed")[j] = Skip(s + 1 + j - 1, "parent_step_failed")
      BY <3>1, Skipping DEF Reason
    <3>3. \A j \in 1 .. e - s : s + 1 + j - 1 = s + j
      BY <1>3
    <3> QED
      BY <1>2, <2>1, <3>1, <3>2, <3>3
  <2>2. CASE ~nested
    <3>1. e - s = 0 /\ 1 .. e - s = {}
      BY <1>3, <2>2
    <3>2. <<>> \in Seq(StepResult) /\ Len(<<>>) = 0
      BY EmptySeq
    <3> QED
      BY <2>2, <3>1, <3>2
  <2> QED
    BY <2>1, <2>2
<1>6. PICK one \in Seq(StepResult) : one = <<r>> /\ Len(one) = 1 /\ one[1] = r
  BY Single
<1>7. PICK q \in Seq(StepResult) :
        /\ q = one \o y
        /\ Len(q) = e - s + 1
        /\ \A j \in 1 .. e - s + 1 : q[j] = IF j = 1 THEN r ELSE Skip(s + j - 1, "parent_step_failed")
  <2>1. /\ one \o y \in Seq(StepResult)
        /\ Len(one \o y) = 1 + (e - s)
        /\ \A j \in 1 .. 1 + (e - s) : (one \o y)[j] = IF j <= 1 THEN one[j] ELSE y[j - 1]
    BY <1>5, <1>6, ConcatProperties
  <2>2. ASSUME NEW j \in 1 .. e - s + 1
        PROVE  (one \o y)[j] = IF j = 1 THEN r ELSE Skip(s + j - 1, "parent_step_failed")
    <3>1. j \in 1 .. 1 + (e - s)
      BY <1>3
    <3>2. CASE j = 1
      BY <1>6, <2>1, <3>1, <3>2
    <3>3. CASE j # 1
      <4>1. j - 1 \in 1 .. e - s /\ ~(j <= 1) /\ s + (j - 1) = s + j - 1
        BY <1>3, <3>3
      <4> QED
        BY <1>5, <2>1, <3>1, <3>3, <4>1
    <3> QED
      BY <3>2, <3>3
  <2>3. 1 + (e - s) = e - s + 1
    BY <1>3
  <2> QED
    BY <2>1, <2>2, <2>3
<1>8. /\ q[1] = r
      /\ \A j \in 1 .. Len(q) : /\ q[j].step = s + j - 1
                                /\ j = 1 => q[j].reason = "step_error"
                                /\ j # 1 => /\ q[j].reason = "parent_step_failed"
                                            /\ q[j].status = "Skipped"
  <2>1. 1 \in 1 .. e - s + 1 /\ s + 1 - 1 = s
    BY <1>3
  <2>2. \A j \in 1 .. e - s + 1 :
           j # 1 => /\ q[j].step = s + j - 1 /\ q[j].reason = "parent_step_failed"
                    /\ q[j].status = "Skipped"
    <3> SUFFICES ASSUME NEW j \in 1 .. e - s + 1, j # 1
                 PROVE  /\ q[j].step = s + j - 1 /\ q[j].reason = "parent_step_failed"
                        /\ q[j].status = "Skipped"
      OBVIOUS
    <3>1. PICK z : z = q[j]
      OBVIOUS
    <3>2. z = Skip(s + j - 1, "parent_step_failed")
      BY <1>7, <3>1
    <3>3. z.step = s + j - 1 /\ z.reason = "parent_step_failed" /\ z.status = "Skipped"
      BY <3>2 DEF Skip
    <3> QED
      BY <3>1, <3>3
  <2>3. q[1] = r
    BY <1>7, <2>1
  <2> QED
    BY <1>4, <1>7, <2>1, <2>2, <2>3
<1>9. Answers(s, e, q)
  <2>1. Covers(q, s, e)
    BY <1>7, <1>8 DEF Covers
  <2>2. Justified(q)
    <3>1. \A j \in 1 .. Len(q) : j # 1 => j > 1
      BY <1>3, <1>7
    <3> QED
      BY <1>4, <1>8, <3>1 DEF Justified
  <2> QED
    BY <1>3, <2>1, <2>2 DEF Answers
<1>10. Joined(results, q, results')
  <2>1. results \in Seq(StepResult)
    BY Typed
  <2>2. results' = (results \o one) \o y
    BY <1>4, <1>5, <1>6, <2>1, AppendIsConcat DEF FailStep
  <2>3. results' = results \o q
    BY <1>7, <2>1, <2>2, ConcatAssociative
  <2> QED
    BY <2>1, <2>3, Joining
<1>11. TRUE <=> Top.failed \/ q[1].status = "Failed"
  BY <1>4, <1>8
<1>12. /\ UNCHANGED <<tree, begun, unwound, env>> /\ running' = 0
       /\ frames' = Advanced(s, TRUE)
  BY DEF FailStep
<1>13. q[1].status = "Failed" /\ \A j \in 1 .. Len(q) : j # 1 => q[j].status # "Completed"
  BY <1>4, <1>8
<1>14. Settled(s, e, q, TRUE)
  BY <1>1, <1>9, <1>10, <1>11, <1>12, <1>13 DEF Settled
<1> QED
  BY <1>2, <1>12, <1>14

LEMMA SkipStepKeeps ==
  ASSUME IInv, NEW s \in Step, SkipStep(s)
  PROVE  IInv'
<1>1. PICK e, q : /\ e \in Step
                  /\ Settled(s, e, q, Top.failed)
                  /\ e = IF nested THEN SubtreeEnd(s) ELSE s
                  /\ frames' = Advanced(s, Top.failed)
  BY SkipStepSettles
<1> QED
  BY <1>1, Advances DEF Settled

LEMMA CompleteKeeps ==
  ASSUME IInv, NEW s \in Step, Complete(s)
  PROVE  IInv'
<1>1. PICK q : /\ Settled(s, s, q, Top.failed) /\ q[1].status = "Completed"
               /\ IF nested /\ SubtreeEnd(s) > s
                  THEN frames' = Append(Advanced(s, Top.failed), Frame(s + 1, SubtreeEnd(s)))
                  ELSE /\ frames' = Advanced(s, Top.failed)
                       /\ s = IF nested THEN SubtreeEnd(s) ELSE s
  BY CompleteSettles
<1>2. CASE nested /\ SubtreeEnd(s) > s
  BY <1>1, <1>2, Descends DEF Settled
<1>3. CASE ~(nested /\ SubtreeEnd(s) > s)
  BY <1>1, <1>3, Advances DEF Settled
<1> QED
  BY <1>2, <1>3

LEMMA FailStepKeeps ==
  ASSUME IInv, NEW s \in Step, FailStep(s)
  PROVE  IInv'
<1>1. PICK e, q : /\ e \in Step
                  /\ Settled(s, e, q, TRUE)
                  /\ e = IF nested THEN SubtreeEnd(s) ELSE s
                  /\ frames' = Advanced(s, TRUE)
  BY FailStepSettles
<1> QED
  BY <1>1, Advances DEF Settled

\* A step that reports nothing keeps what is said of the results.
LEMMA NothingReported ==
  ASSUME IInv, tree' = tree, results' = results, begun' = begun,
         cancelled => cancelled', timed_out => timed_out'
  PROVE  NothingRunsBehindFailure' /\ FailureContained' /\ ConditionsSeeSiblings' /\ Stops'
<1>1. /\ nested' = nested
      /\ \A u, v : Under(u, v)' <=> Under(u, v)
      /\ \A u, v : EarlierSibling(u, v)' <=> EarlierSibling(u, v)
  BY DEF nested, Under, EarlierSibling
<1>2. NothingRunsBehindFailure'
  BY <1>1 DEF IInv, NothingRunsBehindFailure
<1>3. FailureContained'
  BY <1>1 DEF IInv, FailureContained
<1>4. ConditionsSeeSiblings'
  BY <1>1 DEF IInv, ConditionsSeeSiblings
<1>5. Stops'
  BY DEF IInv, Stops
<1> QED
  BY <1>2, <1>3, <1>4, <1>5

LEMMA SameCalls ==
  ASSUME IInv, tree' = tree, results' = results, frames' = frames
  PROVE  Stack' /\ Top' = Top
<1>1. nested' = nested /\ (\A f : FrameOK(f)' <=> FrameOK(f)) /\ \A u, v : Under(u, v)' <=> Under(u, v)
  BY DEF nested, FrameOK, Under
<1>2. Stack'
  BY <1>1 DEF IInv, Stack
<1> QED
  BY <1>2 DEF Top

LEMMA ExecuteKeeps ==
  ASSUME IInv, NEW s \in Step, Execute(s)
  PROVE  IInv'
<1>1. Stands(s) /\ s # 0 /\ s \in 0 .. N
  BY Standing, Depths, Typed DEF Execute, Step
<1>2. /\ tree' = tree /\ frames' = frames /\ results' = results /\ unwound' = unwound
      /\ running' = s /\ begun' = begun \cup {s} /\ cancelled' = cancelled /\ timed_out' = timed_out
  BY DEF Execute, env
<1>3. ~Top.failed /\ ~check_condition_false(tree, s, Visible) /\ running = 0
  BY DEF Execute, SkipReason, At
<1>4. TypeOK'
  BY <1>1, <1>2, NewTypes DEF IInv, TypeOK, Call
<1>5. Stack' /\ Top' = Top
  BY <1>2, SameCalls
<1>6. /\ nested' = nested /\ Walked' = Walked
      /\ \A u, v : Under(u, v)' <=> Under(u, v)
      /\ \A u, v : EarlierSibling(u, v)' <=> EarlierSibling(u, v)
  BY <1>2 DEF nested, Walked, Under, EarlierSibling
<1>7. Position'
  <2>1. ~unwound /\ Reported(results) = {u \in Walked : u < Top.next}
    BY <1>1 DEF IInv, Position, Stands
  <2>2. begun \subseteq Reported(results)
    <3>1. begun \subseteq Reported(results) \cup {0} /\ begun \subseteq Step /\ 0 \notin Step
      BY <1>3, <2>1, Depths DEF IInv, Position, TypeOK
    <3> QED
      BY <3>1
  <2> QED
    BY <1>1, <1>2, <1>3, <1>5, <1>6, <2>1, <2>2 DEF Position, Stands
<1>8. PreOrder'
  BY <1>2, <1>6 DEF IInv, PreOrder, Done
<1>9. NothingRunsBehindFailure'
  <2> SUFFICES ASSUME NEW t \in begun \cup {s}
               PROVE  /\ nested => \A u \in Step : Under(t, u) /\ u # t => HasResult(results, u, "Completed")
                      /\ \A u \in Step : EarlierSibling(u, t) => ~HasResult(results, u, "Failed")
    BY <1>2, <1>6 DEF NothingRunsBehindFailure
  <2>1. CASE t \in begun
    BY <2>1 DEF IInv, NothingRunsBehindFailure
  <2>2. CASE t = s
    <3>1. \A u \in Step : Under(s, u) /\ u # s => HasResult(results, u, "Completed")
      BY <1>1, AroundStep
    <3>2. ASSUME NEW u \in Step, EarlierSibling(u, s) PROVE ~HasResult(results, u, "Failed")
      <4>1. u \in Top.first .. Top.next - 1 /\ tree.depth[u] = tree.depth[Top.first]
        BY <1>1, <3>2, BesideStep DEF Stands
      <4> QED
        BY <1>1, <1>3, <4>1, Innermost DEF FrameOK, Stands
    <3> QED
      BY <2>2, <3>1, <3>2
  <2> QED
    BY <2>1, <2>2
<1>10. ConditionsSeeSiblings'
  <2>1. ASSUME tree.cond[s].kind = "status" PROVE EarlierSibling(tree.cond[s].on, s)
    <3>1. PICK i \in DOMAIN Visible : Visible[i].step = tree.cond[s].on
      BY <1>3, <2>1 DEF check_condition_false, HasResult
    <3>2. /\ i \in DOMAIN results /\ Visible[i] = results[i]
          /\ results[i].step \in Top.first .. Top.last
          /\ tree.depth[results[i].step] = tree.depth[Top.first]
      BY <3>1 DEF Visible
    <3>3. results[i].step \in Step /\ results[i].step < s
      <4>1. results[i].step \in Reported(results)
        BY <3>2 DEF Reported
      <4> QED
        BY <1>1, <4>1 DEF IInv, Position, Stands, Walked
    <3>4. results[i].step \in Top.first .. s - 1
      <4>1. s \in Nat /\ Top.first \in Nat /\ Top.last \in Nat
        BY <1>1, Depths, Typed, Innermost DEF Stands
      <4> QED
        BY <3>2, <3>3, <4>1
    <3>5. EarlierSibling(results[i].step, s)
      BY <1>1, <3>2, <3>3, <3>4, BesideStep
    <3> QED
      BY <3>1, <3>2, <3>5
  <2> QED
    BY <1>2, <1>6, <2>1 DEF IInv, ConditionsSeeSiblings
<1>11. FailureContained'
  BY <1>2, <1>6 DEF IInv, FailureContained
<1>12. Stops'
  BY <1>2 DEF IInv, Stops
<1> QED
  BY <1>4, <1>5, <1>7, <1>8, <1>9, <1>10, <1>11, <1>12 DEF IInv

LEMMA LeaveKeeps ==
  ASSUME IInv, Leave
  PROVE  IInv'
<1>1. /\ frames # <<>> /\ running = 0 /\ Top.next > Top.last
      /\ tree' = tree /\ results' = results /\ unwound' = unwound /\ running' = running
      /\ begun' = begun /\ cancelled' = cancelled /\ timed_out' = timed_out
  BY DEF Leave, env
<1>2. PICK n \in Nat : n = Len(frames) /\ n >= 1 /\ n \in DOMAIN frames /\ DOMAIN frames = 1 .. n
  BY <1>1, Innermost, Typed
<1>3. N \in Nat /\ frames \in Seq(Call) /\ \A x \in Step : x \in Nat /\ x <= N
  BY Depths, Typed DEF IInv, TypeOK, Call
<1>4. PICK g \in Seq(Call) :
        /\ g = frames' /\ Len(g) = n - 1 /\ DOMAIN g = 1 .. n - 1
        /\ \A k \in 1 .. n - 1 : g[k] = frames[k]
  <2>1. \A i \in 1 .. n - 1 : frames[i] \in Call
    <3>1. \A i \in 1 .. n - 1 : i \in 1 .. n
      BY <1>2
    <3> QED
      BY <1>2, <1>3, <3>1, ElementOfSeq
  <2>2. n - 1 \in Nat
    BY <1>2
  <2>3. /\ SubSeq(frames, 1, n - 1) \in Seq(Call)
        /\ Len(SubSeq(frames, 1, n - 1)) = IF 1 <= n - 1 THEN (n - 1) - 1 + 1 ELSE 0
        /\ \A i \in 1 .. (n - 1) - 1 + 1 : SubSeq(frames, 1, n - 1)[i] = frames[1 + i - 1]
    BY <2>1, <2>2, SubSeqProperties
  <2>4. Len(SubSeq(frames, 1, n - 1)) = n - 1
    BY <2>2, <2>3
  <2>5. \A i \in 1 .. n - 1 : SubSeq(frames, 1, n - 1)[i] = frames[i]
    <3>1. \A i \in 1 .. n - 1 : i \in 1 .. (n - 1) - 1 + 1 /\ 1 + i - 1 = i
      BY <2>2
    <3> QED
      BY <2>3, <3>1
  <2>6. DOMAIN SubSeq(frames, 1, n - 1) = 1 .. n - 1
    BY <2>3, <2>4, LenProperties
  <2>7. frames' = SubSeq(frames, 1, n - 1)
    BY <1>2 DEF Leave
  <2> QED
    BY <2>3, <2>4, <2>5, <2>6, <2>7
<1>5. Top.next = Top.last + 1
  <2>1. Top.next <= Top.last + 1 /\ Top.next \in Nat /\ Top.last \in Nat
    BY <1>1, Innermost DEF FrameOK
  <2> QED
    BY <1>1, <2>1
<1>6. TypeOK'
  BY <1>1, <1>4, NewTypes DEF IInv, TypeOK, Call
<1>7. /\ nested' = nested /\ Walked' = Walked
      /\ (\A f : FrameOK(f)' <=> FrameOK(f)) /\ \A u, v : Under(u, v)' <=> Under(u, v)
  BY <1>1 DEF nested, Walked, FrameOK, Under
<1>8. \A k \in 1 .. n - 1 : k \in 1 .. n
  BY <1>2
<1>9. Stack'
  <2>1. g # <<>> => g[1].first = 1 /\ g[1].last = N
    <3> SUFFICES ASSUME g # <<>> PROVE g[1].first = 1 /\ g[1].last = N
      OBVIOUS
    <3>1. Len(g) \in Nat \ {0}
      BY EmptySeq
    <3>2. 1 \in 1 .. n - 1
      BY <1>2, <1>4, <3>1
    <3> QED
      BY <1>1, <1>4, <3>2 DEF IInv, Stack
  <2>2. n - 1 > 1 => nested
    <3>1. n - 1 > 1 => n > 1
      BY <1>2
    <3> QED
      BY <1>2, <3>1 DEF IInv, Stack
  <2>3. \A k \in 1 .. n - 1 : FrameOK(g[k])
    BY <1>2, <1>4, <1>8 DEF IInv, Stack
  <2>4. \A k \in 1 .. (n - 1) - 1 : g[k].next = g[k + 1].last + 1
    <3> SUFFICES ASSUME NEW k \in 1 .. (n - 1) - 1 PROVE g[k].next = g[k + 1].last + 1
      OBVIOUS
    <3>1. k \in 1 .. n - 1 /\ k + 1 \in 1 .. n - 1
      BY <1>2
    <3> QED
      BY <1>2, <1>4, <3>1 DEF IInv, Stack
  <2>5. \A j, k \in 1 .. n - 1 : j < k => /\ g[j].first < g[k].first
                                          /\ tree.depth[g[j].first] < tree.depth[g[k].first]
    BY <1>2, <1>4, <1>8 DEF IInv, Stack
  <2>6. \A k \in 1 .. n - 1 : \A u \in Step :
           Under(g[k].first, u) /\ u # g[k].first => HasResult(results, u, "Completed")
    BY <1>2, <1>4, <1>8 DEF IInv, Stack
  <2> QED
    BY <1>1, <1>4, <1>7, <2>1, <2>2, <2>3, <2>4, <2>5, <2>6 DEF Stack
<1>10. ~unwound /\ begun \subseteq Reported(results) \cup {0} /\ Reported(results) = {u \in Walked : u < Top.next}
  BY <1>1 DEF IInv, Position
<1>11. Position'
  <2>1. g # <<>> => Top'.next = Top.next
    <3> SUFFICES ASSUME g # <<>> PROVE Top'.next = Top.next
      OBVIOUS
    <3>1. Len(g) \in Nat \ {0}
      BY EmptySeq
    <3>2. n - 1 \in 1 .. n - 1 /\ (n - 1) + 1 = n
      BY <1>2, <1>4, <3>1
    <3>3. frames[n - 1].next = frames[n].last + 1
      BY <1>2, <3>2 DEF IInv, Stack
    <3> QED
      BY <1>2, <1>4, <1>5, <3>2, <3>3 DEF Top
  <2> QED
    BY <1>1, <1>4, <1>7, <1>10, <2>1 DEF Position
<1>12. PreOrder'
  <2>0. Len(g) = 0 => n = 1
    <3>1. \A x : x = n - 1 /\ x = 0 => n = 1
      OBVIOUS
    <3>2. Len(g) = n - 1
      BY <1>4
    <3> QED
      BY <3>1, <3>2
  <2>1. g = <<>> => Reported(results) = Walked
    <3> SUFFICES ASSUME g = <<>> PROVE Reported(results) = Walked
      OBVIOUS
    <3>1. n = 1
      <4>1. Len(g) = 0
        BY EmptySeq
      <4> QED
        BY <2>0, <4>1
    <3>2. Top.next = N + 1
      BY <1>1, <1>2, <1>5, <3>1 DEF IInv, Stack, Top
    <3>3. \A u \in Walked : u < N + 1
      BY <1>3 DEF Walked
    <3> QED
      BY <1>10, <3>2, <3>3
  <2> QED
    BY <1>1, <1>4, <1>7, <2>1 DEF IInv, PreOrder, Done
<1> QED
  BY <1>1, <1>6, <1>9, <1>11, <1>12, NothingReported DEF IInv

LEMMA PanicKeeps ==
  ASSUME IInv, NEW s \in Step, Panic(s)
  PROVE  IInv'
<1>1. /\ tree' = tree /\ results' = results /\ begun' = begun
      /\ cancelled' = cancelled /\ timed_out' = timed_out
      /\ running' = 0 /\ frames' = <<>> /\ unwound' = TRUE
  BY DEF Panic, env
<1>2. <<>> \in Seq(Call) /\ Len(<<>>) = 0 /\ DOMAIN <<>> = {}
  BY EmptySeq
<1>3. N \in Nat
  BY NAssumption
<1>4. TypeOK'
  <2>1. running' \in 0 .. N /\ frames' \in Seq(Call)
    BY <1>1, <1>2, <1>3
  <2> QED
    BY <1>1, <2>1, NewTypes DEF IInv, TypeOK
<1>5. Stack'
  BY <1>1, <1>2 DEF Stack
<1>6. Position' /\ ~Done'
  BY <1>1 DEF Position, Done
<1>7. Walked' = Walked
  BY <1>1 DEF Walked, nested
<1>8. PreOrder'
  BY <1>1, <1>6, <1>7 DEF IInv, PreOrder
<1> QED
  BY <1>1, <1>4, <1>5, <1>6, <1>8, NothingReported DEF IInv

\* The environment, and a stuttering step.
LEMMA RestKeeps ==
  ASSUME IInv, Cancel \/ Deadline \/ UNCHANGED vars
  PROVE  IInv'
<1>1. /\ tree' = tree /\ frames' = frames /\ running' = running /\ results' = results
      /\ unwound' = unwound /\ begun' = begun
      /\ cancelled' \in BOOLEAN /\ timed_out' \in BOOLEAN
      /\ cancelled => cancelled'
      /\ timed_out => timed_out'
  BY DEF Cancel, Deadline, vars, env, IInv, TypeOK
<1>2. TypeOK'
  BY <1>1, NewTypes DEF IInv, TypeOK, Call
<1>3. Stack' /\ Top' = Top
  BY <1>1, SameCalls
<1>4. Walked' = Walked
  BY <1>1 DEF Walked, nested
<1>5. Position' /\ PreOrder'
  BY <1>1, <1>3, <1>4 DEF IInv, Position, PreOrder, Done
<1> QED
  BY <1>1, <1>2, <1>3, <1>5, NothingReported DEF IInv

LEMMA Preserves ==
  ASSUME IInv, [Next]_vars
  PROVE  IInv'
<1>1. ASSUME NEW s \in Step, SkipStep(s) PROVE IInv'
  BY <1>1, SkipStepKeeps
<1>2. ASSUME NEW s \in Step, Execute(s) PROVE IInv'
  BY <1>2, ExecuteKeeps
<1>3. ASSUME NEW s \in Step, Complete(s) PROVE IInv'
  BY <1>3, CompleteKeeps
<1>4. ASSUME NEW s \in Step, FailStep(s) PROVE IInv'
  BY <1>4, FailStepKeeps
<1>5. ASSUME NEW s \in Step, Panic(s) PROVE IInv'
  BY <1>5, PanicKeeps
<1>6. CASE Leave
  BY <1>6, LeaveKeeps
<1>7. CASE Cancel \/ Deadline \/ UNCHANGED vars
  BY <1>7, RestKeeps
<1> QED
  BY <1>1, <1>2, <1>3, <1>4, <1>5, <1>6, <1>7 DEF Next, Walk

(***************************************************************************)
(* The theorems.                                                           *)
(***************************************************************************)

\* The walk keeps IInv, for every tree and both modes: its calls are nested
\* intervals, and exactly the steps it has passed are reported.
THEOREM Invariance == Spec => []IInv
BY Base, Preserves, PTL DEF Spec

\* run_sequential and run_hierarchical, for every tree: the results come in
\* pre-order and none is missing, nothing runs below or behind a failed step, and
\* a failure reaches only its own subtree and its later siblings.
THEOREM TreeSafe == Spec => []Inv
<1>1. IInv => Inv
  BY DEF IInv, Inv
<1> QED
  BY <1>1, Invariance, PTL

\* A condition on a step of another level never holds: build_step_context knows
\* the names of the steps slice only.
THEOREM TreeConditionsSeeSiblings == Spec => []ConditionsSeeSiblings
<1>1. IInv => ConditionsSeeSiblings
  BY DEF IInv
<1> QED
  BY <1>1, Invariance, PTL

LEMMA StopHolds ==
  ASSUME IInv, [Next]_vars,
         \E i \in DOMAIN results : results[i].reason \in {"cancelled", "flow_timeout_exceeded"}
  PROVE  begun' = begun
<1>1. cancelled \/ timed_out
  BY DEF IInv, Stops
<1>2. \A s \in Step : ~Execute(s)
  BY <1>1 DEF Execute, SkipReason
<1> QED
  BY <1>2 DEF Next, Walk, SkipStep, Complete, FailStep, Panic, Leave, Cancel, Deadline, vars

\* Once a step was skipped for the token or the deadline, at whatever level, the
\* walk invokes no handler any more.
THEOREM TreeStopIsFinal == Spec => StopIsFinal
<1>1. IInv /\ [Next]_vars =>
        [(\E i \in DOMAIN results : results[i].reason \in {"cancelled", "flow_timeout_exceeded"})
           => begun' = begun]_vars
  BY StopHolds
<1> QED
  BY <1>1, Invariance, PTL DEF Spec, StopIsFinal

(***************************************************************************)
(* The contract of the executors.                                          *)
(***************************************************************************)

OutcomeIn(rs) ==
    [s \in Step |->
        IF s \in Reported(rs)
        THEN rs[CHOOSE i \in DOMAIN rs : rs[i].step = s].status
        ELSE "none"]

\* The outcome of a step is the status of its result.
LEMMA OutcomeOf ==
  ASSUME NEW rs \in Seq(StepResult), \A i, j \in DOMAIN rs : i < j => rs[i].step < rs[j].step
  PROVE  /\ \A a \in DOMAIN rs : rs[a].step \in Step /\ OutcomeIn(rs)[rs[a].step] = rs[a].status
         /\ \A s \in Step : s \notin Reported(rs) => OutcomeIn(rs)[s] = "none"
         /\ \A s \in Reported(rs) : OutcomeIn(rs)[s] \in Status
         /\ OutcomeIn(rs) \in [Step -> Status \cup {"none"}]
<1>1. DOMAIN rs = 1 .. Len(rs) /\ Len(rs) \in Nat /\ \A a \in DOMAIN rs : rs[a] \in StepResult
  BY LenProperties, ElementOfSeq
<1>2. \A a \in DOMAIN rs : rs[a].step \in Step /\ rs[a].step \in Nat /\ rs[a].status \in Status
  BY <1>1, NAssumption DEF StepResult, Step
<1>3. \A a, b \in DOMAIN rs : rs[a].step = rs[b].step => a = b
  <2> SUFFICES ASSUME NEW a \in DOMAIN rs, NEW b \in DOMAIN rs, rs[a].step = rs[b].step, a # b
               PROVE  FALSE
    OBVIOUS
  <2>1. a < b \/ b < a
    BY <1>1
  <2>2. rs[a].step < rs[b].step \/ rs[b].step < rs[a].step
    BY <2>1
  <2> QED
    BY <1>2, <2>2
<1>4. ASSUME NEW a \in DOMAIN rs PROVE OutcomeIn(rs)[rs[a].step] = rs[a].status
  <2>1. PICK c : c = CHOOSE i \in DOMAIN rs : rs[i].step = rs[a].step
    OBVIOUS
  <2>2. c \in DOMAIN rs /\ rs[c].step = rs[a].step
    BY <2>1
  <2>3. c = a
    BY <1>3, <2>2
  <2>4. rs[a].step \in Reported(rs)
    BY DEF Reported
  <2> QED
    BY <1>2, <2>1, <2>3, <2>4 DEF OutcomeIn
<1>5. \A s \in Step : s \notin Reported(rs) => OutcomeIn(rs)[s] = "none"
  BY DEF OutcomeIn
<1>6. \A s \in Reported(rs) : OutcomeIn(rs)[s] \in Status
  BY <1>2, <1>4 DEF Reported
<1>7. OutcomeIn(rs) \in [Step -> Status \cup {"none"}]
  <2>1. \A s \in Step : OutcomeIn(rs)[s] \in Status \cup {"none"}
    BY <1>5, <1>6
  <2> QED
    BY <2>1 DEF OutcomeIn
<1> QED
  BY <1>2, <1>4, <1>5, <1>6, <1>7

\* The results of s and its subtree are one step of the contract.
LEMMA RefineReport ==
  ASSUME IInv, NEW s \in Step, Stands(s), NEW e \in Step, NEW q, Answers(s, e, q),
         Joined(results, q, results'), begun' = begun, frames' # <<>>,
         q[1].status = "Completed" => running = s,
         q[1].status = "Skipped" => running = 0,
         \A j \in 1 .. Len(q) : j # 1 => q[j].status # "Completed"
  PROVE  Contract!Report
<1>1. /\ N \in Nat /\ \A x \in Step : x \in Nat /\ x # 0
  BY Depths, Typed
<1>2. PICK rt : rt = results'
  OBVIOUS
<1>3. PICK o : o = OutcomeIn(results)
  OBVIOUS
<1>4. PICK p : p = OutcomeIn(rt)
  OBVIOUS
<1>5. Outcome = o /\ Outcome' = p
  BY <1>2, <1>3, <1>4 DEF Outcome, OutcomeIn
<1>6. /\ rt \in Seq(StepResult)
      /\ \A i, j \in DOMAIN rt : i < j => rt[i].step < rt[j].step
  BY <1>2, Reporting
<1>7. \A i \in DOMAIN rt : \/ i \in DOMAIN results /\ rt[i] = results[i]
                           \/ i - Len(results) \in 1 .. Len(q) /\ rt[i] = q[i - Len(results)]
  BY <1>2 DEF Joined
<1>8. /\ \A a \in DOMAIN results : o[results[a].step] = results[a].status
      /\ \A u \in Step : u \notin Reported(results) => o[u] = "none"
  BY <1>3, Typed, OutcomeOf DEF IInv, PreOrder
<1>9. /\ \A a \in DOMAIN rt : rt[a].step \in Step /\ p[rt[a].step] = rt[a].status
      /\ \A u \in Step : u \notin Reported(rt) => p[u] = "none"
      /\ p \in [Step -> Status \cup {"none"}]
  BY <1>4, <1>6, OutcomeOf
<1>10. /\ ~unwound /\ Reported(results) = {u \in Walked : u < s}
       /\ begun \subseteq Reported(results) \cup {running}
       /\ running # 0 => running \in begun
       /\ running = 0 \/ running = s
  BY DEF IInv, Position, Stands
<1>11. Reported(results) \subseteq Reported(rt)
  BY <1>2 DEF Joined, Reported
<1>12. ASSUME NEW u \in Step, p[u] # o[u]
       PROVE  o[u] = "none" /\ (p[u] = "Completed" => u \in begun) /\ ~(p[u] = "Skipped" /\ u \in begun)
  <2>1. u \notin Reported(results)
    <3> SUFFICES ASSUME u \in Reported(results) PROVE FALSE
      OBVIOUS
    <3>1. PICK a \in DOMAIN results : results[a].step = u
      BY DEF Reported
    <3>2. a \in DOMAIN rt /\ rt[a] = results[a]
      BY <1>2 DEF Joined
    <3> QED
      BY <1>8, <1>9, <1>12, <3>1, <3>2
  <2>2. o[u] = "none"
    BY <1>8, <2>1
  <2>3. PICK a \in DOMAIN rt : rt[a].step = u
    BY <1>9, <1>12, <2>2 DEF Reported
  <2>4. ~(a \in DOMAIN results /\ rt[a] = results[a])
    BY <2>1, <2>3 DEF Reported
  <2>5. PICK j \in 1 .. Len(q) : rt[a] = q[j]
    BY <1>7, <2>4
  <2>6. p[u] = q[j].status /\ u = s + j - 1
    BY <1>9, <2>3, <2>5 DEF Answers, Covers
  <2>7. u \in begun => u = running
    BY <1>10, <2>1
  <2>8. j # 1 => u # s /\ q[j].status # "Completed"
    BY <1>1, <2>6
  <2>9. j = 1 => u = s
    BY <1>1, <2>6
  <2>10. p[u] = "Completed" => u \in begun
    BY <1>1, <1>10, <2>6, <2>8, <2>9
  <2>11. ~(p[u] = "Skipped" /\ u \in begun)
    BY <1>1, <1>10, <2>6, <2>7, <2>8, <2>9
  <2> QED
    BY <2>2, <2>10, <2>11
<1>13. Done = FALSE /\ Done' = FALSE
  BY DEF Done, Stands
<1> QED
  BY <1>5, <1>9, <1>12, <1>13 DEF Contract!Report, Contract!Status, Contract!Step, Status, Step

LEMMA RefineStutter ==
  ASSUME results' = results, begun' = begun, Done' <=> Done
  PROVE  UNCHANGED Contract!vars
<1>1. Outcome' = Outcome /\ Done' = Done
  BY DEF Outcome, Done
<1> QED
  BY <1>1 DEF Contract!vars

\* The calls that dealt with a step are never empty.
LEMMA StillWalking ==
  ASSUME IInv, NEW s \in Step, Stands(s), NEW fl \in BOOLEAN,
         \/ frames' = Advanced(s, fl)
         \/ frames' = Append(Advanced(s, fl), Frame(s + 1, SubtreeEnd(s))) /\ SubtreeEnd(s) > s
  PROVE  frames' # <<>>
<1>1. PICK g \in Seq(Call) : g = Advanced(s, fl) /\ Len(g) = Len(frames)
  BY Advancing
<1>2. Len(g) \in Nat /\ Len(g) >= 1 /\ Len(<<>>) = 0
  BY <1>1, Innermost, EmptySeq DEF Stands
<1>3. g # <<>>
  BY <1>2
<1>4. SubtreeEnd(s) > s => Append(g, Frame(s + 1, SubtreeEnd(s))) # <<>>
  <2> SUFFICES ASSUME SubtreeEnd(s) > s PROVE Append(g, Frame(s + 1, SubtreeEnd(s))) # <<>>
    OBVIOUS
  <2>1. Frame(s + 1, SubtreeEnd(s)) \in Call
    BY NewCall
  <2>2. Append(g, Frame(s + 1, SubtreeEnd(s))) # <<>>
    BY <2>1, AppendProperties
  <2> QED
    BY <2>2
<1> QED
  BY <1>1, <1>3, <1>4

LEMMA RefineSettled ==
  ASSUME IInv, NEW s \in Step, NEW e \in Step, NEW q, NEW fl, Settled(s, e, q, fl),
         \/ frames' = Advanced(s, fl)
         \/ frames' = Append(Advanced(s, fl), Frame(s + 1, SubtreeEnd(s))) /\ SubtreeEnd(s) > s
  PROVE  Contract!Next
<1>1. Stands(s) /\ fl \in BOOLEAN
  BY DEF Settled
<1>2. frames' # <<>>
  BY <1>1, StillWalking
<1>3. Contract!Report
  BY <1>1, <1>2, RefineReport DEF Settled
<1> QED
  BY <1>3 DEF Contract!Next

LEMMA RefineExecute ==
  ASSUME IInv, NEW s \in Step, Execute(s)
  PROVE  Contract!Begin(s)
<1>1. Stands(s) /\ s \in Nat /\ 0 \notin Step
  BY Standing, Depths, Typed DEF Execute
<1>2. running = 0 /\ results' = results /\ begun' = begun \cup {s} /\ frames' = frames /\ frames # <<>>
  BY <1>1 DEF Execute, At, Stands
<1>3. s \notin Reported(results) /\ s \notin begun
  <2>1. Reported(results) = {u \in Walked : u < s} /\ begun \subseteq Reported(results) \cup {0}
    BY <1>1, <1>2 DEF IInv, Position, Stands
  <2>2. s \notin Reported(results)
    BY <1>1, <2>1
  <2> QED
    BY <1>1, <2>1, <2>2
<1>4. Outcome[s] = "none" /\ Outcome' = Outcome
  BY <1>2, <1>3 DEF Outcome
<1>5. Done = FALSE /\ Done' = FALSE
  BY <1>2 DEF Done
<1> QED
  BY <1>2, <1>3, <1>4, <1>5 DEF Contract!Begin

LEMMA RefineLeave ==
  ASSUME IInv, IInv', Leave
  PROVE  [Contract!Return]_(Contract!vars)
<1>1. results' = results /\ begun' = begun /\ ~Done
  BY DEF Leave, Done
<1>2. CASE Done'
  <2>1. Outcome' = Outcome /\ Outcome = OutcomeIn(results)
    BY <1>1 DEF Outcome, OutcomeIn
  <2>2. begun \subseteq Reported(results)
    <3>1. /\ begun' \subseteq Reported(results') \cup {running'} /\ running' = 0
      BY <1>2 DEF IInv, Position, Done
    <3>2. begun \subseteq Step /\ 0 \notin Step
      BY Depths, Typed DEF IInv, TypeOK
    <3> QED
      BY <1>1, <3>1, <3>2
  <2>3. \A s \in Reported(results) : Outcome[s] \in Status
    BY <2>1, Typed, OutcomeOf DEF IInv, PreOrder
  <2>4. \A s \in begun : Outcome[s] # "none"
    BY <2>2, <2>3 DEF Status
  <2>5. Done = FALSE /\ Done' = TRUE
    BY <1>1, <1>2
  <2> QED
    BY <1>1, <2>1, <2>4, <2>5 DEF Contract!Return
<1>3. CASE ~Done'
  BY <1>1, <1>3, RefineStutter
<1> QED
  BY <1>2, <1>3

LEMMA RefineNext ==
  ASSUME IInv, [Next]_vars
  PROVE  [Contract!Next]_(Contract!vars)
<1>1. ASSUME NEW s \in Step, SkipStep(s) PROVE Contract!Next
  BY <1>1, SkipStepSettles, RefineSettled
<1>2. ASSUME NEW s \in Step, Complete(s) PROVE Contract!Next
  BY <1>2, CompleteSettles, RefineSettled
<1>3. ASSUME NEW s \in Step, FailStep(s) PROVE Contract!Next
  BY <1>3, FailStepSettles, RefineSettled
<1>4. ASSUME NEW s \in Step, Execute(s) PROVE Contract!Next
  BY <1>4, RefineExecute DEF Contract!Next, Contract!Step, Step
<1>5. ASSUME NEW s \in Step, Panic(s) PROVE UNCHANGED Contract!vars
  <2>1. s # 0
    BY Depths, Typed
  <2>2. frames # <<>>
    BY <1>5, <2>1 DEF IInv, Position, Panic
  <2>3. results' = results /\ begun' = begun /\ ~Done /\ ~Done'
    BY <1>5, <2>2 DEF Panic, Done
  <2> QED
    BY <2>3, RefineStutter
<1>6. CASE Leave
  <2>1. IInv'
    BY Preserves
  <2> QED
    BY <1>6, <2>1, RefineLeave DEF Contract!Next
<1>7. CASE Cancel \/ Deadline \/ UNCHANGED vars
  <2>1. results' = results /\ begun' = begun /\ (Done' <=> Done)
    BY <1>7 DEF Cancel, Deadline, vars, Done
  <2> QED
    BY <2>1, RefineStutter
<1> QED
  BY <1>1, <1>2, <1>3, <1>4, <1>5, <1>6, <1>7 DEF Next, Walk

LEMMA RefineInit ==
  ASSUME Init
  PROVE  Contract!Init
<1>1. results = <<>> /\ begun = {} /\ frames # <<>>
  BY DEF Init
<1>2. Reported(results) = {}
  BY <1>1 DEF Reported
<1>3. Outcome = [s \in Step |-> "none"] /\ Done = FALSE
  BY <1>1, <1>2 DEF Outcome, Done
<1> QED
  BY <1>1, <1>3 DEF Contract!Init, Contract!Step, Step

\* run_sequential and run_hierarchical keep the contract of an executor that
\* abandons no step: a handler is invoked once, before its step has a result; its
\* step is then reported with the handler's outcome, never as skipped; and the
\* results are handed over only when every invoked handler has one.
THEOREM TreeKeepsContract == Spec => RefinesContract
BY RefineInit, RefineNext, Invariance, PTL DEF Spec, RefinesContract, Contract!Spec

=============================================================================
