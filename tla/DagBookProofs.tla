---------------------------- MODULE DagBookProofs ----------------------------
(***************************************************************************)
(* Facts about the in-degree bookkeeping, for every flow and every N: the  *)
(* queue is seeded right, and unlocking from a step keeps BookInv.         *)
(***************************************************************************)
EXTENDS DagBook, FiniteSetTheorems, TLAPS

\* Any set of ordinals is finite.
LEMMA StepFinite ==
  ASSUME NEW S \in SUBSET Step
  PROVE  IsFiniteSet(S) /\ Cardinality(S) \in Nat /\ Cardinality(S) <= N
<1>1. IsFiniteSet(Step) /\ Cardinality(Step) = N
  BY NAssumption, FS_Interval, 1 \in Int, N \in Int DEF Step
<1> QED
  BY <1>1, FS_Subset, FS_CardinalityType

\* The order in which the loops visit a set of ordinals exists: the rank of
\* an ordinal, the number of elements up to it, numbers the set from 1.
LEMMA AscendingExists ==
  ASSUME NEW S \in SUBSET Step
  PROVE  \E q \in [1 .. Cardinality(S) -> S] :
            \A i, j \in 1 .. Cardinality(S) : i < j => q[i] < q[j]
<1> DEFINE below(d) == {e \in S : e <= d}
           c        == Cardinality(S)
           rank     == [d \in S |-> Cardinality(below(d))]
<1>1. c \in Nat /\ IsFiniteSet(S)
  BY StepFinite
<1>2. S \subseteq Int
  BY NAssumption DEF Step
<1>3. \A d \in S : rank[d] \in 1 .. c
  <2> SUFFICES ASSUME NEW d \in S PROVE Cardinality(below(d)) \in 1 .. c
    OBVIOUS
  <2>1. below(d) \in SUBSET S /\ d \in below(d)
    BY <1>2
  <2>2. IsFiniteSet(below(d)) /\ Cardinality(below(d)) <= c
    BY <1>1, <2>1, FS_Subset
  <2>3. Cardinality(below(d)) \in Nat /\ Cardinality(below(d)) # 0
    BY <2>1, <2>2, FS_CardinalityType, FS_EmptySet
  <2> QED
    BY <1>1, <2>2, <2>3
<1>4. \A d, e \in S : d < e => rank[d] < rank[e]
  <2> SUFFICES ASSUME NEW d \in S, NEW e \in S, d < e
               PROVE  Cardinality(below(d)) < Cardinality(below(e))
    OBVIOUS
  <2>0. /\ d \in Int /\ e \in Int
        /\ \A x \in S : x \in Int
    BY <1>2
  <2>1. below(d) \in SUBSET below(e) /\ e \in below(e) /\ e \notin below(d)
    <3>1. \A x \in S : x <= d => x <= e
      BY <2>0
    <3>2. e <= e /\ ~(e <= d)
      BY <2>0
    <3> QED
      BY <3>1, <3>2
  <2>2. below(e) \in SUBSET S /\ below(d) \in SUBSET S
    OBVIOUS
  <2>3. IsFiniteSet(below(e)) /\ IsFiniteSet(below(d))
    BY <1>1, <2>2, FS_Subset
  <2>4. Cardinality(below(d)) <= Cardinality(below(e))
    BY <2>1, <2>3, FS_Subset
  <2>5. Cardinality(below(d)) # Cardinality(below(e))
    BY <2>1, <2>3, FS_Subset
  <2>6. Cardinality(below(d)) \in Nat /\ Cardinality(below(e)) \in Nat
    BY <2>3, FS_CardinalityType
  <2> QED
    BY <2>4, <2>5, <2>6
<1>5. rank \in Injection(S, 1 .. c)
  <2>1. rank \in [S -> 1 .. c]
    BY <1>3
  <2>2. \A d, e \in S : rank[d] = rank[e] => d = e
    <3> HIDE DEF rank
    <3> SUFFICES ASSUME NEW d \in S, NEW e \in S, d # e PROVE rank[d] # rank[e]
      OBVIOUS
    <3>1. d < e \/ e < d
      BY <1>2
    <3>2. rank[d] \in Int /\ rank[e] \in Int
      BY <1>3
    <3> QED
      BY <1>4, <3>1, <3>2
  <2> QED
    BY <2>1, <2>2 DEF Injection, IsInjective
<1>6. IsFiniteSet(1 .. c) /\ Cardinality(1 .. c) = c
  BY <1>1, FS_Interval, 1 \in Int, c \in Int
<1>7. rank \in Surjection(S, 1 .. c)
  BY <1>5, <1>6, FS_Injection
<1> DEFINE q == [i \in 1 .. c |-> CHOOSE d \in S : rank[d] = i]
<1>8. \A i \in 1 .. c : q[i] \in S /\ rank[q[i]] = i
  BY <1>7 DEF Surjection
<1>9. \A i, j \in 1 .. c : i < j => q[i] < q[j]
  <2> HIDE DEF rank, q, c
  <2> SUFFICES ASSUME NEW i \in 1 .. c, NEW j \in 1 .. c, i < j
               PROVE  q[i] < q[j]
    OBVIOUS
  <2>1. q[i] \in S /\ q[j] \in S /\ rank[q[i]] = i /\ rank[q[j]] = j
    BY <1>8
  <2>2. q[i] \in Int /\ q[j] \in Int
    BY <2>1, <1>2
  <2>3. ~ (q[j] < q[i]) /\ q[i] # q[j]
    BY <2>1, <1>4, <1>1
  <2> QED
    BY <2>2, <2>3
<1>10. q \in [1 .. c -> S]
  BY <1>8
<1> QED
  BY <1>9, <1>10

\* Ascending(S) lists S, each element once.
LEMMA AscendingProperties ==
  ASSUME NEW S \in SUBSET Step
  PROVE  /\ Ascending(S) \in Seq(S)
         /\ Len(Ascending(S)) = Cardinality(S)
         /\ \A i, j \in DOMAIN Ascending(S) :
              Ascending(S)[i] = Ascending(S)[j] => i = j
         /\ Queued(Ascending(S)) = S
<1> DEFINE c == Cardinality(S)
           a == Ascending(S)
<1>1. c \in Nat /\ IsFiniteSet(S)
  BY StepFinite
<1>2. /\ a \in [1 .. c -> S]
      /\ \A i, j \in 1 .. c : i < j => a[i] < a[j]
  BY AscendingExists DEF Ascending
<1>3. a \in Seq(S) /\ Len(a) = c /\ DOMAIN a = 1 .. c
  BY <1>1, <1>2
<1>4. S \subseteq Int
  BY NAssumption DEF Step
<1>5. \A i, j \in 1 .. c : a[i] = a[j] => i = j
  <2> SUFFICES ASSUME NEW i \in 1 .. c, NEW j \in 1 .. c, i # j PROVE a[i] # a[j]
    OBVIOUS
  <2>1. a[i] \in Int /\ a[j] \in Int
    BY <1>2, <1>4
  <2>2. i < j \/ j < i
    BY <1>1
  <2> QED
    BY <1>2, <2>1, <2>2
<1>6. a \in Injection(1 .. c, S)
  BY <1>2, <1>5 DEF Injection, IsInjective
<1>7. IsFiniteSet(1 .. c) /\ Cardinality(1 .. c) = c
  BY <1>1, FS_Interval, 1 \in Int, c \in Int
<1>8. a \in Surjection(1 .. c, S)
  BY <1>1, <1>6, <1>7, FS_Injection
<1>9. Queued(a) = S
  BY <1>2, <1>3, <1>8 DEF Surjection, Queued
<1> QED
  BY <1>3, <1>5, <1>9

\* Appending to the queue adds what is appended.
LEMMA QueuedConcat ==
  ASSUME NEW p \in Seq(Step), NEW q \in Seq(Step)
  PROVE  /\ p \o q \in Seq(Step)
         /\ Queued(p \o q) = Queued(p) \cup Queued(q)
         /\ DOMAIN (p \o q) = 1 .. Len(p) + Len(q)
<1>1. /\ p \o q \in Seq(Step) /\ Len(p \o q) = Len(p) + Len(q)
      /\ DOMAIN (p \o q) = 1 .. Len(p) + Len(q)
      /\ DOMAIN p = 1 .. Len(p) /\ DOMAIN q = 1 .. Len(q)
      /\ Len(p) \in Nat /\ Len(q) \in Nat
  OBVIOUS
<1>2. \A i \in 1 .. Len(p) : (p \o q)[i] = p[i]
  OBVIOUS
<1>3. \A i \in 1 .. Len(q) : (p \o q)[Len(p) + i] = q[i]
  OBVIOUS
<1>4. \A i \in 1 .. Len(p) + Len(q) :
         i \in 1 .. Len(p) \/ (i - Len(p) \in 1 .. Len(q) /\ i = Len(p) + (i - Len(p)))
  BY <1>1
<1>5. Queued(p \o q) \subseteq Queued(p) \cup Queued(q)
  BY <1>1, <1>2, <1>3, <1>4 DEF Queued
<1>6. Queued(p) \subseteq Queued(p \o q)
  BY <1>1, <1>2 DEF Queued
<1>7. Queued(q) \subseteq Queued(p \o q)
  <2> SUFFICES ASSUME NEW i \in 1 .. Len(q) PROVE q[i] \in Queued(p \o q)
    BY <1>1 DEF Queued
  <2>1. Len(p) + i \in DOMAIN (p \o q)
    BY <1>1
  <2> QED
    BY <1>3, <2>1 DEF Queued
<1> QED
  BY <1>1, <1>5, <1>6, <1>7

\* Two queues without repetitions and without a common element make one.
LEMMA ConcatInjective ==
  ASSUME NEW p \in Seq(Step), NEW q \in Seq(Step),
         \A i, j \in DOMAIN p : p[i] = p[j] => i = j,
         \A i, j \in DOMAIN q : q[i] = q[j] => i = j,
         Queued(p) \cap Queued(q) = {}
  PROVE  \A i, j \in DOMAIN (p \o q) : (p \o q)[i] = (p \o q)[j] => i = j
<1> DEFINE r == p \o q
<1>1. /\ DOMAIN r = 1 .. Len(p) + Len(q)
      /\ DOMAIN p = 1 .. Len(p) /\ DOMAIN q = 1 .. Len(q)
      /\ Len(p) \in Nat /\ Len(q) \in Nat
      /\ \A i \in 1 .. Len(p) : r[i] = p[i]
      /\ \A i \in 1 .. Len(q) : r[Len(p) + i] = q[i]
  OBVIOUS
<1> HIDE DEF r
<1> SUFFICES ASSUME NEW i \in DOMAIN r, NEW j \in DOMAIN r, r[i] = r[j] PROVE i = j
  BY DEF r
<1>2. \A k \in DOMAIN r :
         \/ k \in DOMAIN p /\ r[k] = p[k] /\ p[k] \in Queued(p)
         \/ \E l \in DOMAIN q : k = Len(p) + l /\ r[k] = q[l] /\ q[l] \in Queued(q)
  <2> SUFFICES ASSUME NEW k \in DOMAIN r, k \notin DOMAIN p
               PROVE  \E l \in DOMAIN q :
                        k = Len(p) + l /\ r[k] = q[l] /\ q[l] \in Queued(q)
    BY <1>1 DEF Queued
  <2>1. k - Len(p) \in DOMAIN q /\ k = Len(p) + (k - Len(p))
    BY <1>1
  <2>2. r[k] = q[k - Len(p)]
    BY <1>1, <2>1
  <2>3. q[k - Len(p)] \in Queued(q)
    BY <2>1 DEF Queued
  <2> QED
    BY <2>1, <2>2, <2>3
<1>3. CASE i \in DOMAIN p /\ j \in DOMAIN p
  BY <1>1, <1>3
<1>4. CASE i \in DOMAIN p /\ j \notin DOMAIN p
  BY <1>2, <1>4
<1>5. CASE i \notin DOMAIN p /\ j \in DOMAIN p
  BY <1>2, <1>5
<1>6. CASE i \notin DOMAIN p /\ j \notin DOMAIN p
  BY <1>1, <1>2, <1>6
<1> QED
  BY <1>3, <1>4, <1>5, <1>6

\* run_dag seeds the queue and the in-degrees right: nothing is unlocked yet.
LEMMA BookInit ==
  ASSUME NEW f \in FlowDef, validate(f)
  PROVE  /\ InitReady(f) \in Seq(Step)
         /\ InitDegree(f) \in [Step -> Nat]
         /\ BookInv(f, InitDegree(f), InitReady(f), {})
<1> DEFINE free == {s \in Step : f.deps[s] = {}}
           r    == InitReady(f)
           deg  == InitDegree(f)
<1>1. \A s \in Step :
        /\ f.deps[s] \in SUBSET Step
        /\ Cardinality(f.deps[s]) \in Nat
        /\ f.deps[s] # {} => Cardinality(f.deps[s]) > 0
        /\ f.deps[s] \ {} = f.deps[s]
        /\ f.deps[s] \cap {} = {}
        /\ f.trigger[s] \in Trigger
        /\ f.trigger[s] = "Any" => f.deps[s] # {}
  <2> SUFFICES ASSUME NEW s \in Step
               PROVE  /\ f.deps[s] \in SUBSET Step
                      /\ Cardinality(f.deps[s]) \in Nat
                      /\ f.deps[s] # {} => Cardinality(f.deps[s]) > 0
                      /\ f.trigger[s] \in Trigger
                      /\ f.trigger[s] = "Any" => f.deps[s] # {}
    OBVIOUS
  <2>1. f.deps[s] \in SUBSET Step /\ f.trigger[s] \in Trigger
    BY DEF FlowDef
  <2>2. IsFiniteSet(f.deps[s]) /\ Cardinality(f.deps[s]) \in Nat
    BY <2>1, StepFinite
  <2>3. f.deps[s] # {} => Cardinality(f.deps[s]) # 0
    BY <2>2, FS_EmptySet
  <2> QED
    BY <2>1, <2>2, <2>3 DEF validate
<1>2. /\ r \in Seq(free) /\ Queued(r) = free
      /\ \A i, j \in DOMAIN r : r[i] = r[j] => i = j
  <2>1. free \in SUBSET Step /\ r = Ascending(free)
    BY DEF InitReady
  <2> HIDE DEF free, r
  <2> QED
    BY <2>1, AscendingProperties
<1>3. r \in Seq(Step)
  BY <1>2
<1>4. deg \in [Step -> Nat]
  <2> SUFFICES ASSUME NEW s \in Step PROVE deg[s] \in Nat
    BY DEF InitDegree
  <2>1. deg[s] = 1 \/ deg[s] = Cardinality(f.deps[s])
    BY DEF InitDegree
  <2>2. Cardinality(f.deps[s]) \in Nat
    BY <1>1
  <2> HIDE DEF deg
  <2> QED
    BY <2>1, <2>2
<1>5. \A s \in Step : f.deps[s] # {} =>
         /\ deg[s] > 0
         /\ f.trigger[s] = "All" => deg[s] = Cardinality(f.deps[s])
         /\ f.trigger[s] = "Any" => deg[s] = 1
  BY <1>1 DEF InitDegree, Trigger
<1> HIDE DEF r, deg
<1>6. BookInv(f, deg, r, {})
  BY <1>1, <1>2, <1>5 DEF BookInv
<1> QED
  BY <1>3, <1>4, <1>6 DEF r, deg

\* Unlocking from a step d that was not unlocked from before keeps the
\* bookkeeping right and only appends to the queue.
LEMMA BookUnlock ==
  ASSUME NEW f \in FlowDef, validate(f),
         NEW deg \in [Step -> Nat], NEW ready \in Seq(Step),
         NEW Z \in SUBSET Step, NEW d \in Step, d \notin Z,
         BookInv(f, deg, ready, Z)
  PROVE  /\ UnlockDegree(f, deg, d) \in [Step -> Nat]
         /\ UnlockReady(f, deg, ready, d) \in Seq(Step)
         /\ Len(ready) <= Len(UnlockReady(f, deg, ready, d))
         /\ \A i \in 1 .. Len(ready) : UnlockReady(f, deg, ready, d)[i] = ready[i]
         /\ BookInv(f, UnlockDegree(f, deg, d), UnlockReady(f, deg, ready, d), Z \cup {d})
<1> DEFINE U  == Unlocked(f, deg, d)
           q  == Ascending(U)
           UD == UnlockDegree(f, deg, d)
           UR == UnlockReady(f, deg, ready, d)
           Y  == Z \cup {d}
           open(s)  == Cardinality(f.deps[s] \ Z)
           openY(s) == Cardinality(f.deps[s] \ Y)
<1>1. \A s \in Step : /\ f.deps[s] \in SUBSET Step /\ f.trigger[s] \in {"All", "Any"}
                      /\ deg[s] \in Nat
  BY DEF FlowDef, Trigger
<1>2. ASSUME NEW s \in Step
      PROVE  /\ open(s) \in Nat /\ openY(s) \in Nat
             /\ d \in f.deps[s] => open(s) = openY(s) + 1
             /\ d \notin f.deps[s] => open(s) = openY(s)
  <2>1. f.deps[s] \ Z \in SUBSET Step /\ f.deps[s] \ Y \in SUBSET Step
    BY <1>1
  <2>2. IsFiniteSet(f.deps[s] \ Z) /\ open(s) \in Nat /\ openY(s) \in Nat
    BY <2>1, StepFinite
  <2>3. f.deps[s] \ Y = (f.deps[s] \ Z) \ {d}
    OBVIOUS
  <2>4. Cardinality((f.deps[s] \ Z) \ {d}) =
          IF d \in f.deps[s] \ Z THEN Cardinality(f.deps[s] \ Z) - 1
                                 ELSE Cardinality(f.deps[s] \ Z)
    BY <2>2, FS_RemoveElement
  <2>5. d \in f.deps[s] \ Z <=> d \in f.deps[s]
    OBVIOUS
  <2>6. openY(s) = IF d \in f.deps[s] THEN open(s) - 1 ELSE open(s)
    BY <2>3, <2>4, <2>5
  <2> HIDE DEF open, openY
  <2> QED
    BY <2>2, <2>6
<1>3. U \in SUBSET Step
  BY DEF Unlocked, Dependents
<1>4. \A s \in Step : s \in U <=> d \in f.deps[s] /\ Lowered(deg[s]) = 0
  BY DEF Unlocked, Dependents
<1>5. \A s \in Step :
        /\ d \notin f.deps[s] => UD[s] = deg[s]
        /\ d \in f.deps[s] /\ s \in U => UD[s] = USIZE_MAX
        /\ d \in f.deps[s] /\ s \notin U => UD[s] = Lowered(deg[s])
  BY <1>4 DEF UnlockDegree, Dependents
<1>6. \A n \in Nat : Lowered(n) \in Nat /\ (n > 0 => Lowered(n) = n - 1)
  BY DEF Lowered
<1>7. UD \in [Step -> Nat]
  <2>1. \A s \in Step : UD[s] \in Nat
    BY <1>1, <1>4, <1>5, <1>6, MaxAssumption
  <2> QED
    BY <2>1 DEF UnlockDegree
<1>8. /\ q \in Seq(U) /\ Queued(q) = U
      /\ \A i, j \in DOMAIN q : q[i] = q[j] => i = j
  <2> HIDE DEF U
  <2> QED
    BY <1>3, AscendingProperties
<1>9. q \in Seq(Step)
  BY <1>3, <1>8
<1>10. UR = ready \o q
  BY DEF UnlockReady
<1>11. UR \in Seq(Step) /\ Queued(UR) = Queued(ready) \cup U
  <2> HIDE DEF q, U, UR
  <2> QED
    BY <1>8, <1>9, <1>10, QueuedConcat
<1>12. Len(ready) <= Len(UR) /\ \A i \in 1 .. Len(ready) : UR[i] = ready[i]
  <2> HIDE DEF q, UR
  <2> QED
    BY <1>9, <1>10
<1> HIDE DEF U, q, UD, UR, open, openY
<1>13. \A s \in Queued(ready) : s \notin U
  <2> SUFFICES ASSUME NEW s \in Queued(ready), d \in f.deps[s]
               PROVE  Lowered(deg[s]) # 0
    BY <1>3, <1>4
  <2>1. s \in Step
    BY DEF Queued
  <2>2. deg[s] > open(s)
    BY DEF BookInv, open
  <2>3. deg[s] > 1
    BY <1>1, <1>2, <2>1, <2>2
  <2> QED
    BY <1>1, <1>6, <2>1, <2>3
<1>14. \A i, j \in DOMAIN UR : UR[i] = UR[j] => i = j
  <2>1. Queued(ready) \cap Queued(q) = {}
    BY <1>8, <1>13
  <2>2. \A i, j \in DOMAIN ready : ready[i] = ready[j] => i = j
    BY DEF BookInv
  <2> QED
    BY <1>8, <1>9, <1>10, <2>1, <2>2, ConcatInjective
<1>15. ASSUME NEW s \in Queued(UR)
       PROVE  /\ f.deps[s] # {} => UD[s] > openY(s)
              /\ f.trigger[s] = "All" => f.deps[s] \subseteq Y
              /\ f.trigger[s] = "Any" => f.deps[s] \cap Y # {}
  <2>1. s \in Step
    BY <1>11 DEF Queued
  <2>2. CASE s \in Queued(ready)
    <3>1. /\ f.deps[s] # {} => deg[s] > open(s)
          /\ f.trigger[s] = "All" => f.deps[s] \subseteq Z
          /\ f.trigger[s] = "Any" => f.deps[s] \cap Z # {}
      BY <2>2 DEF BookInv, open
    <3>2. f.deps[s] # {} => UD[s] > openY(s)
      <4>1. CASE d \in f.deps[s]
        <5>1. UD[s] = Lowered(deg[s]) /\ open(s) = openY(s) + 1 /\ deg[s] > open(s)
          BY <4>1, <1>2, <1>5, <1>13, <2>1, <2>2, <3>1
        <5>2. deg[s] \in Nat /\ open(s) \in Nat /\ openY(s) \in Nat
          BY <1>1, <1>2, <2>1
        <5>3. deg[s] > 0
          BY <5>1, <5>2
        <5>4. UD[s] = deg[s] - 1
          BY <5>1, <5>2, <5>3, <1>6
        <5> QED
          BY <5>1, <5>2, <5>4
      <4>2. CASE d \notin f.deps[s]
        BY <4>2, <1>2, <1>5, <2>1, <3>1
      <4> QED
        BY <4>1, <4>2
    <3> QED
      BY <3>1, <3>2
  <2>3. CASE s \in U
    <3>1. s \notin Queued(ready) /\ d \in f.deps[s] /\ Lowered(deg[s]) = 0
      BY <1>4, <1>13, <2>1, <2>3
    <3>2. /\ deg[s] > 0
          /\ f.trigger[s] = "All" => deg[s] = open(s)
      BY <2>1, <3>1 DEF BookInv, open
    <3>3. deg[s] = 1
      BY <1>1, <1>6, <2>1, <3>1, <3>2
    <3>4. openY(s) <= N
      <4>1. f.deps[s] \ Y \in SUBSET Step
        BY <1>1, <2>1
      <4> QED
        BY <4>1, StepFinite DEF openY
    <3>5. UD[s] > openY(s)
      BY <1>2, <1>5, <2>1, <2>3, <3>1, <3>4, MaxAssumption, NAssumption
    <3>6. f.trigger[s] = "All" => f.deps[s] \subseteq Y
      <4> SUFFICES ASSUME f.trigger[s] = "All" PROVE f.deps[s] \ Y = {}
        OBVIOUS
      <4>1. openY(s) = 0
        BY <1>2, <2>1, <3>1, <3>2, <3>3
      <4>2. f.deps[s] \ Y \in SUBSET Step
        BY <1>1, <2>1
      <4>3. IsFiniteSet(f.deps[s] \ Y)
        BY <4>2, StepFinite
      <4> QED
        BY <4>1, <4>3, FS_EmptySet DEF openY
    <3>7. f.deps[s] \cap Y # {}
      BY <3>1
    <3> QED
      BY <3>5, <3>6, <3>7
  <2> QED
    BY <1>11, <2>2, <2>3
<1>16. ASSUME NEW s \in Step \ Queued(UR)
       PROVE  /\ f.deps[s] # {}
              /\ UD[s] > 0
              /\ f.trigger[s] = "All" => UD[s] = openY(s)
              /\ f.trigger[s] = "Any" => UD[s] = 1 /\ f.deps[s] \cap Y = {}
  <2>1. s \in Step /\ s \notin Queued(ready) /\ s \notin U
    BY <1>11
  <2>2. /\ f.deps[s] # {} /\ deg[s] > 0
        /\ f.trigger[s] = "All" => deg[s] = open(s)
        /\ f.trigger[s] = "Any" => deg[s] = 1 /\ f.deps[s] \cap Z = {}
    BY <2>1 DEF BookInv, open
  <2>3. CASE d \in f.deps[s]
    <3>1. UD[s] = deg[s] - 1 /\ deg[s] # 1
      <4>1. deg[s] \in Nat /\ Lowered(deg[s]) = deg[s] - 1
        BY <1>1, <1>6, <2>1, <2>2
      <4>2. Lowered(deg[s]) # 0
        BY <1>4, <2>1, <2>3
      <4>3. UD[s] = Lowered(deg[s])
        BY <1>5, <2>1, <2>3, <4>2
      <4> QED
        BY <4>1, <4>2, <4>3
    <3>2. UD[s] > 0
      BY <1>1, <2>1, <2>2, <3>1
    <3>3. f.trigger[s] = "All" => UD[s] = openY(s)
      BY <1>2, <2>1, <2>2, <2>3, <3>1
    <3> QED
      BY <2>2, <3>1, <3>2, <3>3
  <2>4. CASE d \notin f.deps[s]
    <3>1. UD[s] = deg[s] /\ open(s) = openY(s) /\ f.deps[s] \cap Y = f.deps[s] \cap Z
      BY <1>2, <1>5, <2>1, <2>4
    <3> QED
      BY <2>2, <3>1
  <2> QED
    BY <2>3, <2>4
<1>17. BookInv(f, UD, UR, Y)
  BY <1>14, <1>15, <1>16 DEF BookInv, openY
<1> QED
  BY <1>7, <1>11, <1>12, <1>17 DEF UD, UR

\* The same fact with its hypotheses and its conclusion folded into two
\* definitions, which is how the executors' proofs use it.
Book(f, deg, ready, Z) ==
    /\ f \in FlowDef /\ validate(f)
    /\ deg \in [Step -> Nat] /\ ready \in Seq(Step) /\ Z \in SUBSET Step
    /\ BookInv(f, deg, ready, Z)

Extended(p, q) == Len(p) <= Len(q) /\ \A i \in 1 .. Len(p) : q[i] = p[i]

LEMMA BookStep ==
  ASSUME NEW f, NEW deg, NEW ready, NEW Z, NEW d \in Step, d \notin Z,
         Book(f, deg, ready, Z)
  PROVE  /\ Book(f, UnlockDegree(f, deg, d), UnlockReady(f, deg, ready, d), Z \cup {d})
         /\ Extended(ready, UnlockReady(f, deg, ready, d))
<1>1. /\ f \in FlowDef /\ validate(f)
      /\ deg \in [Step -> Nat] /\ ready \in Seq(Step) /\ Z \in SUBSET Step
      /\ BookInv(f, deg, ready, Z)
  BY DEF Book
<1>2. /\ UnlockDegree(f, deg, d) \in [Step -> Nat]
      /\ UnlockReady(f, deg, ready, d) \in Seq(Step)
      /\ Len(ready) <= Len(UnlockReady(f, deg, ready, d))
      /\ \A i \in 1 .. Len(ready) : UnlockReady(f, deg, ready, d)[i] = ready[i]
      /\ BookInv(f, UnlockDegree(f, deg, d), UnlockReady(f, deg, ready, d), Z \cup {d})
  BY <1>1, BookUnlock
<1>3. Z \cup {d} \in SUBSET Step
  BY <1>1
<1> QED
  BY <1>1, <1>2, <1>3 DEF Book, Extended

\* A set of ordinals that is not empty has a least element.
LEMMA LeastStep ==
  ASSUME NEW S \in SUBSET Step, S # {}
  PROVE  \E k \in S : \A m \in S : k <= m
<1> DEFINE c == Cardinality(S)
<1>1. c \in Nat /\ c # 0
  BY StepFinite, FS_EmptySet
<1>2. PICK a \in [1 .. c -> S] : \A i, j \in 1 .. c : i < j => a[i] < a[j]
  BY AscendingExists
<1>3. Ascending(S) \in [1 .. c -> S] /\ \A i, j \in 1 .. c : i < j => Ascending(S)[i] < Ascending(S)[j]
  BY <1>2 DEF Ascending
<1>4. \A m \in S : \E i \in 1 .. c : Ascending(S)[i] = m
  <2>1. Queued(Ascending(S)) = S /\ DOMAIN Ascending(S) = 1 .. c
    BY <1>3, AscendingProperties
  <2> QED
    BY <2>1 DEF Queued
<1>5. S \subseteq Int
  BY NAssumption DEF Step
<1>6. 1 \in 1 .. c /\ \A i \in 1 .. c : i = 1 \/ 1 < i
  BY <1>1
<1> HIDE DEF c
<1>7. Ascending(S)[1] \in S
  BY <1>3, <1>6
<1>8. ASSUME NEW m \in S PROVE Ascending(S)[1] <= m
  <2>1. PICK i \in 1 .. c : Ascending(S)[i] = m
    BY <1>4
  <2>2. Ascending(S)[1] = m \/ Ascending(S)[1] < m
    BY <1>3, <1>6, <2>1
  <2>3. Ascending(S)[1] \in Int /\ m \in Int
    BY <1>5, <1>7
  <2> QED
    BY <2>2, <2>3
<1> QED
  BY <1>7, <1>8

(***************************************************************************)
(* No step of a valid flow stays locked: once everything that was queued   *)
(* was unlocked from, everything was queued.  A locked step has a locked   *)
(* dependency, and dependencies have a smaller rank.                       *)
(***************************************************************************)
LEMMA NoneLocked ==
  ASSUME NEW f \in FlowDef, validate(f), NEW deg, NEW ready, NEW Z \in SUBSET Step,
         BookInv(f, deg, ready, Z), Queued(ready) \subseteq Z
  PROVE  Step \subseteq Queued(ready)
<1> DEFINE U == Step \ Queued(ready)
<1>1. PICK rank \in [Step -> Step] : \A s \in Step : \A d \in f.deps[s] : rank[d] < rank[s]
  BY DEF validate, Acyclic
<1>2. \A s \in Step : f.deps[s] \in SUBSET Step /\ f.trigger[s] \in {"All", "Any"}
  BY DEF FlowDef, Trigger
<1>3. \A s \in U : \E d \in U : d \in f.deps[s]
  <2> SUFFICES ASSUME NEW s \in U PROVE \E d \in f.deps[s] : d \notin Z
    BY <1>2
  <2>1. CASE f.trigger[s] = "All"
    <3>1. Cardinality(f.deps[s] \ Z) > 0
      BY <2>1 DEF BookInv
    <3>2. f.deps[s] \ Z # {}
      BY <3>1, FS_EmptySet
    <3> QED
      BY <3>2
  <2>2. CASE f.trigger[s] = "Any"
    BY <2>2 DEF BookInv
  <2> QED
    BY <1>2, <2>1, <2>2
<1>4. ASSUME U # {} PROVE FALSE
  <2> DEFINE R == {rank[s] : s \in U}
  <2>1. R \in SUBSET Step /\ R # {}
    BY <1>4
  <2>2. PICK k \in R : \A m \in R : k <= m
    BY <2>1, LeastStep
  <2>3. PICK s \in U : k = rank[s]
    BY <2>2
  <2>4. PICK d \in U : d \in f.deps[s]
    BY <1>3
  <2>5. rank[d] \in R /\ rank[d] < rank[s] /\ rank[d] \in Int /\ rank[s] \in Int
    BY <1>1, <2>4, NAssumption DEF Step
  <2> QED
    BY <2>2, <2>3, <2>5
<1> QED
  BY <1>4

-----------------------------------------------------------------------------
(***************************************************************************)
(* What FlowContract sees of the results of an executor.                   *)
(***************************************************************************)

\* The results so far stay as they are and others may follow.
Longer(rs, rt) == DOMAIN rs \subseteq DOMAIN rt /\ \A i \in DOMAIN rs : rt[i] = rs[i]

\* The outcome of a step is the status of its one result.
OutcomeIn(rs) ==
    [s \in Step |->
        IF \E i \in DOMAIN rs : rs[i].step = s
        THEN rs[CHOOSE i \in DOMAIN rs : rs[i].step = s].status
        ELSE "none"]

LEMMA OutcomeOf ==
  ASSUME NEW rs \in Seq(StepResult),
         \A i, j \in DOMAIN rs : rs[i].step = rs[j].step => i = j
  PROVE  /\ \A i \in DOMAIN rs : rs[i].step \in Step /\ OutcomeIn(rs)[rs[i].step] = rs[i].status
         /\ \A s \in Step : (\A i \in DOMAIN rs : rs[i].step # s) => OutcomeIn(rs)[s] = "none"
         /\ OutcomeIn(rs) \in [Step -> Status \cup {"none"}]
<1>0. \A i \in DOMAIN rs : rs[i].step \in Step /\ rs[i].status \in Status
  <2>1. \A i \in DOMAIN rs : rs[i] \in StepResult
    OBVIOUS
  <2> QED
    BY <2>1 DEF StepResult
<1>1. ASSUME NEW i \in DOMAIN rs
      PROVE  OutcomeIn(rs)[rs[i].step] = rs[i].status
  <2> DEFINE s == rs[i].step
             k == CHOOSE j \in DOMAIN rs : rs[j].step = s
  <2>1. k \in DOMAIN rs /\ rs[k].step = s
    BY <1>1
  <2>2. k = i
    BY <1>1, <2>1
  <2>3. OutcomeIn(rs)[s] = rs[k].status
    BY <1>0, <1>1 DEF OutcomeIn
  <2> QED
    BY <2>2, <2>3
<1>2. ASSUME NEW s \in Step, \A i \in DOMAIN rs : rs[i].step # s
      PROVE  OutcomeIn(rs)[s] = "none"
  BY <1>2 DEF OutcomeIn
<1>3. OutcomeIn(rs) \in [Step -> Status \cup {"none"}]
  <2>1. \A s \in Step : OutcomeIn(rs)[s] \in Status \cup {"none"}
    <3> SUFFICES ASSUME NEW s \in Step PROVE OutcomeIn(rs)[s] \in Status \cup {"none"}
      OBVIOUS
    <3>1. CASE \E i \in DOMAIN rs : rs[i].step = s
      BY <1>0, <1>1, <3>1
    <3>2. CASE \A i \in DOMAIN rs : rs[i].step # s
      BY <1>2, <3>2
    <3> QED
      BY <3>1, <3>2
  <2>2. OutcomeIn(rs) = [s \in Step |-> OutcomeIn(rs)[s]]
    BY DEF OutcomeIn
  <2> QED
    BY <2>1, <2>2
<1> QED
  BY <1>0, <1>1, <1>2, <1>3


\* As many results as steps, none for the same step, is a result for every step.
LEMMA ResultsCounted ==
  ASSUME NEW rs \in Seq(StepResult),
         \A i, j \in DOMAIN rs : rs[i].step = rs[j].step => i = j
  PROVE  /\ Len(rs) <= N
         /\ Len(rs) = N <=> Reported(rs) = Step
<1> DEFINE m == Len(rs)
           f == [i \in 1 .. m |-> rs[i].step]
<1>1. m \in Nat /\ DOMAIN rs = 1 .. m /\ N \in Nat
  BY NAssumption
<1>2. \A i \in 1 .. m : rs[i].step \in Step
  <2>1. \A i \in DOMAIN rs : rs[i] \in StepResult
    OBVIOUS
  <2> QED
    BY <1>1, <2>1 DEF StepResult
<1>3. f \in [1 .. m -> Step]
  BY <1>2
<1>4. IsInjective(f)
  BY <1>1 DEF IsInjective
<1>5. f \in Injection(1 .. m, Step)
  BY <1>3, <1>4 DEF Injection
<1>6. IsFiniteSet(Step) /\ Cardinality(Step) = N
  <2>1. IsFiniteSet(1 .. N) /\ Cardinality(1 .. N) = IF 1 > N THEN 0 ELSE N - 1 + 1
    BY <1>1, FS_Interval
  <2> QED
    BY <1>1, <2>1 DEF Step
<1>7. Cardinality(1 .. m) = m
  <2>1. Cardinality(1 .. m) = IF 1 > m THEN 0 ELSE m - 1 + 1
    BY <1>1, FS_Interval
  <2> QED
    BY <1>1, <2>1
<1>8. Reported(rs) = Step <=> f \in Surjection(1 .. m, Step)
  <2>1. Reported(rs) = {f[i] : i \in 1 .. m}
    BY <1>1 DEF Reported
  <2> HIDE DEF f
  <2>2. {f[i] : i \in 1 .. m} \subseteq Step
    BY <1>3
  <2> QED
    BY <1>3, <2>1, <2>2 DEF Surjection
<1> HIDE DEF f
<1>9. /\ Cardinality(1 .. m) <= Cardinality(Step)
      /\ Cardinality(1 .. m) = Cardinality(Step) <=> f \in Surjection(1 .. m, Step)
  BY <1>5, <1>6, FS_Injection
<1> QED
  BY <1>1, <1>6, <1>7, <1>8, <1>9

=============================================================================
