------------------------------- MODULE DagBook -------------------------------
(***************************************************************************)
(* The in-degree bookkeeping that run_dag and run_distributed_dag share:   *)
(* how many dependencies still hold a step back, and which steps a         *)
(* finished step puts on the ready queue.                                  *)
(***************************************************************************)
EXTENDS FlowDefs

CONSTANT USIZE_MAX   \* the in-degree of a step that was already queued

ASSUME MaxAssumption == USIZE_MAX \in Nat /\ USIZE_MAX > N

\* The elements of a set of ordinals in the order the loops visit them.
Ascending(S) ==
    CHOOSE q \in [1 .. Cardinality(S) -> S] :
        \A i, j \in 1 .. Cardinality(S) : i < j => q[i] < q[j]

Dependents(f, d) == {s \in Step : d \in f.deps[s]}

\* Mutant: the trigger is ignored and every step waits for one dependency.
InitDegreeOne(f) == [s \in Step |-> IF f.deps[s] # {} THEN 1 ELSE 0]

InitDegree(f) ==
    [s \in Step |-> IF f.trigger[s] = "Any" /\ f.deps[s] # {}
                    THEN 1
                    ELSE Cardinality(f.deps[s])]

\* Mutant: the seeding loop starts one step too late.
InitReadyFromTwo(f) == Ascending({s \in Step \ {1} : f.deps[s] = {}})

InitReady(f) == Ascending({s \in Step : f.deps[s] = {}})

Lowered(deg) == IF deg > 0 THEN deg - 1 ELSE deg

\* unlock_dependents, in three parts: the dependents of d that reach 0, ...
Unlocked(f, deg, d) == {s \in Dependents(f, d) : Lowered(deg[s]) = 0}

\* Mutant: a queued step keeps its in-degree of 0 instead of the sentinel.
UnlockDegreeNoSentinel(f, deg, d) ==
    [s \in Step |-> IF s \in Dependents(f, d) THEN Lowered(deg[s]) ELSE deg[s]]

\* ... the in-degrees afterwards, ...
UnlockDegree(f, deg, d) ==
    [s \in Step |-> IF s \notin Dependents(f, d) THEN deg[s]
                    ELSE IF Lowered(deg[s]) = 0 THEN USIZE_MAX
                    ELSE Lowered(deg[s])]

\* ... and the ready queue, which never shrinks: a cursor walks it.
UnlockReady(f, deg, ready, d) == ready \o Ascending(Unlocked(f, deg, d))

\* Mutant: only a step whose dependencies all failed is held back.
AllDepsFailed(f, failed, s) == f.deps[s] # {} /\ \A d \in f.deps[s] : failed[d]

\* A dependency of s is in the failed set.
DepFailed(f, failed, s) == \E d \in f.deps[s] : failed[d]

Queued(ready) == {ready[i] : i \in DOMAIN ready}

(***************************************************************************)
(* What the bookkeeping keeps true when Z is the set of steps that were    *)
(* unlocked from.  A step enters the queue once, exactly when its trigger  *)
(* says so; until then its in-degree counts what it waits for, and after   *)
(* that its in-degree stays too high to reach 0 again.                     *)
(***************************************************************************)
BookInv(f, deg, ready, Z) ==
    /\ \A i, j \in DOMAIN ready : ready[i] = ready[j] => i = j
    /\ \A s \in Queued(ready) :
          /\ f.deps[s] # {} => deg[s] > Cardinality(f.deps[s] \ Z)
          /\ f.trigger[s] = "All" => f.deps[s] \subseteq Z
          /\ f.trigger[s] = "Any" => f.deps[s] \cap Z # {}
    /\ \A s \in Step \ Queued(ready) :
          /\ f.deps[s] # {}
          /\ deg[s] > 0
          /\ f.trigger[s] = "All" => deg[s] = Cardinality(f.deps[s] \ Z)
          /\ f.trigger[s] = "Any" => deg[s] = 1 /\ f.deps[s] \cap Z = {}
=============================================================================
