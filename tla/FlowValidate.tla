---------------------------- MODULE FlowValidate ----------------------------
(***************************************************************************)
(* FlowDef::validate: the depth-first search for cycles, call by call, the *)
(* check of dangling dependencies, and what the other modes refuse.  A     *)
(* definition here is what can be deserialized: a dependency may name no   *)
(* step of the flow (the id Unknown), and steps may be nested as           *)
(* sub_steps.                                                              *)
(*                                                                         *)
(* Steps are numbered in pre-order; up[s] is the step around s, 0 for one  *)
(* of the flow's own steps.                                                *)
(***************************************************************************)
EXTENDS FlowDefs

Unknown == N + 1

Mode == {"Sequential", "Parallel", "Dag", "Hierarchical"}

Definition == [mode : Mode, deps : [Step -> SUBSET (Step \cup {Unknown})],
               trigger : [Step -> Trigger], up : [Step -> 0 .. N]]

Node == Step \cup {Unknown}

OwnSteps(f) == {s \in Step : f.up[s] = 0}

VARIABLES
    stack,      \* the calls of dfs that are open, the innermost last: the node, and
                \* the neighbours it has not looked at yet
    visited,    \* the nodes dfs was called for
    in_stack,   \* those whose call did not return
    found       \* a call of dfs returned true, and so do all around it

svars == <<stack, visited, in_stack, found>>

SearchInit == stack = <<>> /\ visited = {} /\ in_stack = {} /\ found = FALSE

\* The sets of check_cycles are empty on every call of it.
SearchAgain == stack' = <<>> /\ visited' = {} /\ in_stack' = {} /\ found' = FALSE

\* The map of dependencies has the own steps only: what they depend on beside
\* them is a node without neighbours.
Neighbours(f, n) == IF n \in OwnSteps(f) THEN f.deps[n] ELSE {}

\* The entry of dfs, called from the innermost of `open`.
Enter(f, n, open) ==
    /\ visited' = visited \cup {n}
    /\ in_stack' = in_stack \cup {n}
    /\ stack' = Append(open, [node |-> n, left |-> Neighbours(f, n)])

\* The loop over the flow's steps, which may be listed in any order and passes
\* over those that were visited.
Start(f, s) ==
    /\ stack = <<>>
    /\ s \notin visited
    /\ Enter(f, s, stack)
    /\ UNCHANGED found

Innermost == stack[Len(stack)]

\* The loop over the neighbours, in the order of depends_on.
Visit(f, d) ==
    /\ stack # <<>> /\ ~found
    /\ d \in Innermost.left
    /\ LET open == [stack EXCEPT ![Len(stack)].left = @ \ {d}] IN
       IF d \notin visited
       THEN Enter(f, d, open) /\ UNCHANGED found
       ELSE stack' = open /\ found' = (d \in in_stack) /\ UNCHANGED <<visited, in_stack>>

\* Mutant: a node stays on the stack when its call returns.
LeaveMarked ==
    /\ stack # <<>> /\ ~found
    /\ Innermost.left = {}
    /\ stack' = SubSeq(stack, 1, Len(stack) - 1)
    /\ UNCHANGED <<visited, in_stack, found>>

\* dfs returns false.
Leave ==
    /\ stack # <<>> /\ ~found
    /\ Innermost.left = {}
    /\ in_stack' = in_stack \ {Innermost.node}
    /\ stack' = SubSeq(stack, 1, Len(stack) - 1)
    /\ UNCHANGED <<visited, found>>

Search(f) ==
    \/ \E s \in OwnSteps(f) : Start(f, s)
    \/ \E d \in Node : Visit(f, d)
    \/ Leave

SearchEnded(f) == found \/ (stack = <<>> /\ OwnSteps(f) \subseteq visited)

\* What check_cycles says when the search has ended.
check_cycles(f) ==
    IF found THEN "CycleDetected"
    ELSE IF \E s \in OwnSteps(f) : ~(f.deps[s] \subseteq OwnSteps(f)) THEN "InvalidFlow"
    ELSE "Ok"

\* Walks every level of sub_steps.
validate_hierarchical(f) == IF \E s \in Step : f.deps[s] # {} THEN "InvalidFlow" ELSE "Ok"

\* The checks in their order: the first one that refuses decides.
FlowDef_validate(f) ==
    IF f.mode = "Dag" /\ check_cycles(f) # "Ok" THEN check_cycles(f)
    ELSE IF f.mode # "Dag" /\ \E s \in OwnSteps(f) : f.deps[s] # {} THEN "InvalidFlow"
    ELSE IF f.mode = "Hierarchical" /\ validate_hierarchical(f) # "Ok" THEN "InvalidFlow"
    ELSE IF \E s \in OwnSteps(f) : f.trigger[s] = "Any" /\ f.deps[s] = {} THEN "InvalidFlow"
    ELSE "Ok"

\* The dependencies among the flow's own steps.
OwnDeps(f) ==
    [s \in Step |-> IF s \in OwnSteps(f) THEN f.deps[s] \cap OwnSteps(f) ELSE {}]

\* The verdict a reader of the definition expects.  A Dag has a cycle, dangling
\* dependencies, or is what the executors assume (`validate` of FlowDefs);
\* elsewhere no own step, and in a hierarchy no step at all, has dependencies.
Expected(f) ==
    LET bare == \A s \in OwnSteps(f) : f.trigger[s] = "All" \/ f.deps[s] # {}
    IN  IF f.mode = "Dag"
        THEN IF ~Acyclic(OwnDeps(f)) THEN "CycleDetected"
             ELSE IF bare /\ \A s \in OwnSteps(f) : f.deps[s] = OwnDeps(f)[s] THEN "Ok"
             ELSE "InvalidFlow"
        ELSE IF bare /\ \A s \in (IF f.mode = "Hierarchical" THEN Step ELSE OwnSteps(f)) : f.deps[s] = {}
             THEN "Ok" ELSE "InvalidFlow"
-----------------------------------------------------------------------------
(* Why the search decides. *)

SearchTypeOK ==
    /\ stack \in Seq([node : Node, left : SUBSET Node])
    /\ visited \subseteq Node
    /\ in_stack \subseteq visited
    /\ found \in BOOLEAN

\* The open calls are a path along the dependencies, with no node twice, and
\* in_stack has exactly their nodes.
OpenPath(f) ==
    /\ in_stack = {stack[i].node : i \in DOMAIN stack}
    /\ \A i, j \in DOMAIN stack : stack[i].node = stack[j].node => i = j
    /\ \A i \in DOMAIN stack : stack[i].left \subseteq Neighbours(f, stack[i].node)
    /\ \A i \in DOMAIN stack : i + 1 \in DOMAIN stack =>
          stack[i + 1].node \in Neighbours(f, stack[i].node)

\* A node that a call has looked at has returned, or it is the call it waits for.
LookedAt(f) ==
    \A i \in DOMAIN stack : \A d \in Neighbours(f, stack[i].node) \ stack[i].left :
        /\ d \in visited
        /\ d \in in_stack => i + 1 \in DOMAIN stack /\ d = stack[i + 1].node

Orders(rank, f) == \A s \in Step : \A d \in OwnDeps(f)[s] : rank[d] < rank[s]

\* Any order of the dependencies falls along the open calls.
FallsAlong(f) ==
    \A rank \in [Step -> Step] : Orders(rank, f) =>
        \A i, j \in DOMAIN stack :
            i < j /\ stack[j].node \in OwnSteps(f) => rank[stack[j].node] < rank[stack[i].node]

Returned(f) == (visited \ in_stack) \cap OwnSteps(f)

\* The nodes whose calls returned can be numbered with their dependencies first.
Numbered(f) ==
    \E rank \in [Step -> Step] :
        \A s \in Returned(f) :
            /\ rank[s] <= Cardinality(Returned(f))
            /\ \A d \in OwnDeps(f)[s] : d \in Returned(f) /\ rank[d] < rank[s]

\* What check_cycles keeps true while it searches.
SearchInv(f) ==
    /\ SearchTypeOK
    /\ OpenPath(f)
    /\ FallsAlong(f)
    /\ ~found => LookedAt(f) /\ Numbered(f)
    /\ found => stack # <<>> /\ ~Acyclic(OwnDeps(f))
=============================================================================
