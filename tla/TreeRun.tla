------------------------------- MODULE TreeRun -------------------------------
(***************************************************************************)
(* run_sequential and run_hierarchical: one task walks the steps in        *)
(* order.  In Hierarchical mode a completed step is followed by its        *)
(* sub_steps, and a skipped or failed one takes its whole subtree along;   *)
(* in Sequential mode sub_steps are ignored.                               *)
(*                                                                         *)
(* A step is its position in the pre-order of the tree and `depth` its     *)
(* nesting depth, so that a subtree is an interval.  A frame is one call   *)
(* of execute_tree: the interval its steps slice spans, the next step      *)
(* and that call's own `failed` flag.  The token and the deadline may be   *)
(* raised at any time, between two steps or while a handler runs.  A panic *)
(* of a handler unwinds through the walk, which then never returns.        *)
(***************************************************************************)
EXTENDS FlowDefs

CONSTANT Trees      \* the flows a run may be started with

\* The mode, the shape of the tree and the conditions.
Tree == [mode  : {"Sequential", "Hierarchical"},
         depth : [Step -> 1 .. N],
         cond  : [Step -> Condition]]

\* depth is that of a pre-order: it starts at 1 and grows by one at most.
Shape(depth) ==
    \A s \in Step : depth[s] <= IF s = 1 THEN 1 ELSE depth[s - 1] + 1

ASSUME TreesAssumption == Trees \subseteq {t \in Tree : Shape(t.depth)}

VARIABLES
    tree,       \* the flow of this run
    frames,     \* the calls, innermost last
    running,    \* the step whose handler runs, 0 = none
    results,
    unwound,    \* a handler panicked
    begun,      \* history: the steps whose handler was invoked
    cancelled,  \* the token is signalled
    timed_out   \* the flow deadline has passed

env  == <<cancelled, timed_out>>
vars == <<tree, frames, running, results, unwound, begun, env>>

nested == tree.mode = "Hierarchical"

\* The last step of the subtree of s.
SubtreeEnd(s) ==
    CHOOSE e \in s .. N :
        /\ \A u \in s + 1 .. e : tree.depth[u] > tree.depth[s]
        /\ e < N => tree.depth[e + 1] <= tree.depth[s]

Frame(first, last) == [first |-> first, last |-> last, next |-> first, failed |-> FALSE]

Top == frames[Len(frames)]

\* The innermost call moves on to the step behind the subtree of s.
Advanced(s, failed) ==
    [frames EXCEPT ![Len(frames)].next = SubtreeEnd(s) + 1, ![Len(frames)].failed = failed]

\* Skipped results for the steps first .. last, in pre-order.
Skips(first, last, why) == [i \in 1 .. last - first + 1 |-> Skip(first + i - 1, why)]

Init ==
    /\ tree \in Trees
    /\ frames = <<Frame(1, N)>>
    /\ running = 0
    /\ results = <<>>
    /\ unwound = FALSE
    /\ begun = {}
    /\ cancelled = FALSE
    /\ timed_out = FALSE

-----------------------------------------------------------------------------
(* The walk. *)

\* Mutant: the condition sees the results of every level.
VisibleAll == results

\* What a condition can see: build_step_context is given the results of the
\* whole walk, but only the names of the steps slice it is in, and drops the
\* results it has no name for.  So it sees siblings only, each where it was.
Visible ==
    [i \in {j \in DOMAIN results : /\ results[j].step \in Top.first .. Top.last
                                  /\ tree.depth[results[j].step] = tree.depth[Top.first]}
       |-> results[i]]

\* Mutant: the deadline is looked at by nested calls only.
SkipReasonNested(s) ==
    IF cancelled THEN "cancelled"
    ELSE IF Top.failed THEN "prior_step_failed"
    ELSE IF timed_out /\ Len(frames) > 1 THEN "flow_timeout_exceeded"
    ELSE "none"

\* Why s is skipped, in the order of the tests; "none" = it is run.
SkipReason(s) ==
    IF cancelled THEN "cancelled"
    ELSE IF Top.failed THEN "prior_step_failed"
    ELSE IF timed_out THEN "flow_timeout_exceeded"
    ELSE IF check_condition_false(tree, s, Visible) THEN "condition_not_met"
    ELSE "none"

\* The innermost call is about to deal with s.
At(s) ==
    /\ frames # <<>>
    /\ running = 0
    /\ Top.next <= Top.last
    /\ s = Top.next

SkipStep(s) ==
    /\ At(s)
    /\ SkipReason(s) # "none"
    /\ results' = results \o Skips(s, IF nested THEN SubtreeEnd(s) ELSE s, SkipReason(s))
    /\ frames' = Advanced(s, Top.failed)
    /\ UNCHANGED <<tree, running, begun, unwound, env>>

Execute(s) ==
    /\ At(s)
    /\ SkipReason(s) = "none"
    /\ running' = s
    /\ begun' = begun \cup {s}
    /\ UNCHANGED <<tree, frames, results, unwound, env>>

\* The step completed; its sub_steps are the next call.
Complete(s) ==
    /\ running = s
    /\ results' = Append(results, Executed(s, "Completed"))
    /\ running' = 0
    /\ frames' = IF nested /\ SubtreeEnd(s) > s
                 THEN Append(Advanced(s, Top.failed), Frame(s + 1, SubtreeEnd(s)))
                 ELSE Advanced(s, Top.failed)
    /\ UNCHANGED <<tree, begun, unwound, env>>

\* Mutant: the failure of a step is noted in every call.
FailStepEverywhere(s) ==
    /\ running = s
    /\ results' = Append(results, Executed(s, "Failed"))
                    \o (IF nested THEN Skips(s + 1, SubtreeEnd(s), "parent_step_failed") ELSE <<>>)
    /\ running' = 0
    /\ frames' = [f \in DOMAIN frames |-> [Advanced(s, TRUE)[f] EXCEPT !.failed = TRUE]]
    /\ UNCHANGED <<tree, begun, unwound, env>>

\* Mutant: the failed step is reported as the head of the skipped subtree.
FailStepAsSkip(s) ==
    /\ running = s
    /\ results' = results \o Skips(s, IF nested THEN SubtreeEnd(s) ELSE s, "parent_step_failed")
    /\ running' = 0
    /\ frames' = Advanced(s, TRUE)
    /\ UNCHANGED <<tree, begun, unwound, env>>

\* The step failed; its subtree is skipped and so are its later siblings.
FailStep(s) ==
    /\ running = s
    /\ results' = Append(results, Executed(s, "Failed"))
                    \o (IF nested THEN Skips(s + 1, SubtreeEnd(s), "parent_step_failed") ELSE <<>>)
    /\ running' = 0
    /\ frames' = Advanced(s, TRUE)
    /\ UNCHANGED <<tree, begun, unwound, env>>

\* The handler panics: every call is unwound and its results are lost.
Panic(s) ==
    /\ running = s
    /\ running' = 0
    /\ frames' = <<>>
    /\ unwound' = TRUE
    /\ UNCHANGED <<tree, results, begun, env>>

\* A call has walked its steps; the outermost one returns the results.
Leave ==
    /\ frames # <<>>
    /\ running = 0
    /\ Top.next > Top.last
    /\ frames' = SubSeq(frames, 1, Len(frames) - 1)
    /\ UNCHANGED <<tree, running, results, begun, unwound, env>>

Walk ==
    \/ \E s \in Step : SkipStep(s) \/ Execute(s) \/ Complete(s) \/ FailStep(s) \/ Panic(s)
    \/ Leave

-----------------------------------------------------------------------------
(* The environment. *)

Cancel ==
    /\ ~cancelled
    /\ frames # <<>>
    /\ cancelled' = TRUE
    /\ UNCHANGED <<tree, frames, running, results, unwound, begun, timed_out>>

Deadline ==
    /\ ~timed_out
    /\ frames # <<>>
    /\ timed_out' = TRUE
    /\ UNCHANGED <<tree, frames, running, results, unwound, begun, cancelled>>

Next == Walk \/ Cancel \/ Deadline

Spec == Init /\ [][Next]_vars

-----------------------------------------------------------------------------
(* Properties. *)

Done == frames = <<>> /\ ~unwound

TypeOK ==
    /\ tree \in Tree /\ Shape(tree.depth)
    /\ frames \in Seq([first : 1 .. N + 1, last : 0 .. N, next : 1 .. N + 1, failed : BOOLEAN])
    /\ running \in 0 .. N
    /\ results \in Seq(StepResult)
    /\ unwound \in BOOLEAN
    /\ begun \subseteq Step
    /\ cancelled \in BOOLEAN
    /\ timed_out \in BOOLEAN

\* The steps the mode walks.
Walked == IF nested THEN Step ELSE {s \in Step : tree.depth[s] = 1}

\* The results come in pre-order without a gap, and when the walk ends every
\* step it covers has one, whatever failed or was stopped on the way.
PreOrder ==
    /\ \A i, j \in DOMAIN results : i < j => results[i].step < results[j].step
    /\ \A s \in Reported(results) : \A u \in Walked : u < s => u \in Reported(results)
    /\ Done => Reported(results) = Walked

\* s is u or nested in u.
Under(s, u) == u <= s /\ \A v \in u + 1 .. s : tree.depth[v] > tree.depth[u]

\* u is an earlier step of the same steps slice as s.
EarlierSibling(u, s) ==
    /\ u < s
    /\ tree.depth[u] = tree.depth[s]
    /\ \A v \in u .. s : tree.depth[v] >= tree.depth[s]

\* A handler is invoked only if every step it is nested in completed and no
\* earlier sibling of it, or of those, had failed: at every level.
NothingRunsBehindFailure ==
    \A s \in begun :
        /\ nested => \A u \in Step : Under(s, u) /\ u # s => HasResult(results, u, "Completed")
        /\ \A u \in Step : EarlierSibling(u, s) => ~HasResult(results, u, "Failed")

\* A failure stays in its own list of siblings: a step is skipped for a failed
\* one only if that is an earlier sibling of it or of a step around it, and
\* for a failed parent only below that parent.
FailureContained ==
    \A i \in DOMAIN results :
        LET s == results[i].step IN
        /\ results[i].reason = "prior_step_failed" =>
              \E u, v \in Step : Under(s, v) /\ EarlierSibling(u, v) /\ HasResult(results, u, "Failed")
        /\ results[i].reason = "parent_step_failed" =>
              \E u \in Step : u # s /\ Under(s, u) /\ HasResult(results, u, "Failed")

\* The state is well typed, the results are complete and in order, and a failure
\* reaches exactly as far as it should.
Inv == TypeOK /\ PreOrder /\ NothingRunsBehindFailure /\ FailureContained

\* A condition on a step of another level is never met: the context of the
\* condition holds the siblings only.
ConditionsSeeSiblings ==
    \A s \in begun :
        tree.cond[s].kind = "status" =>
            EarlierSibling(tree.cond[s].on, s)

\* No handler is invoked after a step was skipped for the token or the deadline,
\* at whatever level that was.
StopIsFinal ==
    [][ (\E i \in DOMAIN results :
            results[i].reason \in {"cancelled", "flow_timeout_exceeded"})
        => begun' = begun ]_vars

Outcome ==
    [s \in Step |->
        IF s \in Reported(results)
        THEN results[CHOOSE i \in DOMAIN results : results[i].step = s].status
        ELSE "none"]

Contract == INSTANCE FlowContract
              WITH MayAbandon <- FALSE, outcome <- Outcome, returned <- Done

\* Both executors keep the contract of an executor that abandons no step.
RefinesContract == Contract!Spec

-----------------------------------------------------------------------------
(* The inductive invariant. *)

\* A call walks the steps of one depth in an interval that no other step of that
\* depth or above is in or next to; its flag tells whether one of them failed.
FrameOK(f) ==
    /\ f.first <= f.next /\ f.next <= f.last + 1
    /\ f.first > 1 => tree.depth[f.first - 1] < tree.depth[f.first]
    /\ \A u \in f.first .. f.last : tree.depth[u] >= tree.depth[f.first]
    /\ f.last < N => tree.depth[f.last + 1] < tree.depth[f.first]
    /\ f.next <= f.last => tree.depth[f.next] = tree.depth[f.first]
    /\ f.failed <=> \E u \in f.first .. f.next - 1 :
                       tree.depth[u] = tree.depth[f.first] /\ HasResult(results, u, "Failed")

\* The calls are nested: each goes on behind the one inside it, and is inside
\* steps that completed.
Stack ==
    /\ frames # <<>> => frames[1].first = 1 /\ frames[1].last = N
    /\ Len(frames) > 1 => nested
    /\ \A k \in DOMAIN frames : FrameOK(frames[k])
    /\ \A k \in 1 .. Len(frames) - 1 : frames[k].next = frames[k + 1].last + 1
    /\ \A j, k \in DOMAIN frames :
          j < k => /\ frames[j].first < frames[k].first
                   /\ tree.depth[frames[j].first] < tree.depth[frames[k].first]
    /\ \A k \in DOMAIN frames : \A u \in Step :
          Under(frames[k].first, u) /\ u # frames[k].first => HasResult(results, u, "Completed")

\* Everything before the next step of the innermost call is reported and nothing
\* behind it; only the step whose handler runs was begun and has no result.
Position ==
    /\ frames # <<>> =>
          /\ ~unwound
          /\ Reported(results) = {u \in Walked : u < Top.next}
          /\ running # 0 => running = Top.next /\ Top.next <= Top.last /\ ~Top.failed
    /\ frames = <<>> => running = 0
    /\ running # 0 => running \in begun
    /\ ~unwound => begun \subseteq Reported(results) \cup {running}

\* A step was skipped for the token or the deadline only after it was raised.
Stops ==
    \A i \in DOMAIN results :
        /\ results[i].reason = "cancelled" => cancelled
        /\ results[i].reason = "flow_timeout_exceeded" => timed_out

IInv ==
    /\ TypeOK
    /\ Stack
    /\ Position
    /\ PreOrder
    /\ NothingRunsBehindFailure
    /\ FailureContained
    /\ ConditionsSeeSiblings
    /\ Stops
=============================================================================
