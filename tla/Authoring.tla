------------------------------ MODULE Authoring ------------------------------
(***************************************************************************)
(* A client that builds a flow with the MCP tools: step_create gives it    *)
(* steps, flow_create and flow_add_step put them into a flow, and          *)
(* flow_validate judges it.  Beside that, it walks a workflow through its  *)
(* states and asks the state tools where it may go.                        *)
(*                                                                         *)
(* The tools keep nothing: what they return is the client's.               *)
(***************************************************************************)
EXTENDS FlowValidate

CONSTANT StepName   \* names of steps

VARIABLES
    made,     \* the steps step_create returned: [id, name, deps]
    flow,     \* the flow of the client: [mode, steps], steps as indices of made
    judged,   \* the verdict of flow_validate on the flow, "none" before it was
              \* asked for, "asked" while the client waits for the answer
    wstate    \* the workflow the client keeps

avars == <<made, flow, judged, wstate, svars>>

NoFlow == [mode |-> "none", steps |-> <<>>]

-----------------------------------------------------------------------------
(* The life cycle of a workflow. *)

WorkflowState == {"Created", "Running", "Paused", "Completed", "Failed",
                  "RollingBack", "RolledBack", "Cancelled"}

is_terminal(s) == s \in {"Completed", "RolledBack", "Cancelled"}

valid_transition(from, to) ==
    <<from, to>> \in
        {<<"Created", "Running">>, <<"Running", "Paused">>, <<"Running", "Completed">>,
         <<"Running", "Failed">>, <<"Running", "Cancelled">>, <<"Running", "RollingBack">>,
         <<"Paused", "Running">>, <<"Paused", "Cancelled">>, <<"Failed", "RollingBack">>,
         <<"RollingBack", "RolledBack">>, <<"RollingBack", "Failed">>}

\* The answer of state_check, and an entry of state_lifecycle.
StateCheck(s) ==
    [is_terminal |-> is_terminal(s),
     valid_transitions |-> {t \in WorkflowState : valid_transition(s, t)}]

-----------------------------------------------------------------------------

AInit ==
    /\ made = <<>>
    /\ flow = NoFlow
    /\ judged = "none"
    /\ wstate = "Created"
    /\ SearchInit

\* Mutant: the id is derived from the name.
new_id_named(name) ==
    IF \E i \in DOMAIN made : made[i].name = name
    THEN made[CHOOSE i \in DOMAIN made : made[i].name = name].id
    ELSE Len(made) + 1

\* StepDef::new draws a random UUID.
new_id(name) == Len(made) + 1

\* The ids a client can name: those it was given, and one of another flow.
KnownIds == {made[i].id : i \in DOMAIN made} \cup {Unknown}

\* A dependency that is no UUID, or a missing name, is answered with an error
\* and leaves no step.
StepCreate(name, deps) ==
    /\ judged # "asked" /\ Len(made) < N
    /\ deps \subseteq KnownIds
    /\ made' = Append(made, [id |-> new_id(name), name |-> name, deps |-> deps])
    /\ UNCHANGED <<flow, judged, wstate, svars>>

\* The steps given to flow_create come into the flow in their order.
FlowCreate(mode, steps) ==
    /\ flow = NoFlow
    /\ flow' = [mode |-> mode, steps |-> steps]
    /\ judged' = "none"
    /\ UNCHANGED <<made, wstate, svars>>

\* Nothing is validated here, not even that the step is new to the flow.
FlowAddStep(i) ==
    /\ judged # "asked" /\ flow # NoFlow /\ Len(flow.steps) < N
    /\ flow' = [flow EXCEPT !.steps = Append(@, i)]
    /\ judged' = "none"
    /\ UNCHANGED <<made, wstate, svars>>

\* The definition the JSON of flow fl is parsed into; of two steps with one
\* id the map of dependencies keeps the later.
Parse(fl, steps) ==
    LET at(s) == {k \in DOMAIN fl.steps : steps[fl.steps[k]].id = s}
        of(s) == steps[fl.steps[CHOOSE k \in at(s) : \A j \in at(s) : j <= k]]
    IN  [mode |-> fl.mode,
         deps |-> [s \in Step |-> IF at(s) = {} THEN {} ELSE of(s).deps],
         trigger |-> [s \in Step |-> "All"],
         up |-> [s \in Step |-> IF at(s) = {} THEN N ELSE 0]]

Parsed == Parse(flow, made)

\* The tool flow_validate is called, searches for cycles and answers.
Ask ==
    /\ flow # NoFlow /\ judged = "none"
    /\ judged' = "asked"
    /\ SearchAgain
    /\ UNCHANGED <<made, flow, wstate>>

SearchFlow ==
    /\ judged = "asked" /\ flow.mode = "Dag"
    /\ Search(Parsed)
    /\ UNCHANGED <<made, flow, judged, wstate>>

Judge ==
    /\ judged = "asked"
    /\ flow.mode = "Dag" => SearchEnded(Parsed)
    /\ judged' = FlowDef_validate(Parsed)
    /\ UNCHANGED <<made, flow, wstate, svars>>

\* The client moves its workflow where state_transition says it may.
StateTransition(to) ==
    /\ valid_transition(wstate, to)
    /\ wstate' = to
    /\ UNCHANGED <<made, flow, judged, svars>>

BuildFlow ==
    \/ \E name \in StepName, deps \in SUBSET Node : StepCreate(name, deps)
    \/ \E mode \in Mode, i \in 0 .. Len(made) : FlowCreate(mode, IF i = 0 THEN <<>> ELSE <<i>>)
    \/ \E i \in DOMAIN made : FlowAddStep(i)
    \/ Ask
    \/ SearchFlow
    \/ Judge

WalkStates == \E to \in WorkflowState : StateTransition(to)

ASpec == AInit /\ [][BuildFlow \/ WalkStates]_avars

-----------------------------------------------------------------------------
(* Properties. *)

\* Every dependency of a step of the flow is a step of the flow.
Closed ==
    LET ids == {made[flow.steps[k]].id : k \in DOMAIN flow.steps}
    IN  \A k \in DOMAIN flow.steps : made[flow.steps[k]].deps \subseteq ids

Bare == \A k \in DOMAIN flow.steps : made[flow.steps[k]].deps = {}

\* A flow built with the tools alone has no cycle, in whatever order the steps
\* are added and how often: flow_validate refuses it only for a dependency that
\* was not added, or for any dependency outside of Dag.  And state_check calls
\* terminal exactly the states that no transition leaves.
AuthoringSound ==
    /\ judged \notin {"none", "asked"} =>
          judged = IF (IF flow.mode = "Dag" THEN Closed ELSE Bare) THEN "Ok" ELSE "InvalidFlow"
    /\ StateCheck(wstate).is_terminal <=> StateCheck(wstate).valid_transitions = {}

\* A step has the index as its id, and depends on earlier steps only.
MadeInOrder ==
    /\ made \in Seq([id : Step, name : StepName, deps : SUBSET Node])
    /\ \A i \in DOMAIN made : made[i].id = i /\ made[i].deps \subseteq 1 .. i - 1 \cup {Unknown}

\* The flow has steps that were made, and is judged by what it says.
AuthoringInv ==
    /\ MadeInOrder
    /\ flow.mode \in Mode \/ (flow = NoFlow /\ judged = "none")
    /\ flow = [mode |-> flow.mode, steps |-> flow.steps]
    /\ flow.steps \in Seq(Step)
    /\ \A k \in DOMAIN flow.steps : flow.steps[k] \in DOMAIN made
    /\ wstate \in WorkflowState
    /\ judged = "asked" => SearchInv(Parsed)
    /\ AuthoringSound
=============================================================================
