---------------------------- MODULE MCDefinitions ----------------------------
(***************************************************************************)
(* All definitions of three steps in Dag mode, with dangling dependencies, *)
(* the nested ones of the other modes, all conditions of up to four        *)
(* tokens, those of five and seven in which precedence shows, and all      *)
(* texts of up to three characters, of four for most of them.              *)
(***************************************************************************)
EXTENDS Definitions

Flat == [s \in Step |-> 0]

AllTriggers == [s \in Step |-> "All"]

DagFlows ==
    {[mode |-> "Dag", deps |-> d, trigger |-> t, up |-> Flat] :
        d \in [Step -> SUBSET (Step \cup {Unknown})],
        t \in {AllTriggers, [AllTriggers EXCEPT ![1] = "Any"]}}

\* Step 2 is below step 1, and may be named as a dependency.
NestedFlows ==
    {[mode |-> m, deps |-> d, trigger |-> t, up |-> [Flat EXCEPT ![2] = 1]] :
        m \in Mode, d \in [Step -> {{}, {1}, {2}, {3}}],
        t \in {AllTriggers, [AllTriggers EXCEPT ![3] = "Any"]}}

MCFlows == DagFlows \cup NestedFlows

SeqsOf(S, n) == [1 .. n -> S]

MCConditions ==
    UNION {SeqsOf({"true", "num", "path", "==", ">=", "!", "&&", "||", "(", ")"}, n) : n \in 0 .. 4}
    \cup SeqsOf({"true", "path", "&&", "||", "<"}, 5)
    \cup {<<a, "(", b, "&&", "path", ")", "||", "false">> : a, b \in {"!", "true"}}
    \cup {<<"(", a, o, "path", ")", p, b>> : a, b \in {"true", "str"}, o, p \in {"&&", "||", "!="}}

MCTexts ==
    UNION {SeqsOf(Char, n) : n \in 0 .. 3}
    \cup SeqsOf({" ", "=", "!", ">", "&", "(", "'", "1", ".", "a", "t", "-"}, 4)

MCContexts ==
    {Null, Bool(FALSE), Bool(TRUE),
     [kind |-> "number", v |-> 1, float |-> FALSE], [kind |-> "string", v |-> 0, float |-> FALSE],
     [kind |-> "object", v |-> 1, float |-> FALSE]}
=============================================================================
