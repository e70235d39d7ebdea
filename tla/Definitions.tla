----------------------------- MODULE Definitions -----------------------------
(***************************************************************************)
(* What happens to a definition before it is executed: it is migrated,     *)
(* validated, matched with the hardware, and its conditions are compiled   *)
(* and evaluated.  Each behaviour is one such job; a migration and the     *)
(* search for cycles take many steps, the others are one call.             *)
(***************************************************************************)
EXTENDS Admission, Tokenizer, Condition, Migration

CONSTANTS Conditions,   \* the conditions that are evaluated, as tokens
          Texts,        \* the conditions that are evaluated from their text
          Contexts      \* the values their path may resolve to

vars == <<dvars, mvars>>

IdleMigration ==
    /\ migrations = {} /\ start = 0 /\ version = 0 /\ target = 0 /\ mpc = "setup"

Init ==
    \/ DInit /\ IdleMigration
    \/ /\ out = "none" /\ SearchInit
       /\ \/ job = [kind |-> "migrate"] /\ MInit
          \/ /\ IdleMigration
             /\ \/ \E ts \in Conditions, c \in Contexts :
                       job = [kind |-> "evaluate", tokens |-> ts, ctx |-> c]
                \/ \E cs \in Texts : job = [kind |-> "text", text |-> cs, ctx |-> Bool(TRUE)]

Evaluate ==
    /\ job.kind = "evaluate" /\ out = "none"
    /\ out' = evaluate(job.tokens, job.ctx)
    /\ UNCHANGED <<job, svars, mvars>>

\* The same from the text, which the compiler trims and tokenizes first.
EvaluateText ==
    /\ job.kind = "text" /\ out = "none"
    /\ LET ts == tokenize(job.text)
       IN  out' = IF ts = LexError THEN "Err" ELSE evaluate(ts, job.ctx)
    /\ UNCHANGED <<job, svars, mvars>>

Migrate == job.kind = "migrate" /\ MNext /\ UNCHANGED dvars

Admit == DNext /\ UNCHANGED mvars

Next == Admit \/ Evaluate \/ EvaluateText \/ Migrate

Spec == Init /\ [][Next]_vars

\* The loop of migrate_to, and the search for cycles, run to their end.
FairSpec ==
    /\ Spec
    /\ WF_vars(job.kind = "migrate" /\ Migrating /\ UNCHANGED dvars)
    /\ WF_vars(Admit)

-----------------------------------------------------------------------------
(* Properties. *)

\* What the docs say of a text: it means the longest tokens it divides into.
Documented(cs, ctx) ==
    LET ts == LongestTokens(cs) IN IF ts = LexError THEN "Err" ELSE Meaning(ts, ctx)

\* An array or object may be tested for equality with another one.
ComparesContainers(ts, ctx) ==
    /\ ctx.kind = "object"
    /\ \E i \in DOMAIN ts : ts[i] \in {"==", "!="}
    /\ Cardinality({i \in DOMAIN ts : ts[i] = "path"}) > 1

\* A condition has the value that the grammar of the module doc gives it, and is
\* an error exactly if the grammar does not derive it.  The code departs from its
\* docs in two places.  The scanner takes every dot into a word, so that texts
\* like `a.`, `a..b` and `a.1`, which no rule derives, are paths and not errors.
\* And values_equal, documented as structural, finds no two containers equal.
ConditionMeansGrammar ==
    /\ job.kind = "evaluate" /\ out # "none" /\ ~ComparesContainers(job.tokens, job.ctx) =>
          out = Meaning(job.tokens, job.ctx)
    /\ job.kind = "text" /\ out # "none" =>
          \/ out = Documented(job.text, job.ctx)
          \/ Documented(job.text, job.ctx) = "Err" /\ StrayDot(job.text)

\* A migration that was started ends, and so does the validation of a flow: no
\* chain of migrations, and no search, goes on for ever.
JobsEnd ==
    /\ (mpc = "loop") ~> (mpc # "loop")
    /\ (job.kind = "validate") ~> (out # "none")
=============================================================================
