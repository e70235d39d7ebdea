------------------------------ MODULE Condition ------------------------------
(***************************************************************************)
(* The condition DSL: the recursive-descent parser over the tokens of a    *)
(* condition and the evaluator of its syntax trees.  A condition is a      *)
(* sequence of tokens; a path stands for the value it resolves to in the   *)
(* context, null when a segment is missing.                                *)
(***************************************************************************)
EXTENDS Integers, Sequences, FiniteSets

Comparison == {"==", "!=", ">", ">=", "<", "<="}

Word == {"true", "false", "num", "str", "path"}

Token == Word \cup Comparison \cup {"!", "&&", "||", "(", ")"}

(***************************************************************************)
(* A JSON value as far as the evaluator looks at it.  v is a number, the   *)
(* rank of a string among the strings (0 the empty one), the size of a     *)
(* container; a number is a float or not, and a literal always is.         *)
(***************************************************************************)
Value == [kind : {"null", "bool", "number", "string", "object"}, v : Nat, float : BOOLEAN]

Null == [kind |-> "null", v |-> 0, float |-> FALSE]

Bool(b) == [kind |-> "bool", v |-> IF b THEN 1 ELSE 0, float |-> FALSE]

-----------------------------------------------------------------------------
(* Parser.  A parse gives an expression and the position behind it. *)

Bad == [ok |-> FALSE, e |-> <<>>, pos |-> 0]

Parsed(e, pos) == [ok |-> TRUE, e |-> e, pos |-> pos]

peek(ts, i) == IF i <= Len(ts) THEN ts[i] ELSE "end"

RECURSIVE parse_or(_, _), OrLoop(_, _), parse_and(_, _), AndLoop(_, _), parse_cmp(_, _),
          parse_value(_, _)

OrLoop(ts, left) ==
    IF ~left.ok \/ peek(ts, left.pos) # "||" THEN left
    ELSE LET right == parse_and(ts, left.pos + 1)
         IN  OrLoop(ts, IF right.ok THEN Parsed(<<"||", left.e, right.e>>, right.pos) ELSE Bad)

parse_or(ts, i) == OrLoop(ts, parse_and(ts, i))

\* Mutant: `&&` and `||` are parsed by one loop, from left to right.
AndLoopFlat(ts, left) ==
    IF ~left.ok \/ peek(ts, left.pos) \notin {"&&", "||"} THEN left
    ELSE LET right == parse_cmp(ts, left.pos + 1)
         IN  AndLoop(ts, IF right.ok
                         THEN Parsed(<<peek(ts, left.pos), left.e, right.e>>, right.pos)
                         ELSE Bad)

AndLoop(ts, left) ==
    IF ~left.ok \/ peek(ts, left.pos) # "&&" THEN left
    ELSE LET right == parse_cmp(ts, left.pos + 1)
         IN  AndLoop(ts, IF right.ok THEN Parsed(<<"&&", left.e, right.e>>, right.pos) ELSE Bad)

parse_and(ts, i) == AndLoop(ts, parse_cmp(ts, i))

\* At most one comparison: a second one is left for the caller.
parse_cmp(ts, i) ==
    LET left == parse_value(ts, i) IN
    IF ~left.ok \/ peek(ts, left.pos) \notin Comparison THEN left
    ELSE LET right == parse_value(ts, left.pos + 1)
         IN  IF right.ok
             THEN Parsed(<<peek(ts, left.pos), left.e, right.e>>, right.pos)
             ELSE Bad

parse_value(ts, i) ==
    LET tok == peek(ts, i) IN
    IF tok = "!"
    THEN LET inner == parse_value(ts, i + 1)
         IN  IF inner.ok THEN Parsed(<<"!", inner.e>>, inner.pos) ELSE Bad
    ELSE IF tok \in Word THEN Parsed(<<tok>>, i + 1)
    ELSE IF tok = "("
    THEN LET inner == parse_or(ts, i + 1)
         IN  IF inner.ok /\ peek(ts, inner.pos) = ")" THEN Parsed(inner.e, inner.pos + 1) ELSE Bad
    ELSE Bad

\* An empty condition is true; tokens behind the expression are an error.
compile(ts) ==
    IF ts = <<>> THEN Parsed(<<"true">>, 1)
    ELSE LET p == parse_or(ts, 1) IN IF p.ok /\ p.pos = Len(ts) + 1 THEN p ELSE Bad

-----------------------------------------------------------------------------
(* Evaluator. *)

\* Same kind and same content; an integer is never equal to a float, and
\* arrays and objects are equal to nothing.
values_equal(a, b) == a = b /\ a.kind # "object"

\* values_compare is not None.
comparable(a, b) == a.kind = b.kind /\ a.kind \in {"number", "string"}

values_compare(op, a, b) ==
    /\ comparable(a, b)
    /\ \/ op = ">" /\ a.v > b.v
       \/ op = ">=" /\ a.v >= b.v
       \/ op = "<" /\ a.v < b.v
       \/ op = "<=" /\ a.v <= b.v

is_truthy(a) == a.kind # "null" /\ a.v # 0

\* What a word stands for; resolve_path gives the path its value in the context.
Atom(w, ctx) ==
    CASE w = "true" -> Bool(TRUE)
      [] w = "false" -> Bool(FALSE)
      [] w = "num" -> [kind |-> "number", v |-> 1, float |-> TRUE]
      [] w = "str" -> [kind |-> "string", v |-> 1, float |-> FALSE]
      [] w = "path" -> ctx

Compare(op, a, b) ==
    CASE op = "==" -> values_equal(a, b)
      [] op = "!=" -> ~values_equal(a, b)
      [] OTHER -> values_compare(op, a, b)

RECURSIVE eval_expr(_, _)

eval_expr(e, ctx) ==
    CASE e[1] \in Word -> Atom(e[1], ctx)
      [] e[1] = "!" -> Bool(~is_truthy(eval_expr(e[2], ctx)))
      [] e[1] = "&&" -> Bool(is_truthy(eval_expr(e[2], ctx)) /\ is_truthy(eval_expr(e[3], ctx)))
      [] e[1] = "||" -> Bool(is_truthy(eval_expr(e[2], ctx)) \/ is_truthy(eval_expr(e[3], ctx)))
      [] OTHER -> Bool(Compare(e[1], eval_expr(e[2], ctx), eval_expr(e[3], ctx)))

\* evaluate, and ConditionCache::evaluate, which memoizes compile: the cache
\* keeps what the first of several callers inserted, all of them the same.
evaluate(ts, ctx) ==
    LET c == compile(ts)
    IN  IF ~c.ok THEN "Err" ELSE IF is_truthy(eval_expr(c.e, ctx)) THEN "true" ELSE "false"

-----------------------------------------------------------------------------
(* The grammar of the module doc, read as a definition: a condition is     *)
(* split at its outermost `||`, each part at its outermost `&&`, each of   *)
(* those at its only comparison.                                           *)

Depth(ts, i) ==
    Cardinality({j \in 1 .. i : ts[j] = "("}) - Cardinality({j \in 1 .. i - 1 : ts[j] = ")"})

Outer(ts, ops) == {i \in DOMAIN ts : ts[i] \in ops /\ Depth(ts, i) = 0}

\* The parts of ts between the positions in cuts.
Parts(ts, cuts) ==
    {SubSeq(ts, i + 1, j - 1) :
        <<i, j>> \in {p \in (cuts \cup {0}) \X (cuts \cup {Len(ts) + 1}) :
                        p[1] < p[2] /\ \A k \in cuts : ~(p[1] < k /\ k < p[2])}}

Wrong == [kind |-> "error", v |-> 0, float |-> FALSE]

\* The comparisons as the docs of values_equal and values_compare describe them:
\* equality is structural, only numbers and only strings are ordered.
Holds(op, a, b) ==
    LET ordered == a.kind = b.kind /\ a.kind \in {"number", "string"}
    IN  CASE op = "==" -> a = b
          [] op = "!=" -> a # b
          [] op = ">"  -> ordered /\ a.v > b.v
          [] op = ">=" -> ordered /\ ~(a.v < b.v)
          [] op = "<"  -> ordered /\ a.v < b.v
          [] op = "<=" -> ordered /\ ~(a.v > b.v)

RECURSIVE Means(_, _)

\* The value of ts, or Wrong if the grammar does not derive it.
Means(ts, ctx) ==
    LET ors  == Outer(ts, {"||"})
        ands == Outer(ts, {"&&"})
        cmps == Outer(ts, Comparison)
        Of(cuts) == {Means(p, ctx) : p \in Parts(ts, cuts)}
    IN  IF ts = <<>> THEN Wrong
        ELSE IF ors # {}
        THEN IF Wrong \in Of(ors) THEN Wrong ELSE Bool(\E x \in Of(ors) : is_truthy(x))
        ELSE IF ands # {}
        THEN IF Wrong \in Of(ands) THEN Wrong ELSE Bool(\A x \in Of(ands) : is_truthy(x))
        ELSE IF Cardinality(cmps) > 1 THEN Wrong
        ELSE IF cmps # {}
        THEN LET i == CHOOSE k \in cmps : TRUE
                 l == Means(SubSeq(ts, 1, i - 1), ctx)
                 r == Means(SubSeq(ts, i + 1, Len(ts)), ctx)
             IN  IF Wrong \in {l, r} THEN Wrong ELSE Bool(Holds(ts[i], l, r))
        ELSE IF ts[1] = "!"
        THEN LET x == Means(Tail(ts), ctx) IN IF x = Wrong THEN Wrong ELSE Bool(~is_truthy(x))
        ELSE IF Len(ts) = 1 /\ ts[1] \in Word THEN Atom(ts[1], ctx)
        ELSE IF /\ Len(ts) > 2 /\ ts[1] = "(" /\ ts[Len(ts)] = ")"
                /\ \A i \in 2 .. Len(ts) - 1 : Depth(ts, i) > 0
                                               /\ ~(ts[i] = ")" /\ Depth(ts, i) = 1)
        THEN Means(SubSeq(ts, 2, Len(ts) - 1), ctx)
        ELSE Wrong

Meaning(ts, ctx) ==
    IF ts = <<>> THEN "true"
    ELSE IF Means(ts, ctx) = Wrong THEN "Err"
    ELSE IF is_truthy(Means(ts, ctx)) THEN "true" ELSE "false"
=============================================================================
