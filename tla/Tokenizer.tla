------------------------------ MODULE Tokenizer ------------------------------
(***************************************************************************)
(* The tokenizer of the condition DSL.  A text is a sequence of            *)
(* characters, of which only the class matters: "1" stands for the digits, *)
(* "a" for the letters, " " for white space.  "t" stands for the letters   *)
(* of the keyword true: a word that is only "t" is the keyword, a longer   *)
(* one is a path; "#" stands for any character that begins nothing.        *)
(***************************************************************************)
EXTENDS Integers, Sequences, FiniteSets

Digit == {"1"}

WordStart == {"a", "t", "_"}

WordPart == WordStart \cup Digit \cup {"-", "."}

OneChar == {">", "<", "!", "(", ")"}

\* The two characters of an operator, and its token.
TwoChar ==
    {<<"=", "=", "==">>, <<"!", "=", "!=">>, <<">", "=", ">=">>, <<"<", "=", "<=">>,
     <<"&", "&", "&&">>, <<"|", "|", "||">>}

Char == WordPart \cup OneChar \cup {"=", "&", "|", "'", " ", "#"}

\* No token has this name.
LexError == <<"error">>

char_at(cs, i) == IF i <= Len(cs) THEN cs[i] ELSE "end"

RECURSIVE scan(_, _, _), tokens_from(_, _)

\* The first position from i on whose character is not in S.
scan(cs, i, S) == IF char_at(cs, i) \in S THEN scan(cs, i + 1, S) ELSE i

\* A fraction needs a digit behind the dot; otherwise the dot is left there.
number_end(cs, i) ==
    LET j == scan(cs, i, Digit)
    IN  IF char_at(cs, j) = "." /\ char_at(cs, j + 1) \in Digit THEN scan(cs, j + 1, Digit) ELSE j

\* The token that begins at i and the position behind it, 0 for an error.
token_at(cs, i) ==
    LET b    == cs[i]
        two  == {o \in TwoChar : o[1] = b /\ o[2] = char_at(cs, i + 1)}
        quote == scan(cs, i + 1, Char \ {"'"})
        word == SubSeq(cs, i, scan(cs, i, WordPart) - 1)
    IN  CASE two # {} -> [tok |-> (CHOOSE o \in two : TRUE)[3], next |-> i + 2]
          [] two = {} /\ b \in OneChar -> [tok |-> b, next |-> i + 1]
          [] b = "'" -> [tok |-> "str", next |-> IF quote > Len(cs) THEN 0 ELSE quote + 1]
          [] b \in Digit -> [tok |-> "num", next |-> number_end(cs, i)]
          [] b \in WordStart ->
                [tok |-> IF word = <<"t">> THEN "true" ELSE "path", next |-> i + Len(word)]
          [] OTHER -> [tok |-> "none", next |-> 0]

Before(tok, rest) == IF rest = LexError THEN LexError ELSE <<tok>> \o rest

tokens_from(cs, i) ==
    IF i > Len(cs) THEN <<>>
    ELSE IF cs[i] = " " THEN tokens_from(cs, i + 1)
    ELSE LET t == token_at(cs, i)
         IN  IF t.next = 0 THEN LexError ELSE Before(t.tok, tokens_from(cs, t.next))

tokenize(cs) == tokens_from(cs, 1)

-----------------------------------------------------------------------------
(* The tokens of the documented grammar (path, ident, string_lit and       *)
(* number_lit of the module doc) as sets of texts, and the division of a   *)
(* text into the longest of them: what tokenize is checked against.        *)

IsNumber(w) ==
    LET dots == {i \in DOMAIN w : w[i] = "."}
    IN  /\ \A i \in DOMAIN w : w[i] \in Digit \cup {"."}
        /\ Cardinality(dots) <= 1 /\ dots \cap {1, Len(w)} = {}

IsString(w) == Len(w) > 1 /\ {i \in DOMAIN w : w[i] = "'"} = {1, Len(w)}

\* ident = [a-zA-Z_][a-zA-Z0-9_-]*, path = ident ("." ident)*: a dot stands
\* between a character of one ident and the first one of the next.
IdentStart == {"a", "t", "_"}

IdentPart == IdentStart \cup {"1", "-"}

Dotted(cs, i) ==
    /\ i > 1 /\ cs[i - 1] \in IdentPart
    /\ i < Len(cs) /\ cs[i + 1] \in IdentStart

IsPath(w) ==
    /\ w[1] \in IdentStart
    /\ \A i \in DOMAIN w : w[i] \in IdentPart \/ (w[i] = "." /\ Dotted(w, i))

\* The text has a dot behind a word, or behind another dot, that joins no idents.
StrayDot(cs) ==
    \E i \in DOMAIN cs :
        /\ cs[i] = "." /\ ~Dotted(cs, i)
        /\ i > 1 /\ cs[i - 1] \in IdentPart \cup {"."}

\* The tokens that the text w, not empty, spells.
Spelled(w) ==
    {o[3] : o \in {p \in TwoChar : w = <<p[1], p[2]>>}}
    \cup {c \in OneChar : w = <<c>>}
    \cup {n \in {"num"} : IsNumber(w)} \cup {s \in {"str"} : IsString(w)}
    \cup {p \in {"path"} : IsPath(w) /\ w # <<"t">>} \cup {k \in {"true"} : w = <<"t">>}

LongestTokens(cs) ==
    LET ends(i) == {j \in i .. Len(cs) : Spelled(SubSeq(cs, i, j)) # {}}
        end(i)  == CHOOSE j \in ends(i) : \A k \in ends(i) : k <= j
        from[i \in 1 .. Len(cs) + 1] ==
            IF i = Len(cs) + 1 THEN <<>>
            ELSE IF cs[i] = " " THEN from[i + 1]
            ELSE IF ends(i) = {} THEN LexError
            ELSE Before(CHOOSE n \in Spelled(SubSeq(cs, i, end(i))) : TRUE, from[end(i) + 1])
    IN  from[1]
=============================================================================
