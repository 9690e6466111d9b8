----------------------------- MODULE FilterExpr -----------------------------
(***************************************************************************)
(* The conditions rules are written in (crates/policy/src/filter/expr.rs): *)
(* a parser by recursive descent from a text, a sequence of tokens, to a   *)
(* condition, a tree; and what a text means, to compare the tree with.     *)
(* Positions in error messages are left out.                               *)
(***************************************************************************)
EXTENDS Integers, Sequences, FiniteSets

-----------------------------------------------------------------------------
(* Each parse answers the tree and the position it stopped at, 0 if it      *)
(* failed.                                                                  *)

Name(c) == [op |-> "check", name |-> c]
Negation(t) == [op |-> "not", left |-> t]
Joined(o, l, r) == [op |-> o, left |-> l, right |-> r]

\* Every word that is not one of these names a check.
Keyword == {"and", "or", "not", "(", ")", "end"}

Wrong == [tree |-> <<>>, at |-> 0]
Token(ts, i) == IF i \in DOMAIN ts THEN ts[i] ELSE "end"

RECURSIVE ParseExpr(_, _), ParseTerm(_, _), ParseFactor(_, _), OrMore(_, _), AndMore(_, _)

\* expr := term ( "or" term )*
OrMore(ts, left) ==
    IF left.at = 0 \/ Token(ts, left.at) # "or" THEN left
    ELSE LET right == ParseTerm(ts, left.at + 1) IN
         IF right.at = 0 THEN Wrong
         ELSE OrMore(ts, [tree |-> Joined("or", left.tree, right.tree), at |-> right.at])
ParseExpr(ts, i) == OrMore(ts, ParseTerm(ts, i))

\* term := factor ( "and" factor )*
AndMore(ts, left) ==
    IF left.at = 0 \/ Token(ts, left.at) # "and" THEN left
    ELSE LET right == ParseFactor(ts, left.at + 1) IN
         IF right.at = 0 THEN Wrong
         ELSE AndMore(ts, [tree |-> Joined("and", left.tree, right.tree), at |-> right.at])
ParseTerm(ts, i) == AndMore(ts, ParseFactor(ts, i))

\* Mutant of ParseFactor: `not` takes the whole term that follows.
ParseFactorGreedy(ts, i) ==
    CASE Token(ts, i) = "not" ->
           LET inner == ParseTerm(ts, i + 1) IN
           IF inner.at = 0 THEN Wrong ELSE [tree |-> Negation(inner.tree), at |-> inner.at]
      [] Token(ts, i) = "(" ->
           LET inner == ParseExpr(ts, i + 1) IN
           IF inner.at = 0 \/ Token(ts, inner.at) # ")" THEN Wrong ELSE [inner EXCEPT !.at = @ + 1]
      [] Token(ts, i) \notin Keyword -> [tree |-> Name(ts[i]), at |-> i + 1]
      [] OTHER -> Wrong

\* factor := "not" factor | "(" expr ")" | name
ParseFactor(ts, i) ==
    CASE Token(ts, i) = "not" ->
           LET inner == ParseFactor(ts, i + 1) IN
           IF inner.at = 0 THEN Wrong ELSE [tree |-> Negation(inner.tree), at |-> inner.at]
      [] Token(ts, i) = "(" ->
           LET inner == ParseExpr(ts, i + 1) IN
           IF inner.at = 0 \/ Token(ts, inner.at) # ")" THEN Wrong ELSE [inner EXCEPT !.at = @ + 1]
      [] Token(ts, i) \notin Keyword -> [tree |-> Name(ts[i]), at |-> i + 1]
      [] OTHER -> Wrong

\* Condition::parse: nothing may be left over.
Parse(ts) == LET all == ParseExpr(ts, 1) IN IF all.at = Len(ts) + 1 THEN all ELSE Wrong

-----------------------------------------------------------------------------
(* What a text says when every check knows its answer: the reference.       *)

\* Where `o` stands outside every parenthesis.
Tops(ts, o) ==
    {i \in DOMAIN ts : /\ ts[i] = o
                       /\ Cardinality({j \in 1..i : ts[j] = "("}) = Cardinality({j \in 1..i : ts[j] = ")"})}

\* A text as its operators bind: `or` last, `and` before it, `not` first.
RECURSIVE Means(_, _)
Means(ts, v) ==
    IF Tops(ts, "or") # {}
    THEN LET i == CHOOSE j \in Tops(ts, "or") : TRUE
         IN Means(SubSeq(ts, 1, i - 1), v) \/ Means(SubSeq(ts, i + 1, Len(ts)), v)
    ELSE IF Tops(ts, "and") # {}
    THEN LET i == CHOOSE j \in Tops(ts, "and") : TRUE
         IN Means(SubSeq(ts, 1, i - 1), v) /\ Means(SubSeq(ts, i + 1, Len(ts)), v)
    ELSE IF ts[1] = "not" THEN ~Means(Tail(ts), v)
    ELSE IF ts[1] = "(" THEN Means(SubSeq(ts, 2, Len(ts) - 1), v)
    ELSE v[ts[1]]

=============================================================================
