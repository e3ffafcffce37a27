------------------------------ MODULE QueryText ------------------------------
(***************************************************************************)
(* The parser of the query language (parse in internal/cypher/engine.go):  *)
(* from the tokens of a query to its clauses, or to a rejection.           *)
(*                                                                         *)
(* A token is [kind, value]; the hops of an edge (kind "HOPS") have        *)
(* parts too, the numbers between the dots.  As in the code, tokens are    *)
(* compared by their value whatever their kind, and past the last one      *)
(* there is only the end.  A step of the parser gives No, or what it read  *)
(* and the tokens that are left.                                           *)
(***************************************************************************)
EXTENDS Integers, FiniteSets, SequencesExt, TLC

End == [kind |-> "EOF", value |-> ""]

Peek(ts) == IF ts = <<>> THEN End ELSE Head(ts)
Rest(ts) == IF ts = <<>> THEN <<>> ELSE Tail(ts)
Is(ts, value) == Peek(ts).value = value
Skip(ts, value) == IF Is(ts, value) THEN Rest(ts) ELSE ts

No == [ok |-> FALSE]
Yes(read, left) == [ok |-> TRUE, read |-> read, left |-> left]
Then(step, Go(_, _)) == IF step.ok THEN Go(step.read, step.left) ELSE No

\* expect, after what a step read.
Closed(step, closer) ==
    Then(step, LAMBDA read, ts :
        IF Is(ts, closer) THEN Yes(read, Rest(ts)) ELSE No)

-----------------------------------------------------------------------------
(* MATCH (from:Kind {key: value})-[edge:KIND*1..3]->(to:Kind).             *)

NoNode == [var |-> "", kind |-> "", props |-> <<>>]
Straight == [min |-> 1, max |-> 1, inverted |-> FALSE, clamped |-> FALSE]
NoEdge == [var |-> "", kinds |-> <<>>, hops |-> Straight]

RECURSIVE ParseProps(_, _), EdgeKinds(_, _)

ParseProps(ts, props) ==
    IF Is(ts, "}") \/ ts = <<>> THEN Closed(Yes(props, ts), "}")
    ELSE LET value == Skip(Rest(ts), ":")
         IN  ParseProps(Skip(Rest(value), ","),
                        (Peek(ts).value :> Peek(value).value) @@ props)

Node(ts) ==
    LET named == Rest(ts)
        labelled == Is(named, ":")
        at == IF labelled THEN Rest(Rest(named)) ELSE named
    IN  Closed(
            Then(IF Is(at, "{") THEN ParseProps(Rest(at), <<>>) ELSE Yes(<<>>, at),
                LAMBDA props, left :
                    Yes([var |-> Peek(ts).value, props |-> props,
                         kind |-> IF labelled THEN Peek(Rest(named)).value ELSE ""],
                        left)),
            ")")

\* The numbers of *2, *1..3 and *; written backwards they are swapped, and
\* there is no path without a step.
ParseHops(parts) ==
    LET first == IF parts = <<>> \/ Len(parts) > 2 THEN 1 ELSE parts[1]
        last == IF Len(parts) = 2 THEN parts[2] ELSE first
        low == IF last < first THEN last ELSE first
        high == IF last < first THEN first ELSE last
        min == IF low < 1 THEN 1 ELSE low
    IN  [min |-> min, max |-> IF high < min THEN min ELSE high,
         inverted |-> last < first, clamped |-> low < 1]

EdgeKinds(ts, kinds) ==
    IF Peek(ts).kind # "IDENT" THEN Yes(kinds, ts)
    ELSE LET more == Append(kinds, Peek(ts).value)
         IN  IF Is(Rest(ts), "|") THEN EdgeKinds(Rest(Rest(ts)), more)
             ELSE Yes(more, Rest(ts))

Brackets(ts) ==
    LET named == Peek(ts).kind = "IDENT"
        colon == IF named THEN Rest(ts) ELSE ts
        kinds == IF Is(colon, ":") THEN EdgeKinds(Rest(colon), <<>>)
                 ELSE Yes(<<>>, colon)
        ranged == Peek(kinds.left).kind = "HOPS"
    IN  Closed(Yes([var |-> IF named THEN Peek(ts).value ELSE "", kinds |-> kinds.read,
                    hops |-> IF ranged THEN ParseHops(Peek(kinds.left).parts)
                             ELSE Straight],
                   IF ranged THEN Rest(kinds.left) ELSE kinds.left),
               "]")

\* What follows the edge: an arrow out of it, or nothing at all.
Arrow(edge, ts) ==
    CASE Is(ts, "->") -> Yes(edge, Rest(ts))
      [] Is(ts, "-") -> IF Is(Rest(ts), ">") THEN Yes(edge, Rest(Rest(ts))) ELSE No
      [] OTHER -> Yes(edge, ts)

ParsePattern(ts) ==
    Then(Node(Skip(ts, "(")), LAMBDA from, atEdge :
        IF Peek(atEdge).value \notin {"-", "<"}
        THEN Yes([from |-> from, edge |-> NoEdge, to |-> NoNode], atEdge)
        ELSE
        Then(Then(IF Is(Rest(atEdge), "[") THEN Brackets(Rest(Rest(atEdge)))
                  ELSE Yes(NoEdge, Rest(atEdge)), Arrow),
            LAMBDA edge, atTo :
            Then(IF Is(atTo, "(") THEN Node(Rest(atTo)) ELSE Yes(NoNode, atTo),
                LAMBDA to, left :
                IF Peek(left).value \in {"-", "<"} THEN No   \* a chain of edges
                ELSE Yes([from |-> from, edge |-> edge, to |-> to], left))))

-----------------------------------------------------------------------------
(* WHERE.  A condition is [variable, property, op, value, values, rhs,     *)
(* valueKind, neg]; values are those of IN, and rhs is <<>> unless the     *)
(* condition compares with a column.                                       *)

Comparisons == {"=", "<>", ">", "<", ">=", "<="}
BoolCols == {"is_exported", "is_entry_point", "is_test"}
Invalid == {"(", "["}           \* the patterns regexp.Compile refuses

NormalizeConditionValue(t) ==
    CASE t.kind = "KEYWORD" /\ t.value = "TRUE" -> "1"
      [] t.kind = "KEYWORD" /\ t.value = "FALSE" -> "0"
      [] t.kind = "KEYWORD" /\ t.value = "NULL" -> ""
      [] OTHER -> t.value

IsExpressionBoundary(t) ==
    t.kind = "EOF" \/ t.value \in {")", "AND", "OR", "RETURN", "ORDER", "LIMIT"}

RECURSIVE InList(_, _)

\* The rest of IN [a, b, c], for the condition read so far.
InList(c, ts) ==
    LET t == Peek(ts)
        more == [c EXCEPT !.values = Append(@, NormalizeConditionValue(t)),
                          !.valueKind = IF @ = "" THEN t.kind ELSE @]
    IN  IF t.kind \notin {"STRING", "NUMBER", "KEYWORD", "IDENT"} THEN No
        ELSE IF Is(Rest(ts), ",") THEN InList(more, Rest(Rest(ts)))
        ELSE Closed(Yes(more, Rest(ts)), "]")

ParseOneCondition(ts) ==
    LET dotted == Is(Rest(ts), ".")
        at == IF dotted THEN Rest(Rest(Rest(ts))) ELSE Rest(ts)
        op == Peek(at).value
        arg == Rest(at)
        c == [variable |-> Peek(ts).value,
              property |-> IF dotted THEN Peek(Rest(Rest(ts))).value ELSE "",
              op |-> op, value |-> "", values |-> <<>>, rhs |-> <<>>,
              valueKind |-> "", neg |-> FALSE]
        Valued(name, from) ==
            Yes([c EXCEPT !.op = name, !.value = NormalizeConditionValue(Peek(from)),
                          !.valueKind = Peek(from).kind], Rest(from))
        Nothing(name, from) == Yes([c EXCEPT !.op = name], Skip(from, "NULL"))
    IN
    CASE op \in Comparisons /\ Is(Rest(arg), ".") ->
            Yes([c EXCEPT !.rhs = <<NormalizeConditionValue(Peek(arg)),
                                    Peek(Rest(Rest(arg))).value>>],
                Rest(Rest(Rest(arg))))
      [] op \in Comparisons \cup {"CONTAINS"} -> Valued(op, arg)
      [] op = "=~" -> IF Peek(arg).value \in Invalid THEN No ELSE Valued(op, arg)
      [] op = "STARTS" -> Valued("STARTS WITH", Skip(arg, "WITH"))
      [] op = "ENDS" -> Valued("ENDS WITH", Skip(arg, "WITH"))
      [] op = "IS" -> IF Is(arg, "NOT") THEN Nothing("IS NOT NULL", Rest(arg))
                      ELSE Nothing("IS NULL", arg)
      [] op = "IN" -> IF Is(arg, "[") /\ ~ Is(Rest(arg), "]")
                      THEN InList(c, Rest(arg)) ELSE No
      [] OTHER -> IF c.property \in BoolCols /\ IsExpressionBoundary(Peek(at))
                  THEN Yes([c EXCEPT !.op = "=", !.value = "1"], at) ELSE No

RECURSIVE ParseOrExpr(_), OrMore(_, _), ParseAndExpr(_), AndMore(_, _), ParseFactor(_)

Leaf(c) == [is |-> "leaf", leaf |-> c]
Joined(op, left, right) == [is |-> op, left |-> left, right |-> right]

ParseOrExpr(ts) == Then(ParseAndExpr(ts), OrMore)
OrMore(left, ts) ==
    IF ~ Is(ts, "OR") THEN Yes(left, ts)
    ELSE Then(ParseAndExpr(Rest(ts)),
              LAMBDA right, after : OrMore(Joined("OR", left, right), after))

ParseAndExpr(ts) == Then(ParseFactor(ts), AndMore)
AndMore(left, ts) ==
    IF ~ Is(ts, "AND") THEN Yes(left, ts)
    ELSE Then(ParseFactor(Rest(ts)),
              LAMBDA right, after : AndMore(Joined("AND", left, right), after))

ParseFactor(ts) ==
    LET negated == Is(ts, "NOT")
        at == Skip(ts, "NOT")
    IN  IF Is(at, "(")
        THEN Then(Closed(ParseOrExpr(Rest(at)), ")"), LAMBDA inner, left :
                Yes(IF negated THEN [is |-> "not", inner |-> inner] ELSE inner, left))
        ELSE Then(ParseOneCondition(at), LAMBDA c, left :
                Yes(Leaf([c EXCEPT !.neg = negated]), left))

-----------------------------------------------------------------------------
(* RETURN and ORDER BY.  A column is [fn, distinct, variable, property,    *)
(* alias].                                                                 *)

AggFns == {"COUNT", "AVG", "MIN", "MAX", "SUM"}

IsStar(t) == t.kind = "HOPS" /\ t.value = ""

\* variable, variable.property or, in an aggregate, *.
Target(ts, starred) ==
    IF starred /\ IsStar(Peek(ts)) THEN Yes(<<"*", "">>, Rest(ts))
    ELSE IF Is(Rest(ts), ".")
    THEN Yes(<<Peek(ts).value, Peek(Rest(Rest(ts))).value>>,
             Rest(Rest(Rest(ts))))
    ELSE Yes(<<Peek(ts).value, "">>, Rest(ts))

Column(fn, distinct, target) ==
    [fn |-> fn, distinct |-> distinct, variable |-> target[1],
     property |-> target[2], alias |-> ""]

Aggregate(ts) ==
    LET agg == Peek(ts).value
        at == Skip(Rest(ts), "(")
        distinct == Peek(at) = [kind |-> "KEYWORD", value |-> "DISTINCT"]
        of == Target(IF distinct THEN Rest(at) ELSE at, TRUE)
    IN  IF distinct /\ (agg # "COUNT" \/ of.read[2] = "") THEN No
        ELSE Closed(Yes(Column(agg, distinct, of.read), of.left), ")")

Bare(ts) ==
    LET of == Target(ts, FALSE) IN
    IF Is(Rest(ts), "(") \/ Peek(ts).kind = "HOPS" \/ Is(ts, "") THEN No
    ELSE Yes(Column("", FALSE, of.read), of.left)

RECURSIVE ParseReturn(_, _)
ParseReturn(ts, columns) ==
    Then(IF Peek(ts).value \in AggFns THEN Aggregate(ts) ELSE Bare(ts),
        LAMBDA column, at :
        LET named == Is(at, "AS")
            more == Append(columns, IF named
                    THEN [column EXCEPT !.alias = Peek(Rest(at)).value] ELSE column)
            left == IF named THEN Rest(Rest(at)) ELSE at
        IN  IF ~ Is(left, ",") THEN Yes(more, left)
            ELSE IF Peek(Rest(left)).value \in {"WHERE", "ORDER", "LIMIT", "MATCH"}
            THEN Yes(more, Rest(left))
            ELSE ParseReturn(Rest(left), more))

\* <<fn, variable, property>>.
OrderTarget(ts) ==
    IF Peek(ts).value \in AggFns
    THEN Closed(Then(Target(Skip(Rest(ts), "("), TRUE), LAMBDA of, left :
                    Yes(<<Peek(ts).value, of[1], of[2]>>, left)), ")")
    ELSE Then(Target(ts, FALSE), LAMBDA of, left : Yes(<<"", of[1], of[2]>>, left))

-----------------------------------------------------------------------------
(* The clauses, in any order but for WHERE, which precedes RETURN.  A      *)
(* limit is the text of a number, or Unset when there is none.             *)

Unlimited == "-1"
Fractions == {"0.5"}            \* the numbers that are no integers

NewQuery == [patterns |-> <<>>, where |-> [is |-> "none"], returnVars |-> <<>>,
             distinct |-> FALSE, orderBy |-> <<>>, desc |-> FALSE,
             limit |-> Unlimited]

RECURSIVE Clauses(_, _)

\* Mutant: before #748 a token out of place was passed over.
Overlooks(q, ts) == Clauses(q, Rest(ts))

\* The default case: no clause starts with this token.
Unexpected(q, ts) == No

Clauses(q, ts) ==
    CASE ts = <<>> -> Yes(q, ts)
      [] Is(ts, "MATCH") ->
            Then(ParsePattern(Rest(ts)), LAMBDA p, left :
                Clauses([q EXCEPT !.patterns = Append(@, p)], left))
      [] Is(ts, "WHERE") /\ q.returnVars = <<>> ->
            Then(ParseOrExpr(Rest(ts)), LAMBDA w, left :
                Clauses([q EXCEPT !.where = IF @.is = "none" THEN w
                                            ELSE Joined("AND", @, w)], left))
      [] Is(ts, "RETURN") ->
            LET distinct == Is(Rest(ts), "DISTINCT") IN
            Then(ParseReturn(Skip(Rest(ts), "DISTINCT"), <<>>), LAMBDA vs, left :
                Clauses([q EXCEPT !.distinct = @ \/ distinct, !.returnVars = vs], left))
      [] Is(ts, "ORDER") ->
            Then(OrderTarget(Skip(Rest(ts), "BY")), LAMBDA by, left :
                LET after == Skip(left, IF Is(left, "DESC") THEN "DESC" ELSE "ASC") IN
                IF Is(after, ",") THEN No
                ELSE Clauses([q EXCEPT !.orderBy = by, !.desc = @ \/ Is(left, "DESC")],
                             after))
      [] Is(ts, "LIMIT") ->
            IF Peek(Rest(ts)).kind # "NUMBER" \/ Peek(Rest(ts)).value \in Fractions
            THEN No
            ELSE Clauses([q EXCEPT !.limit = Peek(Rest(ts)).value], Rest(Rest(ts)))
      [] OTHER -> Unexpected(q, ts)

\* parseQuery, and the check of Execute that there is only one MATCH.
Parse(ts) ==
    Then(Clauses(NewQuery, ts), LAMBDA q, left :
        IF Len(q.patterns) # 1 \/ q.returnVars = <<>> THEN No ELSE Yes(q, left))

-----------------------------------------------------------------------------
(* Reference: how a query is written.                                      *)

Word(value) == <<[kind |-> "IDENT", value |-> value]>>
Mark(value) == <<[kind |-> "PUNCT", value |-> value]>>
Keyword(value) == <<[kind |-> "KEYWORD", value |-> value]>>
Text(value) == <<[kind |-> "STRING", value |-> value]>>
Star(parts) == <<[kind |-> "HOPS", value |-> IF parts = <<>> THEN "" ELSE "range",
                  parts |-> parts]>>

If(b, words) == IF b THEN words ELSE <<>>

RECURSIVE Separated(_, _)
Separated(parts, mark) ==
    IF Len(parts) <= 1 THEN (IF parts = <<>> THEN <<>> ELSE parts[1])
    ELSE parts[1] \o Mark(mark) \o Separated(Tail(parts), mark)

RECURSIVE Listed(_)
Listed(S) ==
    IF S = {} THEN <<>>
    ELSE LET x == CHOOSE x \in S : TRUE IN <<x>> \o Listed(S \ {x})

NodeText(n) ==
    LET keys == Listed(DOMAIN n.props) IN
    Mark("(") \o Word(n.var) \o If(n.kind # "", Mark(":") \o Word(n.kind))
    \o If(keys # <<>>, Mark("{") \o
          Separated([i \in DOMAIN keys |->
              Word(keys[i]) \o Mark(":") \o Text(n.props[keys[i]])], ",") \o Mark("}"))
    \o Mark(")")

HopsText(hops) ==
    LET low == IF hops.clamped THEN 0 ELSE hops.min IN
    Star(IF hops.inverted THEN <<hops.max, low>> ELSE <<low, hops.max>>)

EdgeText(e) ==
    Mark("-") \o Mark("[") \o If(e.var # "", Word(e.var))
    \o If(e.kinds # <<>>, Mark(":") \o
          Separated([i \in DOMAIN e.kinds |-> Word(e.kinds[i])], "|"))
    \o If(e.hops # Straight, HopsText(e.hops))
    \o Mark("]") \o Mark("->")

TargetText(variable, property) ==
    (IF variable = "*" THEN Star(<<>>) ELSE Word(variable))
    \o If(property # "", Mark(".") \o Word(property))

\* A value with its kind; the literals TRUE, FALSE and NULL are 1, 0 and "".
ValueText(value, kind) ==
    IF kind = "KEYWORD" /\ value \in {"1", "0", ""}
    THEN Keyword(CASE value = "1" -> "TRUE" [] value = "0" -> "FALSE" [] OTHER -> "NULL")
    ELSE <<[kind |-> kind, value |-> value]>>

OpText(op) ==
    CASE op = "STARTS WITH" -> Keyword("STARTS") \o Keyword("WITH")
      [] op = "ENDS WITH" -> Keyword("ENDS") \o Keyword("WITH")
      [] op = "IS NULL" -> Keyword("IS") \o Keyword("NULL")
      [] op = "IS NOT NULL" -> Keyword("IS") \o Keyword("NOT") \o Keyword("NULL")
      [] OTHER -> Mark(op)

ConditionText(c) ==
    If(c.neg, Keyword("NOT")) \o TargetText(c.variable, c.property)
    \o (IF c.op = "=" /\ c.valueKind = "" /\ c.rhs = <<>> THEN <<>>
        ELSE OpText(c.op) \o
             CASE c.rhs # <<>> -> TargetText(c.rhs[1], c.rhs[2])
               [] c.op \in {"IS NULL", "IS NOT NULL"} -> <<>>
               [] c.op = "IN" -> Mark("[") \o Separated([i \in DOMAIN c.values |->
                    ValueText(c.values[i], c.valueKind)], ",") \o Mark("]")
               [] OTHER -> ValueText(c.value, c.valueKind))

RECURSIVE WhereText(_, _)
WhereText(w, grouped) ==
    CASE w.is = "leaf" -> ConditionText(w.leaf)
      [] w.is = "not" -> Keyword("NOT") \o Mark("(") \o WhereText(w.inner, FALSE) \o Mark(")")
      [] OTHER ->
            LET inside ==
                WhereText(w.left, w.is = "AND" /\ w.left.is = "OR") \o Keyword(w.is)
                \o WhereText(w.right, w.right.is = w.is \/ w.right.is = "OR")
            IN  IF grouped THEN Mark("(") \o inside \o Mark(")") ELSE inside

ColumnText(v) ==
    (IF v.fn = "" THEN TargetText(v.variable, v.property)
     ELSE Keyword(v.fn) \o Mark("(") \o If(v.distinct, Keyword("DISTINCT"))
          \o TargetText(v.variable, v.property) \o Mark(")"))
    \o If(v.alias # "", Word("AS") \o Word(v.alias))

\* Every part of a query that has one pattern.
Written(q) ==
    LET p == q.patterns[1] IN
    Keyword("MATCH") \o NodeText(p.from)
    \o If(p.to # NoNode \/ p.edge # NoEdge, EdgeText(p.edge))
    \o If(p.to # NoNode, NodeText(p.to))
    \o If(q.where.is # "none", Keyword("WHERE") \o WhereText(q.where, FALSE))
    \o Keyword("RETURN") \o If(q.distinct, Keyword("DISTINCT"))
    \o Separated([i \in DOMAIN q.returnVars |-> ColumnText(q.returnVars[i])], ",")
    \o If(q.orderBy # <<>>, Keyword("ORDER") \o Keyword("BY")
          \o (IF q.orderBy[1] = "" THEN TargetText(q.orderBy[2], q.orderBy[3])
              ELSE Keyword(q.orderBy[1]) \o Mark("(")
                   \o TargetText(q.orderBy[2], q.orderBy[3]) \o Mark(")"))
          \o If(q.desc, Keyword("DESC")))
    \o If(q.limit # Unlimited,
          Keyword("LIMIT") \o <<[kind |-> "NUMBER", value |-> q.limit]>>)

-----------------------------------------------------------------------------
(* Reference: what is said of a query by its words.                        *)

\* One token is added, dropped, replaced, or swapped with the next.
Edited(ts, e) ==
    LET before == SubSeq(ts, 1, e.at - 1)
        after(n) == SubSeq(ts, e.at + n, Len(ts))
    IN  CASE e.how = "none" -> ts
          [] e.how = "add" -> before \o <<e.token>> \o after(0)
          [] e.how = "drop" -> before \o after(1)
          [] e.how = "replace" -> before \o <<e.token>> \o after(1)
          [] e.how = "swap" -> before \o Reverse(SubSeq(ts, e.at, e.at + 1)) \o after(2)

ClauseWords == {"MATCH", "WHERE", "RETURN", "ORDER", "LIMIT"}

\* Words that say nothing alone: marks, and words that may be left out.
IdleWords == ClauseWords \cup
    {"(", ")", "[", "]", "{", "}", ":", ",", ".", "-", "->", "|", "<", ">",
     "BY", "WITH", "NULL", "ASC", "AS", ""}

Meaning(value) ==
    IF value = "TRUE" THEN "1" ELSE IF value = "FALSE" THEN "0" ELSE value
Count(ts, word) == Cardinality({i \in DOMAIN ts : Meaning(ts[i].value) = word})

Wordings(ts) == {Meaning(ts[i].value) : i \in DOMAIN ts}

\* The query read holds every word of the tokens as often as they do.
Holds(q, ts) ==
    \A word \in Wordings(ts) \ IdleWords : Count(Written(q), word) = Count(ts, word)
=============================================================================
