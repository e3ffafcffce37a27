------------------------------ MODULE PinchQL -------------------------------
(***************************************************************************)
(* WHERE of the query engine (internal/cypher/engine.go), which exists     *)
(* twice: condLeafToSQL and whereExprToSQL turn conditions into SQL, where *)
(* NULL makes a comparison unknown and a row is kept only when the whole   *)
(* is true, and evalCondition decides them in Go, where there is no        *)
(* unknown.  Which one decides depends on the shape of the tree and on     *)
(* its operators, and so does how many rows are read before the rest is    *)
(* decided.                                                                *)
(*                                                                         *)
(* A row has a name, a docstring that may be NULL, a line that no other    *)
(* row has, and a flag.  Text is a sequence of characters; the values      *)
(* asked for have the type of their column and the case of its text.       *)
(***************************************************************************)
EXTENDS Integers, Sequences, FiniteSets, SequencesExt, FiniteSetsExt

CONSTANT Null

EmptyText == <<>>

\* What fmt.Sprint prints for a NULL: a text like any other, of which <<1>>
\* is a part.
Printed(v) == IF v = Null THEN <<0, 1, 0>> ELSE v

Occurs(part, text) ==
    \E i \in 1 .. Len(text) + 1 : IsPrefix(part, SubSeq(text, i, Len(text)))

Ordering == {"<", ">", "<=", ">="}

Compares(op, a, b) ==
    \/ op = "<" /\ a < b
    \/ op = ">" /\ a > b
    \/ op = "<=" /\ a <= b
    \/ op = ">=" /\ a >= b

Matches(op, text, value) ==
    \/ op = "CONTAINS" /\ Occurs(value, text)
    \/ op = "STARTS WITH" /\ IsPrefix(value, text)
    \/ op = "ENDS WITH" /\ IsSuffix(value, text)
    \/ op \in {"IN", "=~"} /\ text \in value    \* the texts it matches

-----------------------------------------------------------------------------
(* Conditions in SQL: "true", "false" or "unknown".                        *)

Verdict(b) == IF b THEN "true" ELSE "false"

SqlNot(a) == CASE a = "true" -> "false" [] a = "false" -> "true"
               [] OTHER -> "unknown"
SqlAnd(a, b) == IF "false" \in {a, b} THEN "false"
                ELSE IF "unknown" \in {a, b} THEN "unknown" ELSE "true"
SqlOr(a, b) == SqlNot(SqlAnd(SqlNot(a), SqlNot(b)))

\* condLeafToSQL without the negation; = and <> take NULL for an empty value.
SqlPlain(row, c) ==
    LET v == row[c.prop] IN
    CASE c.op = "=" /\ v = Null -> IF c.value = EmptyText THEN "true" ELSE "unknown"
      [] c.op = "<>" /\ v = Null -> Verdict(c.value # EmptyText)
      [] c.op = "=" -> Verdict(v = c.value)
      [] c.op = "<>" -> Verdict(v # c.value)
      [] c.op = "IS NULL" -> Verdict(v \in {Null, EmptyText})
      [] c.op = "IS NOT NULL" -> Verdict(v \notin {Null, EmptyText})
      [] c.op \in Ordering -> Verdict(Compares(c.op, v, c.value))
      [] v = Null -> "unknown"
      [] OTHER -> Verdict(Matches(c.op, v, c.value))

CondLeafToSQL(row, c) ==
    IF c.neg THEN SqlNot(SqlPlain(row, c)) ELSE SqlPlain(row, c)

\* A leaf that condLeafToSQL can render; one that compares with another
\* column (crossed) cannot be.
Renders(c) == ~ c.crossed /\ c.op # "=~"

RECURSIVE WhereToSQL(_), SqlKeeps(_, _)

\* Whether whereExprToSQL renders the whole tree.
WhereToSQL(w) ==
    CASE w.is = "leaf" -> Renders(w.leaf)
      [] w.is = "not" -> WhereToSQL(w.inner)
      [] OTHER -> WhereToSQL(w.left) /\ WhereToSQL(w.right)

\* Its verdict on a row.
SqlKeeps(row, w) ==
    CASE w.is = "leaf" -> CondLeafToSQL(row, w.leaf)
      [] w.is = "not" -> SqlNot(SqlKeeps(row, w.inner))
      [] w.is = "AND" -> SqlAnd(SqlKeeps(row, w.left), SqlKeeps(row, w.right))
      [] w.is = "OR" -> SqlOr(SqlKeeps(row, w.left), SqlKeeps(row, w.right))

-----------------------------------------------------------------------------
(* Conditions in Go.                                                       *)

\* evalCondition; a comparison with another column counts as true.
EvalCondition(row, c) ==
    LET v == row[c.prop] IN
    CASE c.crossed -> TRUE
      [] c.op = "=" -> (v = Null /\ c.value = EmptyText) \/ Printed(v) = c.value
      [] c.op = "<>" -> IF v = Null THEN c.value # EmptyText
                        ELSE Printed(v) # c.value
      [] c.op = "IS NULL" -> v \in {Null, EmptyText}
      [] c.op = "IS NOT NULL" -> v \notin {Null, EmptyText}
      [] c.op \in Ordering -> Compares(c.op, v, c.value)
      [] c.op = "IN" /\ v = Null -> FALSE
      [] OTHER -> Matches(c.op, Printed(v), c.value)

RECURSIVE MatchesWhere(_, _)

\* matchesWhere: condExpr, notExpr and binaryExpr.
MatchesWhere(row, w) ==
    CASE w.is = "leaf" -> EvalCondition(row, w.leaf) # w.leaf.neg
      [] w.is = "not" -> ~ MatchesWhere(row, w.inner)
      [] w.is = "AND" -> MatchesWhere(row, w.left) /\ MatchesWhere(row, w.right)
      [] w.is = "OR" -> MatchesWhere(row, w.left) \/ MatchesWhere(row, w.right)

-----------------------------------------------------------------------------
(* The scan: MATCH (n) WHERE ... RETURN ...                                *)

RECURSIVE Leaves(_)

\* flattenWhere: the leaves of a chain.
Leaves(w) == IF w.is = "leaf" THEN {w.leaf}
             ELSE IF w.is = "not" THEN Leaves(w.inner)
             ELSE Leaves(w.left) \cup Leaves(w.right)

RECURSIVE ChainOf(_, _)
ChainOf(w, ops) ==
    \/ w.is = "leaf"
    \/ w.is \in ops /\ w.right.is = "leaf" /\ ChainOf(w.left, ops)

\* Mutant: as before #358, a chain with OR is pushed as well.
PushesChains(w) == ChainOf(w, {"AND", "OR"})

\* pushdownAllowed: leaves joined by AND, without groups.
PushdownAllowed(w) == ChainOf(w, {"AND"})

\* pushableOp, which lacks IN although condLeafToSQL renders it.
Pushable(c) == Renders(c) /\ c.op # "IN"

\* The part of a query's WHERE that SQL decides on, and the part left to Go.
InSQL(row, w) ==
    IF PushdownAllowed(w)
    THEN \A c \in Leaves(w) : Pushable(c) => CondLeafToSQL(row, c) = "true"
    ELSE WhereToSQL(w) => SqlKeeps(row, w) = "true"

LeftToGo(w) == IF PushdownAllowed(w) THEN \E c \in Leaves(w) : ~ Pushable(c)
               ELSE ~ WhereToSQL(w)

InGo(row, w) ==
    IF PushdownAllowed(w)
    THEN \A c \in Leaves(w) : Pushable(c) \/ EvalCondition(row, c) # c.neg
    ELSE WhereToSQL(w) \/ MatchesWhere(row, w)

\* scanLimitFor, for a maximum of rows; 50 and 10000 are the code's.
ScanLimit(maxRows, w) ==
    IF ~ LeftToGo(w) THEN 2 * maxRows
    ELSE IF 50 * maxRows > 10000 THEN 10000 ELSE 50 * maxRows

\* ORDER BY n.line, which both SQL and buildResult sort by.
InOrder(rows, q) ==
    SetToSortSeq(rows, LAMBDA a, b :
        IF q.desc THEN a.line > b.line ELSE a.line < b.line)

FirstOf(s, n) == SubSeq(s, 1, IF n < Len(s) THEN n ELSE Len(s))

\* buildResult, by what RETURN asks for: the rows, COUNT(n), n.test with
\* COUNT(n), or DISTINCT n.doc.
BuildResult(kept, q) ==
    LET limit == IF q.limit < 0 THEN 200 ELSE q.limit
        rows == ToSet(kept)
    IN
    CASE q.return = "rows" -> FirstOf(kept, limit)
      [] q.return = "count" -> IF q.limit = 0 THEN <<>> ELSE <<Len(kept)>>
      [] q.return = "group" ->
            {<<t, Cardinality({r \in rows : r.test = t})>>
             : t \in {r.test : r \in rows}}
      [] q.return = "distinct" -> {r.doc : r \in rows}

\* runNodeScan: only a query that neither counts nor asks for distinct
\* values limits what is read.
RunNodeScan(table, q, maxRows) ==
    LET selected == InOrder({r \in table : InSQL(r, q.where)}, q)
        read == IF q.return = "rows"
                THEN FirstOf(selected, ScanLimit(maxRows, q.where))
                ELSE selected
    IN  BuildResult(SelectSeq(read, LAMBDA r : InGo(r, q.where)), q)

-----------------------------------------------------------------------------
(* A step along one edge: MATCH (a)-[e]->(b).  The edges table has a row   *)
(* for each source that found the edge.                                    *)

\* runJoinQuery: ids are lines.  The rows of one edge, of which the code
\* keeps the most confident, are one; a repeated variable asks for loops.
RunJoin(table, edges, looped, w) ==
    LET ends(e) == {p \in table \X table : p[1].line = e.from /\ p[2].line = e.to}
        joined == {e \in edges : ends(e) # {} /\ (looped => e.from = e.to)}
        kept == {e \in joined : \E p \in ends(e) : InSQL(p[1], w) /\ InGo(p[1], w)}
        same(e) == {f \in kept : f.from = e.from /\ f.to = e.to /\ f.kind = e.kind}
    IN  {[from |-> e.from, to |-> e.to, kind |-> e.kind,
          confidence |-> Max({f.confidence : f \in same(e)})] : e \in kept}

-----------------------------------------------------------------------------
(* Reference: a query decides every row by one meaning of WHERE.           *)

\* A condition on which SQL says true or false of a row.
Decided(row, c) == ~ Renders(c) \/ CondLeafToSQL(row, c) # "unknown"

Meant(table, q) ==
    BuildResult(InOrder({r \in table : MatchesWhere(r, q.where)}, q), q)
=============================================================================
