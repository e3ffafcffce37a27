---------------------------- MODULE QueryWarnings ----------------------------
(***************************************************************************)
(* What the query engine says about a query besides its rows (the collect  *)
(* functions of Execute in internal/cypher/engine.go): a name nobody knows *)
(* and the like give no error, they are named in a warning.                *)
(*                                                                         *)
(* A warning is <<what is wrong, the name that is>>.                       *)
(***************************************************************************)
EXTENDS QueryText

TextProps == {"id", "name", "qualified_name", "qn", "kind", "label", "file_path",
              "language", "project", "project_id", "signature", "return_type",
              "docstring"}
IntProps == {"start_line", "end_line", "start_byte", "end_byte", "complexity"}
RealProps == {"extraction_confidence", "confidence"}

\* The properties cypherPropToCol knows, and their cypherPropType.
NodeProps == TextProps \cup IntProps \cup RealProps \cup BoolCols
EdgeProps == {"kind", "confidence"}

KnownEdgeKinds == {"CALLS", "HTTP_CALLS", "ASYNC_CALLS", "READS", "WRITES",
                   "IMPORTS", "REFERENCES", "USES_VAR"}

\* The conditions of a tree, which the collectors walk.
RECURSIVE Conditions(_)
Conditions(w) ==
    CASE w.is = "none" -> {}
      [] w.is = "leaf" -> {w.leaf}
      [] w.is = "not" -> Conditions(w.inner)
      [] OTHER -> Conditions(w.left) \cup Conditions(w.right)

Ends(q) == UNION {{p.from, p.to} : p \in ToSet(q.patterns)}
EdgeVars(q) == {p.edge.var : p \in ToSet(q.patterns)} \ {""}
Bound(q) == ({n.var : n \in Ends(q)} \ {""}) \cup EdgeVars(q)
HasAggregation(q) == \E v \in ToSet(q.returnVars) : v.fn # ""

\* <<variable, property>> of conditions and columns.
Asked(q) ==
    {<<c.variable, c.property>> : c \in Conditions(q.where)}
    \cup {<<v.variable, v.property>> : v \in ToSet(q.returnVars)}
InBraces(q) == UNION {{<<n.var, p>> : p \in DOMAIN n.props} : n \in Ends(q)}
ComparedWith(q) == {c.rhs : c \in {d \in Conditions(q.where) : d.rhs # <<>>}}

Warn(what, names) == {<<what, name>> : name \in names}

-----------------------------------------------------------------------------
(* The collectors that look at the query alone.                            *)

UnknownProperties(q) ==
    Warn("property", {r[2] : r \in {s \in Asked(q) \cup InBraces(q) :
        s[2] # "" /\ s[2] \notin (IF s[1] \in EdgeVars(q) THEN EdgeProps
                                  ELSE NodeProps)}})

\* Mutant: before #1116 only the columns of RETURN had to be bound.
UnboundColumns(q) ==
    Warn("variable", {v.variable : v \in {w \in ToSet(q.returnVars) :
        w.property # "" /\ w.variable \notin Bound(q)}})

UnknownVariables(q) ==
    Warn("variable", {r[1] : r \in {s \in Asked(q) \cup ComparedWith(q) :
        Bound(q) # {} /\ s[1] # "" /\ s[2] # "" /\ s[1] \notin Bound(q)}})

CrossColumns(q) ==
    Warn("column", {c.rhs[2] : c \in {d \in Conditions(q.where) :
                                        d.rhs # <<>> /\ d.rhs[2] # ""}})

UnknownEdgeKinds(q) ==
    Warn("edge kind", (UNION {ToSet(p.edge.kinds) : p \in ToSet(q.patterns)})
                      \ KnownEdgeKinds)

HopRanges(q) ==
    Warn("hops", {p.edge.hops.max : p \in {r \in ToSet(q.patterns) :
                    r.edge.hops.inverted \/ r.edge.hops.clamped}})

UnknownOrderBy(q) ==
    IF q.orderBy = <<>> THEN {}
    ELSE LET dotted == q.orderBy[3] # ""
             named == q.orderBy[IF dotted THEN 3 ELSE 2]
             renamed == ~ dotted /\ \E v \in ToSet(q.returnVars) : v.alias = named
         IN  Warn("order", IF q.orderBy[1] # "" \/ renamed \/ named = "" THEN {}
                           ELSE {named} \ NodeProps)

TypeMismatches(q) ==
    Warn("type", {c.property : c \in {d \in Conditions(q.where) :
        /\ d.op \in Comparisons /\ d.rhs = <<>>
        /\ \/ d.property \in TextProps /\ d.valueKind = "NUMBER"
           \/ d.property \in IntProps \cup RealProps /\ d.valueKind = "STRING"
           \/ /\ d.property \in BoolCols
              /\ \/ d.valueKind = "NUMBER" /\ d.value \notin {"0", "1"}
                 \/ d.valueKind = "STRING"
                    /\ d.value \notin {"true", "false", "0", "1"}}})

AggregateTypes(q) ==
    Warn("aggregate", {v.property : v \in {w \in ToSet(q.returnVars) :
        w.fn \in AggFns \ {"COUNT"} /\ w.property \in TextProps \cup BoolCols}})

OrderByAggregate(q) ==
    IF q.orderBy # <<>> /\ q.orderBy[1] # "" /\ ~ HasAggregation(q)
    THEN Warn("grouping", {q.orderBy[1]}) ELSE {}

RepeatedVariables(q) ==
    Warn("loop", {p.from.var : p \in {r \in ToSet(q.patterns) :
        r.from.var # "" /\ r.from.var = r.to.var /\ r.edge.hops.max <= 1}})

BareProperties(q) ==
    Warn("prefix", {v.variable : v \in {w \in ToSet(q.returnVars) :
        /\ w.fn = "" /\ w.property = "" /\ Bound(q) # {}
        /\ w.variable \in NodeProps \ Bound(q)}})

\* The first of the aggregates is named.
MixedAggregates(q) ==
    LET aliased == SelectSeq(q.returnVars, LAMBDA v : v.fn # "" /\ v.alias # "")
        bare == {v \in ToSet(q.returnVars) : v.fn = ""}
        meant == q.distinct \/ (q.orderBy # <<>> /\ q.orderBy[1] # "")
    IN  IF aliased # <<>> /\ bare # {} /\ ~ meant
        THEN Warn("grouped", {Head(aliased).alias}) ELSE {}

-----------------------------------------------------------------------------
(* Those that look at the symbols, a set of [name, kind, language], and    *)
(* the kinds of the edges.                                                 *)

KindLabelTypos(q, symbols) ==
    Warn("label", {n.kind : n \in Ends(q)} \ ({s.kind : s \in symbols} \cup {""}))

\* kind and language, whose values a project has few of; label is kind.
EnumValues(q, symbols, edgeKinds) ==
    LET known(c) == CASE c.property = "language" -> {s.language : s \in symbols}
                      [] c.variable \in EdgeVars(q) -> edgeKinds
                      [] OTHER -> {s.kind : s \in symbols}
    IN  Warn("value", {c.value : c \in {d \in Conditions(q.where) :
            /\ d.op = "=" /\ d.value # ""
            /\ d.property \in {"kind", "label", "language"}
            /\ d.property = "language" => d.variable \notin EdgeVars(q)
            /\ d.value \notin known(d)}})

KindLabelMismatches(q, symbols) ==
    LET kinds(name) == {s.kind : s \in {t \in symbols : t.name = name}}
        \* The last end with the name labels it.
        labels(v) ==
            LET labelled == {n \in Ends(q) : n.var = v /\ n.kind # ""}
                last == {n \in labelled : n = q.patterns[Len(q.patterns)].to}
            IN  {n.kind : n \in IF last # {} THEN last ELSE labelled}
    IN  Warn("mismatch", {c.value : c \in {d \in Conditions(q.where) :
            /\ d.op = "=" /\ d.property = "name" /\ d.value # ""
            /\ d.variable # "" /\ kinds(d.value) # {}
            /\ \E l \in labels(d.variable) : l \notin kinds(d.value)}})

-----------------------------------------------------------------------------
(* Execute, of which result is [total, first]: how many rows run found,    *)
(* and the first column of the first of them when it is a count.           *)

IsEffectivelyZero(q, result) ==
    result.total = 0 \/ (HasAggregation(q) /\ result.first = 0)

Trims(q, result, maxRows) == ~ HasAggregation(q) /\ result.total > maxRows

Execute(q, result, symbols, edgeKinds, maxRows) ==
    [total |-> IF Trims(q, result, maxRows) THEN maxRows ELSE result.total,
     warnings |->
        UnknownProperties(q) \cup UnknownVariables(q) \cup CrossColumns(q)
        \cup UnknownEdgeKinds(q) \cup HopRanges(q) \cup UnknownOrderBy(q)
        \cup TypeMismatches(q) \cup AggregateTypes(q) \cup OrderByAggregate(q)
        \cup RepeatedVariables(q) \cup BareProperties(q) \cup MixedAggregates(q)
        \cup KindLabelTypos(q, symbols)
        \cup (IF Trims(q, result, maxRows) THEN {<<"max_rows", maxRows>>} ELSE {})
        \cup (IF IsEffectivelyZero(q, result)
              THEN EnumValues(q, symbols, edgeKinds) \cup KindLabelMismatches(q, symbols)
              ELSE {})]
=============================================================================
