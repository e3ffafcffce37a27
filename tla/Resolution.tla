----------------------------- MODULE Resolution ------------------------------
(***************************************************************************)
(* How the last part of an index pass (internal/index/indexer.go) turns    *)
(* pending edges, the names that files were seen to import, call, read and *)
(* use, into edges between symbols: resolveImports, resolveCalls,          *)
(* resolveReads, resolveUsesVar, and ReplaceEdgesByKindSource in           *)
(* internal/db/db.go, which each of them ends with.  Indexer has the pass  *)
(* around it and reduces it to one rule.                                   *)
(*                                                                         *)
(* A qualified name is a sequence of segments.  A symbol is [id, row, file,*)
(* qn, kind, type]: ids are ordered as their texts are, row is the order   *)
(* that SQL lists rows in when it is not told one, type is the type that a *)
(* Variable was seen to have, NoType otherwise.  A pending edge is [kind,  *)
(* file, from, to, type, base]: for CALLS the type of the receiver as it   *)
(* is written, or NoType; for READS and WRITES the qualified type of the   *)
(* base, or <<>>.  The LIMITs of the lookups (10, 16, 50, 200 rows) are    *)
(* not reached.                                                            *)
(***************************************************************************)
EXTENDS Integers, Sequences, FiniteSets
Seqs == INSTANCE SequencesExt

CONSTANTS
    Lang, Dir,      \* of a file: its language, its directory as segments
    Stem,           \* of a file: its name without a platform, NoStem if none
    Fixture,        \* files of a fixture corpus
    VarFile,        \* files that declare Ansible variables
    Roots,          \* the source roots of Python, a sequence of segments each
    Stdlib,         \* names of packages of Go's library
    Polymorphic,    \* names that methods of many types have
    Pointer, Bare,  \* of a type as written: with a star, without
    Foreign,        \* types of another package
    NoType, NoStem,
    External,       \* the symbol that stands for a module from outside
    Synthetic       \* the symbol that stands for a file without symbols

\* A symbol or none: sets of at most one.
Maybe(s, there) == IF there THEN {s} ELSE {}

FirstOf(options) ==
    LET found == SelectSeq(options, LAMBDA o : o # {})
    IN  IF found = <<>> THEN {} ELSE Head(found)

\* pickCanonical.
Canonical(set) == {s \in set : \A t \in set : s.id <= t.id}
\* The first row that SQL lists.
Listed(set) == {s \in set : \A t \in set : s.row <= t.row}

Name(s) == Seqs!Last(s.qn)
LangOf(s) == Lang[s.file]
IsFunc(s) == s.kind \in {"Function", "Method"}

Spelled(syms, qn) == {s \in syms : s.qn = qn}
Named(syms, n) == {s \in syms : Name(s) = n}

Ours(set) ==
    LET real == {s \in set : s.file \notin Fixture}
    IN  IF real = {} THEN set ELSE real
Code(set) == {s \in set : s.kind # "Setting"}
NotMethods(set) == {s \in set : s.kind # "Method"}

-----------------------------------------------------------------------------
(* Calls: where a call leads.                                              *)

LookupQN(syms, qn) == Canonical(Code(Spelled(syms, qn)))

Bindable(syms, n) == Code(NotMethods(Ours(Named(syms, n))))
LookupName(syms, n) == Canonical(Bindable(syms, n))

\* Mutant: whoever has the qualified name first is taken for the caller.
AnyFromQN(syms, e) == Canonical(Spelled(syms, e.from))

LookupFromQN(syms, e) ==
    LET all == Spelled(syms, e.from)
        own == {s \in all : s.file = e.file}
    IN  IF own # {} THEN Listed(own) ELSE Canonical(all)

\* What a relative import means, seen from the directory of the file.
Relative(to, file) ==
    LET dots == Cardinality({i \in DOMAIN to : \A j \in 1 .. i : to[j] = "."})
        up == Len(Dir[file]) - (dots - 1)
        path == SubSeq(Dir[file], 1, up) \o SubSeq(to, dots + 1, Len(to))
    IN  IF up < 0 \/ path = <<>> THEN <<>> ELSE <<path>>

PythonImportCandidates(to, file) ==
    IF Head(to) = "." THEN Relative(to, file)
    ELSE <<to>> \o [i \in DOMAIN Roots |-> Roots[i] \o to]

LookupPython(syms, e) ==
    FirstOf([i \in DOMAIN PythonImportCandidates(e.to, e.file) |->
                LookupQN(syms, PythonImportCandidates(e.to, e.file)[i])])

\* The methods type.name of the package, with and without the star.
MethodOf(syms, forms, pkg, n) ==
    FirstOf([i \in DOMAIN forms |-> LookupQN(syms, <<pkg, forms[i], n>>)])

ByReceiverType(syms, fields, to, type, from) ==
    LET pkg == Head(from)
        of(t) == <<Pointer[Bare[t]], Bare[t]>>
        typesOfField == {f.type : f \in {g \in fields : /\ g.struct = <<pkg, Bare[type]>>
                                                        /\ g.name = to[2]}}
    IN  IF type = NoType \/ type \in Foreign \/ Head(to) \in Stdlib THEN {}
        ELSE CASE Len(to) = 2 -> MethodOf(syms, <<type>> \o of(type), pkg, to[2])
               [] Len(to) = 3 -> UNION {MethodOf(syms, of(t), pkg, to[3]) :
                                            t \in typesOfField \ Foreign}
               [] OTHER -> {}

\* A method of a package's variable that another file declares.
BySingletonVar(syms, fields, to, from) ==
    LET vars == {s \in Spelled(syms, <<Head(from), Head(to)>>) :
                    s.kind = "Variable" /\ s.type # NoType}
    IN  IF Len(to) # 2 THEN {}
        ELSE UNION {ByReceiverType(syms, fields, to, v.type, from) : v \in Listed(vars)}

\* JavaScript and TypeScript: the class is looked up by its name.
ByReceiverTypeNonGo(syms, to, type) ==
    LET classes == {s \in Named(syms, type) : s.kind \in {"Class", "Interface"}}
    IN  IF Len(to) # 2 THEN {}
        ELSE UNION {LookupQN(syms, Append(c.qn, to[2])) : c \in Listed(classes)}

ResolveMethodByName(syms, n) ==
    LET methods == {s \in Ours(Named(syms, n)) : s.kind = "Method"}
    IN  IF Cardinality(methods) = 1 THEN methods ELSE {}

CallTarget(syms, fields, e) ==
    LET lang == Lang[e.file]
        bare == Len(e.to) = 1
        known == e.type # NoType
        loose == /\ ~bare
                 /\ ~(Len(e.to) = 2 /\ Head(e.to) \in Stdlib)
                 /\ Seqs!Last(e.to) \notin Polymorphic
    IN  FirstOf(<<
            IF lang = "Python" THEN LookupPython(syms, e) ELSE LookupQN(syms, e.to),
            IF bare THEN LookupName(syms, Head(e.to)) ELSE {},
            ByReceiverType(syms, fields, e.to, e.type, e.from),
            IF lang = "Go" /\ ~known THEN BySingletonVar(syms, fields, e.to, e.from)
            ELSE {},
            IF lang = "TypeScript" /\ known THEN ByReceiverTypeNonGo(syms, e.to, e.type)
            ELSE {},
            IF loose THEN ResolveMethodByName(syms, Seqs!Last(e.to)) ELSE {}>>)

\* Symbols of the same name in the variants of a file for other platforms.
SiblingsIn(set) ==
    {s \in set : \E c \in Canonical(set) :
        /\ s.file # c.file /\ Dir[s.file] = Dir[c.file]
        /\ Stem[s.file] # NoStem /\ Stem[s.file] = Stem[c.file]}

Siblings(syms, e) ==
    IF LookupQN(syms, e.to) # {} THEN SiblingsIn(Code(Spelled(syms, e.to)))
    ELSE IF Len(e.to) = 1 THEN SiblingsIn(Bindable(syms, Head(e.to)))
    ELSE {}

CallerOf(syms, e) ==
    FirstOf(<<LookupFromQN(syms, e),
              IF Len(e.from) = 1 THEN LookupName(syms, Head(e.from)) ELSE {}>>)

EdgesFrom(s, targets, kind, source) ==
    {[from |-> s.id, to |-> t.id, kind |-> kind, source |-> source] : t \in targets \ {s}}

CallEdges(syms, fields, e) ==
    LET found == CallTarget(syms, fields, e)
    IN  UNION {EdgesFrom(s, IF found = {s} THEN {} ELSE found \cup
                                (IF found = {} THEN {} ELSE Siblings(syms, e)),
                         "CALLS", "resolve_pass") : s \in CallerOf(syms, e)}

-----------------------------------------------------------------------------
(* Reads and writes of variables, and functions that are read as values.   *)

InLang(syms, n, lang, dir) ==
    LET known == Ours(Named(syms, n))
        near == IF dir = NoStem THEN known ELSE {s \in known : Dir[s.file] = dir}
        same == IF lang = NoStem THEN near ELSE {s \in near : LangOf(s) = lang}
        of(k) == Listed({s \in same : s.kind = k})
    IN  FirstOf(<<of("Variable"), of("Function"), of("Method")>>)

Reader(syms, e) ==
    FirstOf(<<LookupFromQN(syms, e),
              IF Len(e.from) = 1 THEN InLang(syms, Head(e.from), NoStem, NoStem) ELSE {}>>)

ReadTarget(syms, from, e) ==
    LET spelled == Canonical(Spelled(syms, e.to))
        fits == \E t \in spelled : LangOf(t) = LangOf(from)
        named == InLang(syms, Seqs!Last(e.to), LangOf(from), Dir[e.file])
    IN  IF ~fits /\ Len(e.to) = 1 /\ named # {} THEN named ELSE spelled

\* base.name is a field of a struct of the project.
IsStructFieldRead(fields, e) ==
    \E f \in fields : /\ f.name = Seqs!Last(e.to)
                      /\ \/ f.struct = e.base
                         \/ Len(e.base) = 1 /\ f.struct = <<Head(e.from)>> \o e.base

ReadEdges(syms, fields, e) ==
    UNION {UNION {
        IF LangOf(s) # LangOf(t) THEN {}
        ELSE IF IsFunc(t)
        THEN IF Seqs!Last(e.to) \in Polymorphic \/ IsStructFieldRead(fields, e) THEN {}
             ELSE EdgesFrom(s, {t}, "CALLS", "binding_pass")
        ELSE IF t.kind = "Variable" THEN EdgesFrom(s, {t}, e.kind, "resolve_pass")
        ELSE {} : t \in ReadTarget(syms, s, e)} : s \in Reader(syms, e)}

-----------------------------------------------------------------------------
(* Imports, and Ansible variables.                                         *)

ImportTarget(syms, e) ==
    LET found == IF Lang[e.file] = "Python" THEN LookupPython(syms, e)
                 ELSE Canonical(Spelled(syms, e.to))
    IN  IF found = {} THEN {External[e.to]} ELSE found

ImportEdges(syms, e) ==
    UNION {{[from |-> s.id, to |-> t.id, kind |-> "IMPORTS", source |-> "resolve_pass"] :
                t \in ImportTarget(syms, e)} : s \in Canonical(Spelled(syms, e.from))}

Declaring(syms, n) ==
    Canonical({s \in Named(syms, n) : s.kind = "Setting" /\ s.file \in VarFile})

User(syms, e) ==
    FirstOf(<<Canonical({s \in Spelled(syms, e.from) : s.kind = "Module"}),
              Canonical({s \in syms : s.file = e.file}),
              {Synthetic[e.file]}>>)

UseEdges(syms, e) ==
    UNION {{[from |-> s.id, to |-> t.id, kind |-> "USES_VAR", source |-> "resolve_pass"] :
                t \in Declaring(syms, Seqs!Last(e.to))} : s \in User(syms, e)}

-----------------------------------------------------------------------------
(* The rows.  An index is [syms, fields, pend, edges]; scope is the set of *)
(* files that an incremental pass re-binds, or Everything.                 *)

Everything == {}

Key(e) == [from |-> e.from, to |-> e.to, kind |-> e.kind]
Keys(edges) == {Key(e) : e \in edges}

\* Mutant: a scoped replacement takes the edges of all files away.
ReplaceUnscoped(ix, kind, source, scope, new) ==
    LET kept == {e \in ix.edges : ~(e.kind = kind /\ e.source = source)}
    IN  [ix EXCEPT !.edges = kept \cup {e \in new : Key(e) \notin Keys(kept)}]

\* ReplaceEdgesByKindSource; INSERT OR IGNORE keeps an edge of another source.
Replace(ix, kind, source, scope, new) ==
    LET inScope(e) == scope = Everything
                      \/ \E s \in ix.syms : s.id = e.from /\ s.file \in scope
        kept == {e \in ix.edges : ~(e.kind = kind /\ e.source = source /\ inScope(e))}
    IN  [ix EXCEPT !.edges = kept \cup {e \in new : Key(e) \notin Keys(kept)}]

Of(ix, kinds, scope) ==
    {e \in ix.pend : e.kind \in kinds /\ (scope = Everything \/ e.file \in scope)}

\* runResolve: without pending edges of a kind, a pass over everything
\* leaves that kind alone.
Skips(pending, scope) == pending = {} /\ scope = Everything

ResolveImports(ix, scope) ==
    LET pending == Of(ix, {"IMPORTS"}, scope)
        new == UNION {ImportEdges(ix.syms, e) : e \in pending}
        outside == {External[e.to] : e \in pending}
        used == {s \in outside : \E e \in new : e.to = s.id}
    IN  IF Skips(pending, scope) THEN ix
        ELSE Replace([ix EXCEPT !.syms = @ \cup used],
                     "IMPORTS", "resolve_pass", scope, new)

ResolveCalls(ix, scope) ==
    LET pending == Of(ix, {"CALLS"}, scope)
        new == UNION {CallEdges(ix.syms, ix.fields, e) : e \in pending}
    IN  IF Skips(pending, scope) THEN ix
        ELSE Replace(ix, "CALLS", "resolve_pass", scope, new)

ResolveReads(ix, scope) ==
    LET pending == Of(ix, {"READS", "WRITES"}, scope)
        new == UNION {ReadEdges(ix.syms, ix.fields, e) : e \in pending}
        with(i, kind, source) ==
            Replace(i, kind, source, scope, {e \in new : e.kind = kind})
    IN  IF Skips(pending, scope) THEN ix
        ELSE with(with(with(ix, "READS", "resolve_pass"), "WRITES", "resolve_pass"),
                  "CALLS", "binding_pass")

ResolveUsesVar(ix, scope) ==
    LET pending == Of(ix, {"USES_VAR"}, scope)
        new == UNION {UseEdges(ix.syms, e) : e \in pending}
        synth == (UNION {User(ix.syms, e) : e \in pending}) \ ix.syms
    IN  IF Skips(pending, scope) THEN ix
        ELSE Replace([ix EXCEPT !.syms = @ \cup synth],
                     "USES_VAR", "resolve_pass", scope, new)

\* An incremental pass first takes the edges of its files away of each kind
\* that none of them asks for any more.
Cleared(ix, scope) ==
    LET clear(i, kinds, kind, source) ==
            IF scope = Everything \/ Of(i, kinds, scope) # {} THEN i
            ELSE Replace(i, kind, source, scope, {})
        reads(i, kind, source) == clear(i, {"READS", "WRITES"}, kind, source)
        first == clear(clear(ix, {"IMPORTS"}, "IMPORTS", "resolve_pass"),
                       {"CALLS"}, "CALLS", "resolve_pass")
    IN  reads(reads(reads(first, "READS", "resolve_pass"), "WRITES", "resolve_pass"),
              "CALLS", "binding_pass")

ResolveAll(ix, scope) ==
    ResolveUsesVar(ResolveReads(ResolveCalls(ResolveImports(
        Cleared(ix, scope), scope), scope), scope), scope)
=============================================================================
