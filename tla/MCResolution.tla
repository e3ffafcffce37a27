--------------------------- MODULE MCResolution ----------------------------
(* A Go package of two files, one of them in two variants, a package beside *)
(* it, a fixture, a configuration, a TypeScript and a Python file, with      *)
(* symbols of which some may be missing, and up to two pending edges.        *)
EXTENDS Resolution, TLC


Go == {"a", "b", "unix", "windows", "x", "fix"}
MCLang == [f \in Go |-> "Go"] @@ "ts" :> "TypeScript" @@ "py" :> "Python"
          @@ "cfg" :> "YAML" @@ "outside" :> "Go"
MCDir == [f \in {"a", "b", "unix", "windows"} |-> <<"p">>] @@ "x" :> <<"x">>
         @@ "fix" :> <<"testdata">> @@ "ts" :> <<"m">> @@ "py" :> <<"src">>
         @@ "cfg" :> <<"vars">> @@ "outside" :> <<"@external">>
MCStem == [f \in DOMAIN MCLang |->
             IF f \in {"unix", "windows"} THEN "web" ELSE NoStem]
MCRoots == <<<<"src">>>>
MCPointer == "T" :> "*T" @@ "S" :> "*S" @@ "C" :> "*C"
MCBare == "T" :> "T" @@ "*T" :> "T" @@ "S" :> "S" @@ "*S" :> "S" @@ "C" :> "C"

Sym(id, row, file, qn, kind, type) ==
    [id |-> id, row |-> row, file |-> file, qn |-> qn, kind |-> kind, type |-> type]
Plain(id, file, qn, kind) == Sym(id, 20 - id, file, qn, kind, NoType)

MCExternal == <<"x">> :> Plain(18, "outside", <<"x">>, "Module")
              @@ <<"os">> :> Plain(19, "outside", <<"os">>, "Module")
              @@ <<".", "mod">> :> Plain(20, "outside", <<".", "mod">>, "Module")
MCSynthetic == [f \in DOMAIN MCLang |-> Plain(17, f, <<"main">>, "Module")]

Always == {Plain(1, "a", <<"p">>, "Module"), Plain(2, "b", <<"p">>, "Module"),
           Plain(3, "a", <<"p", "Run">>, "Function"),
           Plain(8, "unix", <<"p", "Alive">>, "Function"),
           Plain(13, "ts", <<"m", "C">>, "Class"),
           Plain(14, "ts", <<"m", "C", "go">>, "Method"),
           Plain(15, "py", <<"src", "mod">>, "Module"),
           Plain(16, "py", <<"src", "mod", "f">>, "Function")}
Sometimes == {Plain(4, "b", <<"p", "Open">>, "Function"),
              Plain(5, "b", <<"p", "*T", "Close">>, "Method"),
              Sym(6, 3, "b", <<"p", "sing">>, "Variable", "*T"),
              Plain(7, "x", <<"x", "Open">>, "Function"),
              Plain(9, "windows", <<"p", "Alive">>, "Function"),
              Plain(10, "x", <<"x", "*S", "Close">>, "Method"),
              Plain(11, "cfg", <<"Open">>, "Setting"),
              Plain(12, "fix", <<"fx", "Open">>, "Function")}
MCFields == {[struct |-> <<"p", "T">>, name |-> "f", type |-> "*T"],
           [struct |-> <<"p", "T">>, name |-> "Close", type |-> "S"]}

P(kind, file, from, to, type, base) ==
    [kind |-> kind, file |-> file, from |-> from, to |-> to, type |-> type, base |-> base]
Run == <<"p", "Run">>
Wanted ==
    {P("CALLS", "a", Run, to, NoType, <<>>) :
        to \in {<<"Open">>, <<"p", "Open">>, <<"sing", "Close">>, <<"v", "Close">>,
                <<"Alive">>}}
    \cup {P("CALLS", "a", Run, <<"t", "Close">>, "T", <<>>),
          P("CALLS", "a", Run, <<"t", "f", "Close">>, "*T", <<>>),
          P("CALLS", "windows", <<"p", "Alive">>, <<"Open">>, NoType, <<>>),
          P("CALLS", "ts", <<"m", "C">>, <<"this", "go">>, "C", <<>>),
          P("CALLS", "py", <<"src", "mod">>, <<"mod", "f">>, NoType, <<>>),
          P("READS", "a", Run, <<"Open">>, NoType, <<>>),
          P("READS", "a", Run, <<"Close">>, NoType, <<"T">>),
          P("WRITES", "a", Run, <<"sing">>, NoType, <<>>),
          P("IMPORTS", "a", <<"p">>, <<"x">>, NoType, <<>>),
          P("IMPORTS", "b", <<"p">>, <<"os">>, NoType, <<>>),
          P("IMPORTS", "py", <<"src", "mod">>, <<".", "mod">>, NoType, <<>>),
          P("USES_VAR", "cfg", <<"main">>, <<"Open">>, NoType, <<>>)}

MCSymbols == Always \cup Sometimes

MCQuestion ==
    [pending : {{e, f} : e \in Wanted, f \in Wanted},
     lost : {some \in SUBSET Sometimes : Cardinality(some) <= 2} \cup {Sometimes},
     stay : BOOLEAN, scope : {{"a"}, {"unix"}, {"a", "b"}}]
=============================================================================
