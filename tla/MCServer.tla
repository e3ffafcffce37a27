------------------------------ MODULE MCServer ------------------------------
(* One query asked again and again, three calls, two projects of one name, *)
(* a Go and an HTML file that are renamed and edited.                      *)
EXTENDS Server, MCGateway, TLC

CONSTANTS ask, here, there, name, folder, title, p1, p2, p3, fn, tag, hello, bye

\* SessionStats
MCRequest == {[query |-> ask, empty |-> e, event |-> TRUE] : e \in BOOLEAN}

\* SessionProject
MCName == here :> name @@ there :> name
MCPath == folder :> here @@ title :> Unset
MCCalled == folder :> Unset @@ title :> name
MCRoots == {<<>>, <<here, there>>}
MCUndisturbed == here :> Unset @@ there :> "own"
MCRows0 == {MCUndisturbed, here :> "older" @@ there :> "newer"}

\* SymbolTable
MCWalked == <<p1, p2, p3>>
MCTrees == {p1 :> [lang |-> "Go", imports |-> TRUE, words |-> fn :> hello]
            @@ p2 :> [lang |-> "HTML", imports |-> FALSE, words |-> tag :> bye]
            @@ p3 :> NoText}
MCMirrors == {{<<p1, fn>>}}

\* Gateway and EventStream
MCUntouched == Flags(FALSE, NoPrefix, FALSE, 0)
MCFilter == "c1" :> "all" @@ "c2" :> "w1"
MCUnmoved == "w1" :> "own" @@ "w2" :> "own"
=============================================================================
