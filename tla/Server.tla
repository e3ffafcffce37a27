------------------------------- MODULE Server -------------------------------
(***************************************************************************)
(* The server: its counters (SessionStats), the project of a call          *)
(* (SessionProject), the symbols it looks up while passes change them      *)
(* (SymbolTable), the HTTP gateway (Gateway) and its stream of events      *)
(* (EventStream).                                                          *)
(*                                                                         *)
(* These parts have no variable in common and no step of one is waited for *)
(* by another, so what holds of each alone holds of them together, and     *)
(* each is explored while the others are at rest.                          *)
(***************************************************************************)
EXTENDS SessionStats, SessionProject, SymbolTable, Gateway, EventStream

CONSTANTS
    Undisturbed,        \* the projects table,
    Untouched,          \* the setting of the gateway, and
    Unmoved             \* the projects' binaries while the other parts run

ASSUME ServerConstantsOK ==
    /\ Undisturbed \in Rows0 /\ Untouched \in Setting
    /\ Unmoved \in [Watched -> {"own", "other", "none"}]

vars == <<statsVars, projectVars, tableVars, gatewayVars, streamVars>>

Init == StatsInit /\ ProjectInit /\ TableInit /\ GatewayInit /\ StreamInit

CountersRest == StatsInit /\ UNCHANGED statsVars
ProjectsRest == ProjectInit /\ rows = Undisturbed /\ UNCHANGED projectVars
TableRests == TableInit /\ UNCHANGED tableVars
GatewayRests == GatewayInit /\ setting = Untouched /\ UNCHANGED gatewayVars
StreamRests == StreamInit /\ binary = Unmoved /\ UNCHANGED streamVars

Next ==
    \/ /\ ProjectsRest /\ TableRests /\ GatewayRests /\ StreamRests
       /\ StatsNext
    \/ /\ CountersRest /\ TableRests /\ GatewayRests /\ StreamRests
       /\ ProjectNext
    \/ /\ CountersRest /\ ProjectsRest /\ GatewayRests /\ StreamRests
       /\ TableNext
    \/ /\ CountersRest /\ ProjectsRest /\ TableRests /\ StreamRests
       /\ GatewayNext
    \/ /\ CountersRest /\ ProjectsRest /\ TableRests /\ GatewayRests
       /\ StreamNext

Spec == Init /\ [][Next]_vars
=============================================================================
