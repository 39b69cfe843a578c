----------------------------- MODULE MCAdapters ------------------------------
(* Small instances of the two adapters, each on its own: which is the one  *)
(* that runs.                                                              *)
EXTENDS ProcessTable, McpBridge

CONSTANTS c1, c2, c3

TwoConns == {c1, c2}
ThreeConns == {c1, c2, c3}

VARIABLE which

vars == <<which, tableVars, bridgeVars>>

Init == which \in {"os", "mcp"} /\ TableInit /\ BridgeInit

Next == \/ which = "os" /\ TableNext /\ UNCHANGED <<which, bridgeVars>>
        \/ which = "mcp" /\ BridgeNext /\ UNCHANGED <<which, tableVars>>

(* In its initial state an adapter is owed nothing: the fairness of the    *)
(* one that does not run asks nothing.                                     *)
Spec == Init /\ [][Next]_vars /\ TableFairness /\ BridgeFairness
=============================================================================
