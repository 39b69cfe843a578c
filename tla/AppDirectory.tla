---------------------------- MODULE AppDirectory ----------------------------
(***************************************************************************)
(* What the app primitive registry promises, whatever its store: a name    *)
(* belongs to the first app that claims it, and availability is a fact     *)
(* about a whole app, changed for all its names at once.                   *)
(***************************************************************************)
CONSTANTS Apps, Names, NoApp

VARIABLES claims,   \* the app each name belongs to, or NoApp
          up        \* the apps whose primitives may be called

dirVars == <<claims, up>>

Init == /\ claims = [n \in Names |-> NoApp]
        /\ up = {}

(* An app claims a free name or one of its own; all its names are callable.*)
Claim(a, n) == /\ claims[n] \in {NoApp, a}
               /\ claims' = [claims EXCEPT ![n] = a]
               /\ up' = up \cup {a}

(* An app stops being callable, by all its names.                          *)
Withdraw(a) == /\ up' = up \ {a}
               /\ UNCHANGED claims

Next == \E a \in Apps : Withdraw(a) \/ \E n \in Names : Claim(a, n)

Spec == Init /\ [][Next]_dirVars
=============================================================================
