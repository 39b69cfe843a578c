--------------------------- MODULE MCSandboxManager ----------------------------
(* Instances of SandboxManager for TLC. *)
EXTENDS SandboxManager, TLC

CONSTANTS a, b, c1, c2

OneSandbox == {a}
TwoSandboxes == {a, b}
OneClient == {c1}
TwoClients == {c1, c2}

Symmetry == Permutations(TwoClients)
================================================================================
