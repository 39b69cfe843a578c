-------------------------- MODULE MCPackageManager --------------------------
(* Small instances of PackageManager.                                      *)
EXTENDS PackageManager

CONSTANTS i1, i2

TwoInstallers == {i1, i2}
OneLongLived == {i2}

(* A later version of "os", an MCP package without declared primitives,    *)
(* and one that is refused.                                                *)
ThreeBoxfiles ==
  { Boxfile("0.2.0", "binary", "relative", FALSE, "own", FALSE, "inside"),
    Boxfile("0.3.0", "mcp", "none", TRUE, "none", FALSE, "inside"),
    Boxfile("0.2.0", "binary", "none", FALSE, "own", FALSE, "inside") }
=============================================================================
