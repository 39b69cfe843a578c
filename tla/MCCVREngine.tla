------------------------------ MODULE MCCVREngine ------------------------------
(* Instances of CVREngine for TLC. *)
EXTENDS CVREngine

CONSTANTS t1, t2

OneTask == {t1}
TwoTasks == {t1, t2}

AnyOutcome == {"ok", "fail", "error", "timeout"}

None == Intent("query", TRUE, "low")

BuiltIn(n, where) ==
  [name |-> n, app |-> FALSE, declared |-> None, verify |-> "undeclared",
   rollback |-> "undeclared", touches |-> where, command |-> FALSE]

AppPrim(n, d, v, r, where) ==
  [name |-> n, app |-> TRUE, declared |-> d, verify |-> v, rollback |-> r,
   touches |-> where, command |-> FALSE]

FsRead  == BuiltIn("query", {})
ShellExec == [BuiltIn("other", {"ws"}) EXCEPT !.command = TRUE]
ShellBuild == [ShellExec EXCEPT !.touches = {"ws", "ignored"}]

RiskyMutation == Intent("mutation", FALSE, "high")
MildMutation  == Intent("mutation", TRUE, "medium")
HighReversible == Intent("mutation", TRUE, "high")

(* kv.delete with a rollback primitive; the same without one; db.migrate-   *)
(* like with state.restore as its rollback; a mild one declaring "none"; an *)
(* app mutation whose name the engine takes for a query; a reversible one   *)
(* that declares no rollback.                                               *)
AppDelete   == AppPrim("other", RiskyMutation, "declared", "primitive", {"ws", "app"})
AppNoUndo   == AppPrim("other", RiskyMutation, "declared", "undeclared", {"app"})
AppRestores == AppPrim("other", HighReversible, "undeclared", "restore", {"ws", "ignored"})
AppMild     == AppPrim("other", MildMutation, "none", "none", {"app"})
AppDisguised == AppPrim("query", MildMutation, "declared", "primitive", {"app"})
AppReversible == AppPrim("other", HighReversible, "declared", "undeclared", {"ws"})

LedgerPrimitives == {FsRead, ShellExec, AppDelete, AppNoUndo, AppRestores, AppMild,
                     AppDisguised}
SharedPrimitives == {ShellBuild, AppDelete, AppReversible}
================================================================================
