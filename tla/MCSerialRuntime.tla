---------------------------- MODULE MCSerialRuntime ----------------------------
(* Instances of SerialRuntime for TLC. *)
EXTENDS SerialRuntime

CONSTANTS c1, c2, c3

ThreeCalls == {c1, c2, c3}

Local(side) ==
  [side |-> side, remote |-> FALSE, command |-> FALSE, checkpoint |-> FALSE,
   verifier |-> FALSE, ignored |-> FALSE]

(* fs.write, repo.patch_symbol, which an adapter executes, and a shell.exec  *)
(* that writes into an ignored directory.                                    *)
WritePatchShell ==
  [c \in ThreeCalls |->
     CASE c = c1 -> Local("write")
       [] c = c2 -> [Local("write") EXCEPT !.remote = TRUE, !.checkpoint = TRUE,
                                           !.verifier = TRUE]
       [] c = c3 -> [Local("exec") EXCEPT !.command = TRUE, !.ignored = TRUE]]
================================================================================
