--------------------------- MODULE MCEventStream ---------------------------
(* Small instances of EventStream.                                         *)
EXTENDS EventStream

CONSTANTS r1, s1

OneRequest == {r1}
OneSub == {s1}
=============================================================================
