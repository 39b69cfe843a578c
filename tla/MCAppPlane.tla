----------------------------- MODULE MCAppPlane -----------------------------
(* Small instances of AppPlane.                                            *)
EXTENDS AppPlane, TLC

CONSTANTS a1, a2, c1, c2, k1, k2

TwoApps == {a1, a2}
TwoCallers == {c1, c2}
TwoKeys == {k1, k2}
OneOfEach == [a \in TwoApps |-> IF a = a1 THEN "memory" ELSE "sqlite"]

Req(m, keys, mode, exp) == [m |-> m, keys |-> keys, mode |-> mode, exp |-> exp]

SetUpsert == Req("kv.set", <<k1>>, "upsert", 1)
Batch == Req("kv.batch_set", <<k1, k2>>, "create", 1)
Delete == Req("kv.delete", <<k1>>, "none", NoCount)
Import == Req("kv.import", <<k2>>, "replace", 1)

KVRequests == {SetUpsert, Batch, Delete, Import}

Manifest(name, ve, re, rb) ==
  [name |-> name, reserved |-> FALSE, schemaOK |-> TRUE,
   verifyEndpoint |-> ve, verify |-> NoDecl, rollbackEndpoint |-> re, rollback |-> rb]

(* Four rows of the kv adapter's manifest file.                           *)
KVManifests ==
  << Manifest("kv.set", "kv.verify", Empty, Decl("primitive", "kv.rollback_set", Empty)),
     Manifest("kv.delete", Empty, "state.restore", NoDecl),
     Manifest("kv.batch_set", "kv.verify", "state.restore", NoDecl),
     Manifest("kv.import", "kv.verify", "state.restore", NoDecl) >>

(* Callers differ in nothing but their name.                               *)
Symmetry == Permutations(TwoCallers)
=============================================================================
