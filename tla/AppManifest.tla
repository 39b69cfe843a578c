----------------------------- MODULE AppManifest -----------------------------
(***************************************************************************)
(* The declaration an adapter sends with app.register, and its             *)
(* normalisation: the legacy verify_endpoint / rollback_endpoint strings   *)
(* and the structured verify / rollback objects are merged into one, and   *)
(* what contradicts itself is refused.  A JSON schema is abstracted to     *)
(* whether it passes the shape check, a primitive name to itself plus the  *)
(* fact that it lies in a reserved namespace, a verify command to "cmd".   *)
(***************************************************************************)

(* An absent string, and an absent "verify" or "rollback" object.          *)
Empty == ""
NoDecl == [strategy |-> "absent", primitive |-> Empty, command |-> Empty]

(* The refusal of a declaration.                                           *)
Refused == [strategy |-> "refused", primitive |-> Empty, command |-> Empty]

(* A declaration object with a strategy and the two fields it may carry.   *)
Decl(s, p, c) == [strategy |-> s, primitive |-> p, command |-> c]

(* The declarations that arrive with app.register.                         *)
Declaration == [strategy : STRING, primitive : STRING, command : STRING]
AppPrimitiveManifest ==
  [name : STRING, reserved : BOOLEAN, schemaOK : BOOLEAN,
   verifyEndpoint : STRING, verify : Declaration,
   rollbackEndpoint : STRING, rollback : Declaration]

(* Mutant: a structured primitive silently wins over the legacy string.    *)
MergeLegacyKeepsBoth(legacy, d) ==
  IF legacy = Empty THEN d
  ELSE IF d = NoDecl THEN Decl("primitive", legacy, Empty)
  ELSE IF d.strategy \in {Empty, "primitive"}
       THEN Decl("primitive",
                 IF d.primitive = Empty THEN legacy ELSE d.primitive, d.command)
       ELSE Refused

(* The legacy endpoint fills in a primitive strategy, agrees with it, or   *)
(* the declaration contradicts itself.                                     *)
MergeLegacy(legacy, d) ==
  IF legacy = Empty THEN d
  ELSE IF d = NoDecl THEN Decl("primitive", legacy, Empty)
  ELSE IF d.strategy \in {Empty, "primitive"} /\ d.primitive \in {Empty, legacy}
       THEN Decl("primitive", legacy, d.command)
       ELSE Refused

(* What each verify strategy must and may not carry.                       *)
NormalizeAppPrimitiveVerify(legacy, verify) ==
  LET d == MergeLegacy(legacy, verify)
  IN  IF \/ d = NoDecl
         \/ d.strategy = "primitive" /\ d.primitive # Empty /\ d.command = Empty
         \/ d.strategy = "command" /\ d.command # Empty /\ d.primitive = Empty
         \/ d.strategy = "none" /\ d.primitive = Empty /\ d.command = Empty
      THEN d ELSE Refused

(* Rollback has no command: the field is not part of the object.           *)
NormalizeAppPrimitiveRollback(legacy, rollback) ==
  LET d == MergeLegacy(legacy, [rollback EXCEPT !.command = Empty])
  IN  IF \/ d = NoDecl
         \/ d.strategy = "primitive" /\ d.primitive # Empty
         \/ d.strategy = "none" /\ d.primitive = Empty
      THEN d ELSE Refused

(* After normalisation the legacy string repeats a primitive strategy.     *)
Endpoint(legacy, d) == IF d.strategy = "primitive" THEN d.primitive ELSE legacy

(* The whole manifest: the name must not be reserved, the schemas must     *)
(* have the shape of an object, both declarations must be consistent.      *)
NormalizeAppPrimitiveManifest(m) ==
  LET v == NormalizeAppPrimitiveVerify(m.verifyEndpoint, m.verify)
      r == NormalizeAppPrimitiveRollback(m.rollbackEndpoint, m.rollback)
  IN  [m EXCEPT !.verify = v, !.verifyEndpoint = Endpoint(@, v),
                !.rollback = r, !.rollbackEndpoint = Endpoint(@, r)]

(* Register and app.register go on only with such a manifest.              *)
Acceptable(m) ==
  LET n == NormalizeAppPrimitiveManifest(m)
  IN  ~m.reserved /\ m.schemaOK /\ n.verify # Refused /\ n.rollback # Refused

=============================================================================
