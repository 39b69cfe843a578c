--------------------------- MODULE AppPlaneProofs ---------------------------
(***************************************************************************)
(* Proofs about AppPlane: types, that all rows of an app agree, that a     *)
(* failed dial leaves the app marked, that the registry implements         *)
(* AppDirectory, that registering again changes no row, and that a call    *)
(* with the app plane to itself is all or nothing, for any apps, callers,  *)
(* keys and requests, and any manifests the assumptions admit.             *)
(***************************************************************************)
EXTENDS AppPlane, TLAPS

(* The inductive invariant.                                                *)
IInv == TypeOK /\ RowsAgree /\ FailedDialMarksApp

(* A row has the endpoints of the manifest of its name.                    *)
DeclaredRow(n, row) ==
  row.app # NoApp =>
    \E i \in 1..Len(Manifests) :
      /\ Manifests[i].name = n
      /\ row.verify = NormalizeAppPrimitiveManifest(Manifests[i]).verifyEndpoint
      /\ row.rollback = NormalizeAppPrimitiveManifest(Manifests[i]).rollbackEndpoint

RowsDeclared == \A n \in Names : DeclaredRow(n, registry[n])

(* What the router's call does to the contents the call found.             *)
First(q) == q.before[q.req.keys[1]]
Applied(q, c) == dispatch(q.req.m, q.req, q.before, Absent, First(q), c)

(* How far a call nobody interferes with has come, on contents s: up to    *)
(* the handler's answer nothing has happened, after it all of it, or       *)
(* nothing and an error; the verification changes nothing; the rollback of *)
(* a kv.set finds what the set left and puts back what the set saw, unless *)
(* its statement failed.                                                   *)
CallStage(q, s) ==
  q.stage = "call" =>
    /\ q.prev = Absent
    /\ q.pc # "answered" => s = q.before
    /\ q.pc = "half" => q.seen = First(q)

AnsweredStage(q, s, c) ==
  q.stage = "call" /\ q.pc = "answered" =>
    \/ s = Applied(q, c).store /\ q.out = Applied(q, c).out
    \/ s = q.before /\ ~q.out.ok

LaterStage(q, s, c) ==
  q.stage # "call" =>
    /\ q.pc # "refused"
    /\ q.row.verify = "kv.verify"
    /\ Applied(q, c).out.ok
    /\ q.prev = Applied(q, c).out.prev
    /\ q.stage = "verify" => s = Applied(q, c).store
    /\ q.stage = "rollback" /\ q.req.m = "kv.set" =>
         /\ q.pc # "answered" => s = Applied(q, c).store
         /\ q.pc = "half" => q.seen = s[q.req.keys[1]]
         /\ q.pc = "answered" => s = IF q.unrolled THEN Applied(q, c).store ELSE q.before

(* What the router reported agrees with the contents.                      *)
Atomic(q, s, c) ==
  /\ q.res = "ok" => s = Applied(q, c).store
  /\ q.res = "error" => s = q.before
  /\ q.res = "verify_failed" /\ q.req.m = "kv.set" =>
       s = IF q.unrolled THEN Applied(q, c).store ELSE q.before

SoleCall(q, s, up, c) ==
  /\ DeclaredRow(q.req.m, q.row) /\ q.row.app \in Apps
  /\ q.pc \in {"dial", "refused", "sent", "half", "answered", "done"}
  /\ q.pc # "done" =>
       /\ ~q.expired
       /\ q.unrolled => q.stage = "rollback" /\ q.pc = "answered"
       /\ q.pc \in {"sent", "half", "answered"} \/ q.stage # "call" => up
       /\ CallStage(q, s)
       /\ AnsweredStage(q, s, c)
       /\ LaterStage(q, s, c)
  /\ q.pc = "done" => Atomic(q, s, c)

(* A call counted as sole has the app plane to itself.                     *)
SoleInv ==
  \A c \in Callers : call[c].alone =>
    /\ late = {} /\ \A d \in Callers \ {c} : ~Active(call[d])
    /\ SoleCall(call[c], store[call[c].row.app], adapter[call[c].row.app].up, c)

-----------------------------------------------------------------------------
(* What the functions on calls return.                                     *)

(* The call nobody has made.                                               *)
LEMMA NoCallType == NoCall \in CallType
<1>1. (CHOOSE r \in Requests : TRUE) \in Requests
  BY RequestAssumption
<1>2. NoRow \in RowType
  BY DEF NoRow, RowType, Endpoints
<1>3. NoOut \in OutType
  BY DEF NoOut, OutType
<1>4. NoContents \in Contents
  BY DEF NoContents, Contents
<1> QED
  BY <1>1, <1>2, <1>3, <1>4 DEF NoCall, CallType, Stages

(* A change of a call that invents no row and no mark.                     *)
Keeps(q, p) == /\ p \in CallType
               /\ p.marked => q.marked /\ p.row = q.row
               /\ Active(p) => Active(q) /\ p.row = q.row

(* Forgetting a call that returned.                                        *)
LEMMA ForgetKeeps ==
  ASSUME NEW q \in CallType
  PROVE  Keeps(q, Forget(q))
<1>1. CASE q.pc # "done" \/ q.alone \/ q.marked
  BY <1>1, Zenon DEF Forget, Keeps
<1>2. CASE ~(q.pc # "done" \/ q.alone \/ q.marked)
  <2>1. Forget(q) = [NoCall EXCEPT !.pc = "done"]
    BY <1>2, Zenon DEF Forget
  <2>2. [NoCall EXCEPT !.pc = "done"] \in CallType
    BY NoCallType DEF CallType
  <2>3. [NoCall EXCEPT !.pc = "done"].pc = "done" /\ [NoCall EXCEPT !.pc = "done"].marked = FALSE
    BY DEF NoCall
  <2> QED
    BY <2>1, <2>2, <2>3 DEF Keeps, Active
<1> QED
  BY <1>1, <1>2

(* Keeping is transitive.                                                  *)
LEMMA KeepsTwice ==
  ASSUME NEW q, NEW p, NEW o, Keeps(q, p), Keeps(p, o)
  PROVE  Keeps(q, o)
BY Zenon DEF Keeps

(* A call that something else reached into.                                *)
LEMMA InterruptedKeeps ==
  ASSUME NEW q \in CallType
  PROVE  Keeps(q, Interrupted(q))
<1> DEFINE p == [q EXCEPT !.alone = FALSE, !.before = NoContents, !.unrolled = FALSE]
<1>1. NoContents \in Contents
  BY DEF NoContents, Contents
<1>2. p \in CallType /\ p.marked = q.marked /\ p.row = q.row /\ p.pc = q.pc
  BY <1>1 DEF CallType
<1>3. Keeps(q, p)
  BY <1>2 DEF Keeps, Active
<1> HIDE DEF p
<1>4. Keeps(p, Forget(p))
  BY <1>2, ForgetKeeps
<1>5. Interrupted(q) = Forget(p)
  BY DEF Interrupted, p
<1> QED
  BY <1>3, <1>4, <1>5, KeepsTwice

(* A call that returns.                                                    *)
LEMMA ReturnedKeeps ==
  ASSUME NEW q \in CallType, NEW res \in {"none", "ok", "error", "verify_failed"}
  PROVE  Keeps(q, Returned(q, res))
<1> DEFINE p == [q EXCEPT !.pc = "done", !.res = res, !.stage = "call", !.seen = Absent,
                          !.prev = Absent, !.out = NoOut, !.expired = FALSE]
<1>1. NoOut \in OutType
  BY DEF NoOut, OutType
<1>2. p \in CallType /\ p.marked = q.marked /\ p.row = q.row /\ p.pc = "done"
  BY <1>1 DEF CallType, Stages
<1>3. Keeps(q, p)
  BY <1>2 DEF Keeps, Active
<1> HIDE DEF p
<1>4. Keeps(p, Forget(p))
  BY <1>2, ForgetKeeps
<1>5. Returned(q, res) = Forget(p)
  BY DEF Returned, p
<1> QED
  BY <1>3, <1>4, <1>5, KeepsTwice

(* A call whose stage ends: it returns, or goes on to the next stage.      *)
LEMMA EndedKeeps ==
  ASSUME NEW q \in CallType, Active(q), NEW ok, NEW passed
  PROVE  Keeps(q, Ended(q, ok, passed))
<1>1. \A stage \in Stages : Keeps(q, [q EXCEPT !.pc = "dial", !.stage = stage])
  <2> SUFFICES ASSUME NEW stage \in Stages
               PROVE  Keeps(q, [q EXCEPT !.pc = "dial", !.stage = stage])
    OBVIOUS
  <2> DEFINE p == [q EXCEPT !.pc = "dial", !.stage = stage]
  <2>1. p \in CallType /\ p.marked = q.marked /\ p.row = q.row
    BY DEF CallType, Stages
  <2> QED
    BY <2>1 DEF Keeps
<1>2. /\ "error" \in {"none", "ok", "error", "verify_failed"}
      /\ "ok" \in {"none", "ok", "error", "verify_failed"}
      /\ "verify_failed" \in {"none", "ok", "error", "verify_failed"}
      /\ "verify" \in Stages /\ "rollback" \in Stages
  BY DEF Stages
<1>3. \/ Ended(q, ok, passed) = Returned(q, "error")
      \/ Ended(q, ok, passed) = Returned(q, "ok")
      \/ Ended(q, ok, passed) = Returned(q, "verify_failed")
      \/ Ended(q, ok, passed) = [q EXCEPT !.pc = "dial", !.stage = "verify"]
      \/ Ended(q, ok, passed) = [q EXCEPT !.pc = "dial", !.stage = "rollback"]
  <2>1. CASE q.stage = "call" /\ ~ok
    BY <2>1 DEF Ended
  <2>2. CASE q.stage = "call" /\ ok
    BY <2>2 DEF Ended
  <2>3. CASE q.stage = "verify"
    BY <2>3 DEF Ended
  <2>4. CASE q.stage = "rollback"
    BY <2>4 DEF Ended
  <2> QED
    BY <2>1, <2>2, <2>3, <2>4 DEF CallType, Stages
<1> QED
  BY <1>1, <1>2, <1>3, ReturnedKeeps

-----------------------------------------------------------------------------
(* The handlers answer with contents of the store.                         *)

AnswerType == [out : OutType, store : Contents]

(* The two shapes of an answer.                                            *)
LEMMA DoneType ==
  ASSUME NEW prev \in Values \cup {Absent}, NEW s \in Contents
  PROVE  Done(prev, s) \in AnswerType /\ Error(s) \in AnswerType
BY DEF Done, Error, NoOut, AnswerType, OutType

(* What the stores' operations make of the contents.                       *)
LEMMA StoreType ==
  ASSUME NEW s \in Contents
  PROVE  /\ \A ks \in SUBSET Keys, v \in Values : Upserted(s, ks, v) \in Contents
         /\ \A k \in Keys, seen \in Values \cup {Absent} : Deleted(s, k, seen) \in Contents
         /\ \A ks \in SUBSET Keys, v \in Values, merge \in BOOLEAN : ReplaceAll(s, ks, v, merge) \in Contents
BY DEF Contents, Upserted, Deleted, ReplaceAll

(* A request's keys.                                                       *)
LEMMA KeysType ==
  ASSUME NEW r \in Requests
  PROVE  KeysOf(r) \in SUBSET Keys /\ r.keys[1] \in Keys /\ {r.keys[1]} \in SUBSET Keys
<1>1. r.keys \in Seq(Keys) /\ Len(r.keys) > 0
  BY RequestAssumption DEF Request
<1> QED
  BY <1>1 DEF KeysOf

(* Every handler.                                                          *)
LEMMA DispatchType ==
  ASSUME NEW m, NEW r \in Requests, NEW s \in Contents,
         NEW prev \in Values \cup {Absent}, NEW seen \in Values \cup {Absent}, NEW v \in Callers
  PROVE  dispatch(m, r, s, prev, seen, v) \in AnswerType
<1>1. v \in Values /\ Absent \in Values \cup {Absent}
  BY DEF Values
<1>2. /\ KeysOf(r) \in SUBSET Keys /\ r.keys[1] \in Keys /\ {r.keys[1]} \in SUBSET Keys
      /\ (r.mode = "merge") \in BOOLEAN
  BY KeysType
<1>3. Upserted(s, KeysOf(r), v) \in Contents /\ Deleted(s, r.keys[1], seen) \in Contents
  BY <1>1, <1>2, StoreType
<1>4. ReplaceAll(s, KeysOf(r), v, r.mode = "merge") \in Contents
  BY <1>1, <1>2, StoreType
<1>5. handleSet(r, s, seen, v) \in AnswerType
  BY <1>1, <1>3, DoneType, Zenon DEF handleSet
<1>6. handleDelete(r, s, seen) \in AnswerType
  BY <1>3, DoneType DEF handleDelete
<1>7. handleBatchSet(r, s, v) \in AnswerType
  BY <1>1, <1>3, DoneType, Zenon DEF handleBatchSet
<1>8. handleImport(r, s, v) \in AnswerType
  BY <1>1, <1>4, DoneType DEF handleImport
<1>9. handleVerify(r, s) \in AnswerType
  BY DEF handleVerify, AnswerType, OutType
<1>10. handleRollbackSet(r, s, prev, seen) \in AnswerType
  <2>1. prev # Absent => Upserted(s, {r.keys[1]}, prev) \in Contents
    BY <1>2, StoreType
  <2> QED
    BY <1>1, <1>3, <2>1, DoneType, Zenon DEF handleRollbackSet
<1>11. Error(s) \in AnswerType
  BY <1>1, DoneType
<1> QED
  BY <1>5, <1>6, <1>7, <1>8, <1>9, <1>10, <1>11, Zenon DEF dispatch

(* The statement that answers a request.                                   *)
LEMMA AnswersType ==
  ASSUME NEW q, q.req \in Requests, q.prev \in Values \cup {Absent}, q.seen \in Values \cup {Absent},
         NEW s \in Contents, NEW v \in Callers
  PROVE  Answer(q, s, v) \in AnswerType
<1>1. s[q.req.keys[1]] \in Values \cup {Absent}
  BY KeysType DEF Contents
<1>2. (IF q.pc = "half" THEN q.seen ELSE s[q.req.keys[1]]) \in Values \cup {Absent}
  BY <1>1
<1> QED
  BY <1>2, DispatchType DEF Answer

-----------------------------------------------------------------------------
(* The registry.                                                           *)

(* What Register does to the rows when app a takes the name x.             *)
Taken(a, x) ==
  /\ x \in Names /\ registry[x].app \in {NoApp, a}
  /\ registry' \in [Names -> RowType]
  /\ \A y \in Names : registry'[y].app = IF y = x THEN a ELSE registry[y].app
  /\ \A y \in Names : registry'[y].app = a => registry'[y].active = TRUE
  /\ \A y \in Names : registry'[y].app # a => registry'[y] = registry[y]

(* Normalisation leaves the name alone.                                    *)
LEMMA NormalizedName ==
  ASSUME NEW m \in AppPrimitiveManifest
  PROVE  NormalizeAppPrimitiveManifest(m).name = m.name
BY DEF AppPrimitiveManifest, NormalizeAppPrimitiveManifest

(* A registration that commits takes one name.                             *)
LEMMA CommitTakes ==
  ASSUME TypeOK, NEW a \in Apps, Commits(a)
  PROVE  \E x \in Names : Taken(a, x)
<1> DEFINE i == adapter[a].next
           n == NormalizeAppPrimitiveManifest(Manifests[i])
<1>1. i \in 1..Len(Manifests)
  BY ManifestAssumption DEF TypeOK, Commits
<1>2. Manifests[i] \in AppPrimitiveManifest
  BY <1>1, ManifestAssumption
<1>3. n.name \in Names
  BY <1>1, <1>2, NormalizedName DEF Names
<1>4. n.verifyEndpoint \in Endpoints /\ n.rollbackEndpoint \in Endpoints
  BY <1>1 DEF Endpoints
<1>5. registry' = Registered(registry, a, n) /\ registry[n.name].app \in {NoApp, a}
  BY DEF Commits, Conflict
<1> HIDE DEF n, i
<1>6. registry \in [Names -> RowType]
  BY DEF TypeOK
<1> DEFINE new == [app |-> a, active |-> TRUE, verify |-> n.verifyEndpoint,
                   rollback |-> n.rollbackEndpoint]
<1>7. new \in RowType /\ new.app = a /\ new.active = TRUE
  BY <1>4 DEF RowType
<1>8. \A y \in Names : LET on == [registry[y] EXCEPT !.active = TRUE]
                       IN  on \in RowType /\ on.app = registry[y].app /\ on.active = TRUE
  BY <1>6 DEF RowType
<1>9. /\ registry' \in [Names -> RowType]
      /\ \A y \in Names : registry'[y] = IF y = n.name THEN new
           ELSE IF registry[y].app = a THEN [registry[y] EXCEPT !.active = TRUE] ELSE registry[y]
  BY <1>3, <1>5, <1>6, <1>7, <1>8 DEF Registered
<1> HIDE DEF new
<1>10. Taken(a, n.name)
  BY ZenonT(60), <1>3, <1>5, <1>7, <1>8, <1>9 DEF Taken
<1> QED
  BY <1>3, <1>10

(* What MarkUnavailable does to the rows.                                  *)
Withdrawn(a) ==
  /\ registry' \in [Names -> RowType]
  /\ \A y \in Names : registry'[y].app = registry[y].app
  /\ \A y \in Names : registry[y].app = a => registry'[y].active = FALSE
  /\ \A y \in Names : registry[y].app # a => registry'[y] = registry[y]

(* All rows of the app become unavailable.                                 *)
LEMMA MarkWithdraws ==
  ASSUME TypeOK, NEW a, registry' = Marked(registry, a)
  PROVE  Withdrawn(a)
<1>1. registry \in [Names -> RowType]
  BY DEF TypeOK
<1>2. \A y \in Names : LET off == [registry[y] EXCEPT !.active = FALSE]
                       IN  off \in RowType /\ off.app = registry[y].app /\ off.active = FALSE
  BY <1>1 DEF RowType
<1>3. \A y \in Names : registry'[y] = IF registry[y].app = a
                                      THEN [registry[y] EXCEPT !.active = FALSE] ELSE registry[y]
  BY <1>1 DEF Marked
<1>4. registry' \in [Names -> RowType]
  BY <1>1, <1>2 DEF Marked
<1> QED
  BY <1>2, <1>3, <1>4 DEF Withdrawn

(* The three things a step does to the rows.                               *)
RowStep == \/ registry' = registry
           \/ \E a \in Apps, x \in Names : Taken(a, x)
           \/ \E a \in Apps : Withdrawn(a)

(* Each of them keeps the rows of an app together.                         *)
LEMMA RowsStayAgreed ==
  ASSUME RowsAgree, RowStep
  PROVE  RowsAgree'
<1>1. CASE registry' = registry
  BY <1>1 DEF RowsAgree
<1>2. ASSUME NEW a \in Apps, NEW x \in Names, Taken(a, x) PROVE RowsAgree'
  <2> SUFFICES ASSUME NEW m \in Names, NEW n \in Names, registry'[m].app = registry'[n].app
               PROVE  registry'[m].active = registry'[n].active
    BY DEF RowsAgree
  <2>1. CASE registry'[m].app = a
    BY <1>2, <2>1, Zenon DEF Taken
  <2>2. CASE registry'[m].app # a
    <3>1. registry'[m] = registry[m] /\ registry'[n] = registry[n]
      BY <1>2, <2>2 DEF Taken
    <3> QED
      BY <3>1, Zenon DEF RowsAgree
  <2> QED
    BY <2>1, <2>2
<1>3. ASSUME NEW a \in Apps, Withdrawn(a) PROVE RowsAgree'
  <2> SUFFICES ASSUME NEW m \in Names, NEW n \in Names, registry'[m].app = registry'[n].app
               PROVE  registry'[m].active = registry'[n].active
    BY DEF RowsAgree
  <2>0. registry[m].app = registry[n].app
    BY <1>3 DEF Withdrawn
  <2>1. CASE registry[m].app = a
    BY <1>3, <2>0, <2>1, Zenon DEF Withdrawn
  <2>2. CASE registry[m].app # a
    <3>1. registry'[m] = registry[m] /\ registry'[n] = registry[n]
      BY <1>3, <2>0, <2>2 DEF Withdrawn
    <3> QED
      BY <2>0, <3>1, Zenon DEF RowsAgree
  <2> QED
    BY <2>1, <2>2
<1> QED
  BY <1>1, <1>2, <1>3 DEF RowStep

(* Each of them is a step of the directory, or none.                       *)
LEMMA RowStepRefines ==
  ASSUME TypeOK, RowStep
  PROVE  [Directory!Next]_(Directory!dirVars)
<1>0. registry \in [Names -> RowType]
  BY DEF TypeOK
<1>1. CASE registry' = registry
  BY <1>1 DEF Directory!dirVars
<1>2. ASSUME NEW a \in Apps, NEW x \in Names, Taken(a, x) PROVE Directory!Claim(a, x)
  <2>1. [n \in Names |-> registry[n].app][x] \in {NoApp, a}
    BY <1>2 DEF Taken
  <2>2. [n \in Names |-> registry'[n].app] = [[n \in Names |-> registry[n].app] EXCEPT ![x] = a]
    BY <1>2 DEF Taken
  <2>3. \A b \in Apps : (\E n \in Names : registry'[n].app = b /\ registry'[n].active)
          <=> (b = a \/ \E n \in Names : registry[n].app = b /\ registry[n].active)
    <3> SUFFICES ASSUME NEW b \in Apps
                 PROVE  (\E n \in Names : registry'[n].app = b /\ registry'[n].active)
                        <=> (b = a \/ \E n \in Names : registry[n].app = b /\ registry[n].active)
      OBVIOUS
    <3>1. CASE b = a
      BY <1>2, <3>1 DEF Taken
    <3>2. CASE b # a
      <4>1. b # NoApp
        BY AbsentAssumption
      <4>2. \A n \in Names : registry'[n].app = b <=> registry[n].app = b
        BY <1>2, <3>2, <4>1 DEF Taken
      <4> QED
        BY <1>2, <3>2, <4>2 DEF Taken
    <3> QED
      BY <3>1, <3>2
  <2> QED
    BY <2>1, <2>2, <2>3 DEF Directory!Claim
<1>3. ASSUME NEW a \in Apps, Withdrawn(a) PROVE Directory!Withdraw(a)
  <2>1. [n \in Names |-> registry'[n].app] = [n \in Names |-> registry[n].app]
    BY <1>3 DEF Withdrawn
  <2>2. \A b \in Apps : (\E n \in Names : registry'[n].app = b /\ registry'[n].active)
          <=> (b # a /\ \E n \in Names : registry[n].app = b /\ registry[n].active)
    BY <1>3 DEF Withdrawn
  <2> QED
    BY <2>1, <2>2 DEF Directory!Withdraw
<1> QED
  BY <1>1, <1>2, <1>3 DEF RowStep, Directory!Next

-----------------------------------------------------------------------------
(* What a step may do to the calls.                                        *)

CallsKept(f, g) == g \in [Callers -> CallType] /\ \A c \in Callers : Keeps(f[c], g[c])

(* The parts of the state that no property but the type is about.          *)
RestType == /\ adapter \in [Apps -> [up : BOOLEAN, next : Nat \ {0}]]
            /\ store \in [Apps -> Contents]
            /\ late \subseteq LateType
            /\ \A q \in late : q.row.app \in Apps

(* Doing nothing keeps a call.                                             *)
LEMMA KeepsItself ==
  ASSUME NEW q \in CallType
  PROVE  Keeps(q, q)
BY DEF Keeps

(* The step of one call.                                                   *)
LEMMA OneCall ==
  ASSUME TypeOK, NEW c \in Callers, NEW p, Keeps(call[c], p), call' = [call EXCEPT ![c] = p]
  PROVE  CallsKept(call, call')
<1>1. call \in [Callers -> CallType] /\ p \in CallType
  BY DEF TypeOK, Keeps
<1>2. call' \in [Callers -> CallType]
  BY <1>1
<1>3. ASSUME NEW d \in Callers PROVE Keeps(call[d], call'[d])
  <2>1. CASE d = c
    BY <1>1, <2>1
  <2>2. CASE d # c
    <3>1. call'[d] = call[d] /\ call[d] \in CallType
      BY <1>1, <2>2
    <3> QED
      BY <3>1, KeepsItself
  <2> QED
    BY <2>1, <2>2
<1> QED
  BY <1>2, <1>3 DEF CallsKept

(* Kept calls are typed.                                                   *)
LEMMA KeptTypes ==
  ASSUME TypeOK, CallsKept(call, call'), registry' \in [Names -> RowType], RestType'
  PROVE  TypeOK'
<1>1. \A c \in Callers : Active(call[c]) => call[c].row.app \in Apps
  BY DEF TypeOK
<1>2. \A c \in Callers : Active(call'[c]) => call'[c].row.app \in Apps
  BY <1>1, Zenon DEF CallsKept, Keeps
<1> QED
  BY <1>2 DEF TypeOK, CallsKept, RestType, Active

(* Nothing is registered and nothing marked.                               *)
LEMMA KeptInv ==
  ASSUME IInv, CallsKept(call, call'), registry' = registry, RestType'
  PROVE  IInv'
<1>1. TypeOK /\ RowsAgree /\ FailedDialMarksApp /\ registry' \in [Names -> RowType]
  BY DEF IInv, TypeOK
<1>2. TypeOK'
  BY <1>1, KeptTypes
<1>3. RowsAgree'
  BY <1>1, RowsStayAgreed DEF RowStep
<1>4. FailedDialMarksApp'
  <2> SUFFICES ASSUME NEW c \in Callers, call'[c].marked
               PROVE  \A n \in RowsOf(registry', call'[c].row.app) : ~registry'[n].active
    BY DEF FailedDialMarksApp
  <2>1. call[c].marked /\ call'[c].row = call[c].row
    BY Zenon DEF CallsKept, Keeps
  <2> QED
    BY <1>1, <2>1 DEF FailedDialMarksApp, RowsOf
<1> QED
  BY <1>2, <1>3, <1>4 DEF IInv

(* A registration commits: what was known of its app is forgotten.         *)
LEMMA TakenInv ==
  ASSUME IInv, CallsKept(call, call'), RestType', NEW a \in Apps, NEW x \in Names, Taken(a, x),
         \A c \in Callers : call'[c].marked => call'[c].row.app # a
  PROVE  IInv'
<1>1. TypeOK /\ RowsAgree /\ FailedDialMarksApp /\ registry' \in [Names -> RowType]
  BY DEF IInv, Taken
<1>2. TypeOK'
  BY <1>1, KeptTypes
<1>3. RowsAgree'
  BY <1>1, RowsStayAgreed DEF RowStep
<1>4. FailedDialMarksApp'
  <2> SUFFICES ASSUME NEW c \in Callers, call'[c].marked,
                      NEW n \in RowsOf(registry', call'[c].row.app)
               PROVE  ~registry'[n].active
    BY DEF FailedDialMarksApp
  <2>1. call[c].marked /\ call'[c].row = call[c].row /\ call'[c].row.app # a
    BY Zenon DEF CallsKept, Keeps
  <2>2. n \in Names /\ registry'[n].app = call[c].row.app
    BY <1>1, <2>1 DEF RowsOf
  <2>3. registry'[n] = registry[n]
    BY <2>1, <2>2 DEF Taken
  <2>4. n \in RowsOf(registry, call[c].row.app)
    BY <1>1, <2>2, <2>3 DEF RowsOf, TypeOK
  <2>5. ~registry[n].active
    BY <1>1, <2>1, <2>4, Zenon DEF FailedDialMarksApp
  <2> QED
    BY <2>3, <2>5
<1> QED
  BY <1>2, <1>3, <1>4 DEF IInv

(* Disturbed calls are kept.                                               *)
LEMMA DisturbedKeeps ==
  ASSUME NEW f \in [Callers -> CallType]
  PROVE  CallsKept(f, Disturbed(f))
<1>1. \A c \in Callers : Keeps(f[c], Interrupted(f[c])) /\ Interrupted(f[c]) \in CallType
  BY InterruptedKeeps DEF Keeps
<1> QED
  BY <1>1 DEF CallsKept, Disturbed

(* The step of a process that ends.                                        *)
LEMMA GoneKeeps ==
  ASSUME TypeOK, NEW a \in Apps, NEW f, CallsKept(call, f), AdapterGone(a, f), store' = store
  PROVE  CallsKept(call, call') /\ CallsKept(f, call') /\ RestType'
<1>1. RestType'
  <2>1. adapter' = [adapter EXCEPT ![a].up = FALSE] /\ late' = {q \in late : q.row.app # a}
    BY DEF AdapterGone
  <2>2. adapter' \in [Apps -> [up : BOOLEAN, next : Nat \ {0}]]
    BY <2>1 DEF TypeOK
  <2> QED
    BY <2>1, <2>2 DEF TypeOK, RestType
<1>2. f \in [Callers -> CallType]
  BY DEF CallsKept
<1>3. ASSUME NEW c \in Callers PROVE Keeps(f[c], call'[c])
  <2> DEFINE q == Interrupted(f[c])
             p == [q EXCEPT !.pc = IF @ \in {"sent", "half"} /\ f[c].row.app = a THEN "broken" ELSE @]
  <2>1. call'[c] = p
    BY DEF AdapterGone
  <2>2. Keeps(f[c], q) /\ q \in CallType
    BY <1>2, InterruptedKeeps DEF Keeps
  <2> HIDE DEF q
  <2>3. p \in CallType /\ p.marked = q.marked /\ p.row = q.row /\ (Active(p) => Active(q))
    BY <2>2 DEF CallType, Active
  <2>4. Keeps(q, p)
    BY <2>3 DEF Keeps
  <2> QED
    BY <2>1, <2>2, <2>4, KeepsTwice
<1>4. call' = [c \in Callers |-> call'[c]]
  BY DEF AdapterGone
<1>5. CallsKept(f, call')
  BY <1>3, <1>4 DEF CallsKept, Keeps
<1>6. CallsKept(call, call')
  <2>1. \A c \in Callers : Keeps(call[c], f[c])
    BY DEF CallsKept
  <2>2. \A c \in Callers : Keeps(call[c], call'[c])
    BY <1>3, <2>1, KeepsTwice
  <2> QED
    BY <1>5, <2>2 DEF CallsKept
<1> QED
  BY <1>1, <1>5, <1>6

(* What a registration of the app forgets.                                 *)
LEMMA ReactivatedKeeps ==
  ASSUME TypeOK, NEW a
  PROVE  /\ CallsKept(call, Reactivated(a))
         /\ \A c \in Callers : Reactivated(a)[c].marked => Reactivated(a)[c].row.app # a
<1>1. call \in [Callers -> CallType]
  BY DEF TypeOK
<1>2. ASSUME NEW c \in Callers
      PROVE  /\ Keeps(call[c], Reactivated(a)[c])
             /\ Reactivated(a)[c].marked => Reactivated(a)[c].row.app # a
  <2>1. CASE call[c].row.app = a
    <3> DEFINE q == call[c]
               p == [q EXCEPT !.marked = FALSE]
    <3>1. p \in CallType /\ p.marked = FALSE /\ p.row = q.row /\ p.pc = q.pc
      BY ZenonT(60), <1>1 DEF CallType
    <3>2. Keeps(q, p)
      BY <3>1 DEF Keeps, Active
    <3>3. Reactivated(a)[c] = Forget(p)
      BY <2>1 DEF Reactivated
    <3> HIDE DEF p
    <3>4. Keeps(p, Forget(p))
      BY <3>1, ForgetKeeps
    <3>5. ~Forget(p).marked
      BY <3>1, <3>4, Zenon DEF Keeps
    <3> QED
      BY <3>2, <3>3, <3>4, <3>5, KeepsTwice
  <2>2. CASE call[c].row.app # a
    <3>1. Reactivated(a)[c] = call[c]
      BY <2>2 DEF Reactivated
    <3> QED
      BY <1>1, <2>2, <3>1, KeepsItself
  <2> QED
    BY <2>1, <2>2
<1>3. Reactivated(a) = [c \in Callers |-> Reactivated(a)[c]]
  BY DEF Reactivated
<1> QED
  BY <1>2, <1>3 DEF CallsKept, Keeps

-----------------------------------------------------------------------------
(* The actions, one lemma each.                                            *)

(* The state at the start.                                                 *)
LEMMA InitIInv == Init => IInv
<1> SUFFICES ASSUME Init PROVE IInv
  OBVIOUS
<1>1. /\ registry = [n \in Names |-> NoRow] /\ call = [c \in Callers |-> NoCall] /\ late = {}
      /\ adapter = [a \in Apps |-> [up |-> FALSE, next |-> 1]] /\ store = [a \in Apps |-> NoContents]
  BY DEF Init
<1>2. NoRow \in RowType /\ NoCall \in CallType /\ NoContents \in Contents
  <2>1. NoRow \in RowType
    BY DEF NoRow, RowType, Endpoints
  <2> QED
    BY <2>1, NoCallType DEF NoContents, Contents
<1>3. NoCall.pc = "idle" /\ NoCall.marked = FALSE
  BY DEF NoCall
<1>4. TypeOK
  BY <1>1, <1>2, <1>3 DEF TypeOK, Active
<1>5. RowsAgree
  BY <1>1 DEF RowsAgree
<1>6. FailedDialMarksApp
  BY <1>1, <1>3 DEF FailedDialMarksApp
<1> QED
  BY <1>4, <1>5, <1>6 DEF IInv

(* An adapter starts.                                                      *)
LEMMA StartIInv ==
  ASSUME IInv, NEW a \in Apps, StartAdapter(a)
  PROVE  IInv'
<1>1. TypeOK /\ registry' = registry /\ late' = late /\ call' = Disturbed(call)
  BY DEF IInv, StartAdapter
<1>2. CallsKept(call, call')
  BY <1>1, DisturbedKeeps DEF TypeOK
<1>3. adapter' \in [Apps -> [up : BOOLEAN, next : Nat \ {0}]]
  BY <1>1 DEF StartAdapter, TypeOK
<1>4. store' \in [Apps -> Contents]
  <2>1. NoContents \in Contents
    BY DEF NoContents, Contents
  <2> QED
    BY <1>1, <2>1 DEF StartAdapter, TypeOK
<1>5. RestType'
  BY <1>1, <1>3, <1>4 DEF RestType, TypeOK
<1> QED
  BY <1>1, <1>2, <1>5, KeptInv

(* An adapter ends.                                                        *)
LEMMA StopIInv ==
  ASSUME IInv, NEW a \in Apps, AdapterGone(a, call), UNCHANGED <<registry, store>>
  PROVE  IInv'
<1>1. TypeOK /\ call \in [Callers -> CallType]
  BY DEF IInv, TypeOK
<1>2. CallsKept(call, call)
  BY <1>1, KeepsItself DEF CallsKept
<1> QED
  BY <1>1, <1>2, GoneKeeps, KeptInv

(* A registration.                                                         *)
LEMMA RegisterIInv ==
  ASSUME IInv, NEW a \in Apps, RegisterNext(a)
  PROVE  IInv'
<1>1. /\ TypeOK /\ Commits(a) /\ call' = Reactivated(a) /\ UNCHANGED <<store, late>>
      /\ adapter' = [adapter EXCEPT ![a].next = @ + 1]
  BY DEF IInv, RegisterNext
<1>2. PICK x \in Names : Taken(a, x)
  BY <1>1, CommitTakes
<1>3. CallsKept(call, call') /\ \A c \in Callers : call'[c].marked => call'[c].row.app # a
  BY <1>1, ReactivatedKeeps
<1>4. adapter' \in [Apps -> [up : BOOLEAN, next : Nat \ {0}]]
  BY <1>1 DEF TypeOK
<1>5. RestType'
  BY <1>1, <1>4 DEF RestType, TypeOK
<1> QED
  BY <1>2, <1>3, <1>5, TakenInv

(* A registration whose answer is lost: the rows are there, the process    *)
(* ends.                                                                   *)
LEMMA RegisterLostIInv ==
  ASSUME IInv, NEW a \in Apps, Commits(a), AdapterGone(a, Reactivated(a)), store' = store
  PROVE  IInv'
<1>1. TypeOK
  BY DEF IInv
<1>2. PICK x \in Names : Taken(a, x)
  BY <1>1, CommitTakes
<1>3. /\ CallsKept(call, Reactivated(a))
      /\ \A c \in Callers : Reactivated(a)[c].marked => Reactivated(a)[c].row.app # a
  BY <1>1, ReactivatedKeeps
<1>4. CallsKept(call, call') /\ CallsKept(Reactivated(a), call') /\ RestType'
  BY <1>1, <1>3, GoneKeeps
<1>5. ASSUME NEW c \in Callers, call'[c].marked PROVE call'[c].row.app # a
  <2>1. Reactivated(a)[c].marked /\ call'[c].row = Reactivated(a)[c].row
    BY <1>4, <1>5, Zenon DEF CallsKept, Keeps
  <2> QED
    BY <1>3, <2>1
<1> QED
  BY <1>2, <1>4, <1>5, TakenInv

(* Nothing but calls changes.                                              *)
LEMMA OnlyCalls ==
  ASSUME IInv, CallsKept(call, call'), UNCHANGED <<registry, adapter, store, late>>
  PROVE  IInv'
<1>1. RestType'
  BY DEF IInv, TypeOK, RestType
<1> QED
  BY <1>1, KeptInv

(* A call begins, or is refused at once.                                   *)
LEMMA RouteIInv ==
  ASSUME IInv, NEW c \in Callers, NEW r \in Requests, Route(c, r)
  PROVE  IInv'
<1> DEFINE row == IF r.m \in Names THEN registry[r.m] ELSE NoRow
           fresh == [NoCall EXCEPT !.req = r, !.row = row]
           alone == late = {} /\ \A d \in Callers \ {c} : ~Active(call[d])
           begun == [fresh EXCEPT !.pc = "dial", !.alone = alone,
                                  !.before = IF alone THEN store[row.app] ELSE @]
           p == IF row.app = NoApp \/ ~row.active THEN Returned(fresh, "error") ELSE begun
<1>1. /\ TypeOK /\ UNCHANGED <<registry, adapter, store, late>>
      /\ call' = [Disturbed(call) EXCEPT ![c] = p]
  BY DEF IInv, Route
<1>2. row \in RowType
  <2>1. NoRow \in RowType
    BY DEF NoRow, RowType, Endpoints
  <2> QED
    BY <1>1, <2>1 DEF TypeOK
<1> HIDE DEF row
<1>3. fresh \in CallType /\ fresh.pc = "idle" /\ fresh.marked = FALSE /\ fresh.row = row
  <2>1. NoCall \in CallType /\ NoCall.pc = "idle" /\ NoCall.marked = FALSE
    BY NoCallType DEF NoCall
  <2> QED
    BY <1>2, <2>1 DEF CallType
<1> HIDE DEF fresh
<1>4. p \in CallType /\ ~p.marked /\ (Active(p) => p.row.app \in Apps)
  <2>1. CASE row.app = NoApp \/ ~row.active
    <3>1. Keeps(fresh, Returned(fresh, "error")) /\ ~Active(fresh)
      BY <1>3, ReturnedKeeps DEF Active
    <3>2. p = Returned(fresh, "error")
      BY <2>1, Zenon
    <3> HIDE DEF p
    <3> QED
      BY <1>3, <3>1, <3>2, Zenon DEF Keeps
  <2>2. CASE ~(row.app = NoApp \/ ~row.active)
    <3>1. p = begun /\ row.app \in Apps
      BY <1>2, <2>2, Zenon DEF RowType
    <3>2. alone \in BOOLEAN /\ store[row.app] \in Contents
      BY <1>1, <3>1 DEF TypeOK
    <3> HIDE DEF alone
    <3>3. begun \in CallType /\ begun.marked = FALSE /\ begun.row = row
      BY <1>3, <3>2 DEF CallType
    <3> HIDE DEF begun, p
    <3> QED
      BY <3>1, <3>3
  <2> QED
    BY <2>1, <2>2
<1> HIDE DEF p
<1>5. CallsKept(call, Disturbed(call))
  BY <1>1, DisturbedKeeps DEF TypeOK
<1>6. call' \in [Callers -> CallType] /\ call'[c] = p
  BY <1>1, <1>4, <1>5 DEF CallsKept
<1>7. \A d \in Callers : d # c => Keeps(call[d], call'[d])
  BY <1>1, <1>5 DEF CallsKept
<1>8. TypeOK'
  <2>1. \A d \in Callers : Active(call'[d]) => call'[d].row.app \in Apps
    <3> SUFFICES ASSUME NEW d \in Callers, Active(call'[d]) PROVE call'[d].row.app \in Apps
      OBVIOUS
    <3>1. CASE d = c
      BY <1>4, <1>6, <3>1, Zenon
    <3>2. CASE d # c
      <4>1. Active(call[d]) /\ call'[d].row = call[d].row
        BY <1>7, <3>2, Zenon DEF Keeps
      <4> QED
        BY <1>1, <4>1, Zenon DEF TypeOK
    <3> QED
      BY <3>1, <3>2
  <2> QED
    BY <1>1, <1>6, <2>1 DEF TypeOK, Active
<1>9. RowsAgree'
  BY <1>1, RowsStayAgreed DEF RowStep, IInv
<1>10. FailedDialMarksApp'
  <2> SUFFICES ASSUME NEW d \in Callers, call'[d].marked
               PROVE  \A n \in RowsOf(registry', call'[d].row.app) : ~registry'[n].active
    BY DEF FailedDialMarksApp
  <2>1. d # c
    BY <1>4, <1>6
  <2>2. call[d].marked /\ call'[d].row = call[d].row
    BY <1>7, <2>1, Zenon DEF Keeps
  <2> QED
    BY <1>1, <2>2 DEF IInv, FailedDialMarksApp, RowsOf
<1> QED
  BY <1>8, <1>9, <1>10 DEF IInv

(* The dial succeeds, or is refused.                                       *)
LEMMA DialIInv ==
  ASSUME IInv, NEW c \in Callers, Dial(c)
  PROVE  IInv'
<1>1. TypeOK /\ call[c] \in CallType /\ call[c].pc = "dial"
  BY DEF IInv, TypeOK, Dial
<1>2. PICK at \in {"sent", "refused"} : call' = [call EXCEPT ![c].pc = at]
  <2>1. (IF adapter[call[c].row.app].up /\ ~call[c].expired THEN "sent" ELSE "refused") \in {"sent", "refused"}
    OBVIOUS
  <2> QED
    BY <2>1, Zenon DEF Dial
<1> DEFINE p == [call[c] EXCEPT !.pc = at]
<1>3. p \in CallType /\ p.marked = call[c].marked /\ p.row = call[c].row
  BY <1>1 DEF CallType
<1>4. Keeps(call[c], p)
  BY <1>1, <1>3 DEF Keeps, Active
<1> HIDE DEF p
<1>5. call' = [call EXCEPT ![c] = p]
  BY <1>2 DEF p
<1>6. CallsKept(call, call')
  BY <1>1, <1>4, <1>5, OneCall
<1> QED
  BY <1>6, OnlyCalls DEF Dial

(* A stage ends, by an answer or without one, and nothing is marked.       *)
LEMMA EndedCall ==
  ASSUME TypeOK, NEW c \in Callers, NEW q \in CallType, Active(q), Keeps(call[c], q),
         NEW ok, NEW passed, call' = [call EXCEPT ![c] = Ended(q, ok, passed)]
  PROVE  CallsKept(call, call')
<1>1. Keeps(call[c], Ended(q, ok, passed))
  BY EndedKeeps, KeepsTwice
<1> QED
  BY <1>1, OneCall

(* The mark after a failed dial fails.                                     *)
LEMMA MarkFailsIInv ==
  ASSUME IInv, NEW c \in Callers, MarkFails(c)
  PROVE  IInv'
<1>1. TypeOK /\ call[c] \in CallType /\ Active(call[c])
  BY DEF IInv, TypeOK, MarkFails, Active
<1>2. CallsKept(call, call')
  BY <1>1, KeepsItself, EndedCall DEF MarkFails
<1> QED
  BY <1>2, OnlyCalls DEF MarkFails

(* The answer is read.                                                     *)
LEMMA ReceiveIInv ==
  ASSUME IInv, NEW c \in Callers, Receive(c)
  PROVE  IInv'
<1> DEFINE q == call[c]
           ok == q.pc = "answered" /\ q.out.ok
           kept == IF q.stage = "call" /\ ok THEN [q EXCEPT !.prev = q.out.prev] ELSE q
<1>1. TypeOK /\ q \in CallType /\ Active(q)
  BY DEF IInv, TypeOK, Receive, Active
<1>2. call' = [call EXCEPT ![c] = Ended(kept, ok, q.out.passed)]
  BY DEF Receive
<1>3. [q EXCEPT !.prev = q.out.prev] \in CallType
  BY <1>1 DEF CallType, OutType
<1>4. kept \in CallType /\ kept.pc = q.pc /\ kept.row = q.row /\ kept.marked = q.marked
  BY <1>1, <1>3 DEF CallType
<1>5. Active(kept) /\ Keeps(q, kept)
  BY <1>1, <1>4 DEF Active, Keeps
<1> HIDE DEF kept, ok
<1>6. CallsKept(call, call')
  BY <1>1, <1>2, <1>4, <1>5, EndedCall
<1> QED
  BY <1>6, OnlyCalls DEF Receive

(* The deadline passes.                                                    *)
LEMMA ExpireIInv ==
  ASSUME IInv, NEW c \in Callers, Expire(c)
  PROVE  IInv'
<1> DEFINE q == Interrupted(call[c])
           p == [q EXCEPT !.expired = TRUE]
<1>1. TypeOK /\ call[c] \in CallType
  BY DEF IInv, TypeOK
<1>2. Keeps(call[c], q) /\ q \in CallType
  BY <1>1, InterruptedKeeps DEF Keeps
<1>3. call' = [call EXCEPT ![c] = p]
  BY DEF Expire
<1> HIDE DEF q
<1>4. p \in CallType /\ p.marked = q.marked /\ p.row = q.row /\ p.pc = q.pc
  BY <1>2 DEF CallType
<1>5. Keeps(q, p)
  BY <1>4 DEF Keeps, Active
<1>6. Keeps(call[c], p)
  BY <1>2, <1>5, KeepsTwice
<1> HIDE DEF p
<1>7. CallsKept(call, call')
  BY <1>1, <1>3, <1>6, OneCall
<1> QED
  BY <1>7, OnlyCalls DEF Expire

(* The router gives up on a request, which goes on in the adapter.         *)
LEMMA GiveUpIInv ==
  ASSUME IInv, NEW c \in Callers, GiveUp(c)
  PROVE  IInv'
<1> DEFINE q == call[c]
           l == [pc |-> q.pc, req |-> q.req, stage |-> q.stage,
                 row |-> q.row, seen |-> q.seen, prev |-> q.prev, by |-> c]
<1>1. TypeOK /\ q \in CallType /\ Active(q)
  BY DEF IInv, TypeOK, GiveUp, Active
<1>2. q.row.app \in Apps
  BY <1>1 DEF TypeOK
<1>3. CallsKept(call, call')
  <2> DEFINE i == Interrupted(q)
             x == [i EXCEPT !.expired = TRUE]
  <2>1. i \in CallType /\ Keeps(q, i)
    BY <1>1, InterruptedKeeps DEF Keeps
  <2>2. call' = [call EXCEPT ![c] = Ended(x, FALSE, FALSE)]
    BY DEF GiveUp
  <2>3. i.pc = q.pc
    BY <1>1, InterruptedKeeps DEF Interrupted, Forget, CallType, Active
  <2> HIDE DEF i
  <2>4. x \in CallType /\ x.marked = i.marked /\ x.row = i.row /\ x.pc = i.pc
    BY <2>1 DEF CallType
  <2>5. Active(x) /\ Keeps(i, x)
    BY <1>1, <2>3, <2>4 DEF Keeps, Active
  <2>6. Keeps(q, x)
    BY <2>1, <2>5, KeepsTwice
  <2> HIDE DEF x
  <2> QED
    BY <1>1, <2>2, <2>4, <2>5, <2>6, EndedCall
<1>4. q.pc \in {"sent", "half"} => l \in LateType /\ l.row.app \in Apps
  BY <1>1, <1>2 DEF CallType, LateType
<1>5. late' = IF q.pc \in {"sent", "half"} THEN late \cup {l} ELSE late
  BY DEF GiveUp
<1> HIDE DEF l
<1>6. RestType'
  BY <1>1, <1>4, <1>5 DEF RestType, TypeOK, GiveUp
<1> QED
  BY <1>3, <1>6, KeptInv DEF GiveUp

(* A failed dial marks the app.                                            *)
LEMMA MarkIInv ==
  ASSUME IInv, NEW c \in Callers, MarkUnavailable(c)
  PROVE  IInv' /\ RowStep
<1> DEFINE q == call[c]
           p == [q EXCEPT !.marked = ~q.expired]
           e == Ended(p, FALSE, FALSE)
<1>1. /\ TypeOK /\ q \in CallType /\ Active(q) /\ q.row.app \in Apps
      /\ UNCHANGED <<adapter, store, late>> /\ call' = [call EXCEPT ![c] = e]
  <2>1. q.pc = "refused" /\ UNCHANGED <<adapter, store, late>> /\ call' = [call EXCEPT ![c] = e]
    BY DEF MarkUnavailable
  <2>2. TypeOK /\ q \in CallType /\ Active(q)
    BY <2>1 DEF IInv, TypeOK, Active
  <2> QED
    BY <2>1, <2>2 DEF TypeOK
<1>2. RestType'
  BY <1>1 DEF RestType, TypeOK
<1>3. p \in CallType /\ p.row = q.row /\ p.pc = q.pc
  BY <1>1 DEF CallType
<1>4. Keeps(p, e)
  BY <1>1, <1>3, EndedKeeps DEF Active
<1>5. CASE q.expired
  <2>1. p.marked = FALSE
    BY <1>1, <1>5 DEF CallType
  <2> HIDE DEF p
  <2>2. Keeps(q, e)
    BY <1>1, <1>3, <1>4, <2>1, Zenon DEF Keeps
  <2>3. registry' = registry
    BY <1>5 DEF MarkUnavailable
  <2> HIDE DEF e
  <2>4. CallsKept(call, call')
    BY <1>1, <2>2, OneCall
  <2> QED
    BY <1>2, <2>3, <2>4, KeptInv DEF RowStep
<1>6. CASE ~q.expired
  <2>1. Withdrawn(q.row.app)
    BY <1>1, <1>6, MarkWithdraws DEF MarkUnavailable
  <2> HIDE DEF p
  <2>2. e \in CallType /\ (e.marked => e.row = q.row) /\ (Active(e) => e.row = q.row)
    BY <1>3, <1>4, Zenon DEF Keeps
  <2> HIDE DEF e
  <2>3. /\ call' \in [Callers -> CallType] /\ call'[c] = e
        /\ \A d \in Callers : d # c => call'[d] = call[d]
    BY <1>1, <2>2 DEF TypeOK
  <2>4. \A d \in Callers : call'[d].marked =>
          call'[d].row.app = q.row.app \/ (call[d].marked /\ call'[d].row = call[d].row)
    BY <2>2, <2>3
  <2>5. TypeOK'
    <3>1. \A d \in Callers : Active(call'[d]) => call'[d].row.app \in Apps
      BY <1>1, <2>2, <2>3 DEF TypeOK
    <3> QED
      BY <1>2, <2>1, <2>3, <3>1 DEF TypeOK, Withdrawn, RestType, Active
  <2>6. RowStep
    BY <1>1, <2>1 DEF RowStep
  <2>7. RowsAgree'
    BY <2>6, RowsStayAgreed DEF IInv
  <2>8. FailedDialMarksApp'
    <3> SUFFICES ASSUME NEW d \in Callers, call'[d].marked,
                        NEW n \in RowsOf(registry', call'[d].row.app)
                 PROVE  ~registry'[n].active
      BY DEF FailedDialMarksApp
    <3>1. n \in Names /\ registry'[n].app = call'[d].row.app /\ registry'[n].app = registry[n].app
      BY <2>1 DEF RowsOf, Withdrawn
    <3>2. CASE registry[n].app = q.row.app
      BY <2>1, <3>1, <3>2 DEF Withdrawn
    <3>3. CASE registry[n].app # q.row.app
      <4>1. call[d].marked /\ call'[d].row = call[d].row
        BY <2>4, <3>1, <3>3
      <4>2. registry'[n] = registry[n]
        BY <2>1, <3>1, <3>3 DEF Withdrawn
      <4>3. n \in RowsOf(registry, call[d].row.app)
        BY <1>1, <3>1, <4>1 DEF RowsOf, TypeOK
      <4>4. ~registry[n].active
        BY <4>1, <4>3, Zenon DEF IInv, FailedDialMarksApp
      <4> QED
        BY <4>2, <4>4
    <3> QED
      BY <3>2, <3>3
  <2> QED
    BY <2>5, <2>6, <2>7, <2>8 DEF IInv
<1> QED
  BY <1>5, <1>6

(* The handler reads.                                                      *)
LEMMA HandleReadIInv ==
  ASSUME IInv, NEW c \in Callers, HandleRead(c)
  PROVE  IInv'
<1> DEFINE q == call[c]
           v == store[q.row.app][q.req.keys[1]]
           p == [q EXCEPT !.pc = "half", !.seen = v]
<1>1. TypeOK /\ q \in CallType /\ q.pc = "sent" /\ UNCHANGED <<registry, adapter, store, late>>
  BY DEF IInv, TypeOK, HandleRead
<1>2. Active(q)
  BY <1>1 DEF Active
<1>3. store[q.row.app] \in Contents /\ q.req \in Requests
  BY <1>1, <1>2 DEF TypeOK, CallType
<1>4. v \in Values \cup {Absent}
  BY <1>3, KeysType DEF Contents
<1>5. call' = [call EXCEPT ![c] = p]
  BY <1>1 DEF HandleRead, TypeOK
<1> HIDE DEF v
<1>6. p \in CallType /\ p.marked = q.marked /\ p.row = q.row
  BY <1>1, <1>4 DEF CallType
<1>7. Keeps(q, p)
  BY <1>2, <1>6 DEF Keeps
<1> HIDE DEF p
<1>8. CallsKept(call, call')
  BY <1>1, <1>5, <1>7, OneCall
<1> QED
  BY <1>1, <1>8, OnlyCalls

(* The handler answers.                                                    *)
LEMMA HandleIInv ==
  ASSUME IInv, NEW c \in Callers, Handle(c)
  PROVE  IInv'
<1> DEFINE q == call[c]
           ans == Answer(q, store[q.row.app], c)
           p == [q EXCEPT !.pc = "answered", !.out = ans.out]
<1>1. /\ TypeOK /\ q \in CallType /\ q.pc \in {"sent", "half"} /\ UNCHANGED <<registry, adapter, late>>
      /\ store' = [store EXCEPT ![q.row.app] = ans.store]
      /\ call' = [call EXCEPT ![c].pc = "answered", ![c].out = ans.out]
  BY DEF IInv, TypeOK, Handle
<1>2. Active(q)
  BY <1>1 DEF Active
<1>3. /\ store[q.row.app] \in Contents /\ q.req \in Requests
      /\ q.prev \in Values \cup {Absent} /\ q.seen \in Values \cup {Absent}
  BY <1>1, <1>2 DEF TypeOK, CallType
<1>4. ans \in AnswerType
  BY <1>3, AnswersType
<1> HIDE DEF ans
<1>5. ans.out \in OutType /\ ans.store \in Contents
  BY <1>4 DEF AnswerType
<1>6. call' = [call EXCEPT ![c] = p]
  BY <1>1 DEF TypeOK
<1>7. p \in CallType /\ p.marked = q.marked /\ p.row = q.row
  BY <1>1, <1>5 DEF CallType
<1>8. Keeps(q, p)
  BY <1>2, <1>7 DEF Keeps
<1> HIDE DEF p
<1>9. CallsKept(call, call')
  BY <1>1, <1>6, <1>8, OneCall
<1>10. store' \in [Apps -> Contents]
  BY <1>1, <1>5 DEF TypeOK
<1>11. RestType'
  BY <1>1, <1>10 DEF RestType, TypeOK
<1> QED
  BY <1>1, <1>9, <1>11, KeptInv

(* A statement of the handler fails and it answers the error.              *)
LEMMA StoreFailsIInv ==
  ASSUME IInv, NEW c \in Callers, StoreFails(c)
  PROVE  IInv'
<1> DEFINE q == call[c]
           lost == q.alone /\ q.stage = "rollback"
           p == [q EXCEPT !.pc = "answered", !.out = NoOut, !.unrolled = lost]
<1>1. /\ TypeOK /\ q \in CallType /\ q.pc \in {"sent", "half"}
      /\ UNCHANGED <<registry, adapter, store, late>>
      /\ call \in [Callers -> CallType]
      /\ call' = [call EXCEPT ![c].pc = "answered", ![c].out = NoOut, ![c].unrolled = lost]
  BY DEF IInv, TypeOK, StoreFails
<1>2. Active(q) /\ NoOut \in OutType /\ lost \in BOOLEAN
  BY <1>1 DEF Active, NoOut, OutType
<1> HIDE DEF lost
<1>3. call' = [call EXCEPT ![c] = p]
  BY <1>1
<1>4. p \in CallType /\ p.marked = q.marked /\ p.row = q.row
  BY <1>1, <1>2 DEF CallType
<1>5. Keeps(q, p)
  BY <1>2, <1>4 DEF Keeps
<1> HIDE DEF p
<1>6. CallsKept(call, call')
  BY <1>1, <1>3, <1>5, OneCall
<1> QED
  BY <1>1, <1>6, OnlyCalls

(* The handler of a request nobody waits for meets an error.               *)
LEMMA LateFailsIInv ==
  ASSUME IInv, NEW q \in late, LateFails(q)
  PROVE  IInv'
<1>1. TypeOK /\ late' \subseteq late /\ UNCHANGED <<registry, adapter, store, call>>
  BY DEF IInv, LateFails
<1>2. RestType'
  BY <1>1 DEF RestType, TypeOK
<1>3. CallsKept(call, call')
  BY <1>1, KeepsItself DEF CallsKept, TypeOK
<1> QED
  BY <1>1, <1>2, <1>3, KeptInv

(* The handler of a request nobody waits for reads.                        *)
LEMMA LateReadIInv ==
  ASSUME IInv, NEW q \in late, LateRead(q)
  PROVE  IInv'
<1> DEFINE v == store[q.row.app][q.req.keys[1]]
           p == [q EXCEPT !.pc = "half", !.seen = v]
<1>1. /\ TypeOK /\ q \in LateType /\ q.row.app \in Apps /\ late' = (late \ {q}) \cup {p}
      /\ UNCHANGED <<registry, adapter, store, call>>
  BY DEF IInv, TypeOK, LateRead
<1>2. v \in Values \cup {Absent}
  <2>1. store[q.row.app] \in Contents /\ q.req \in Requests
    BY <1>1 DEF TypeOK, LateType
  <2> QED
    BY <2>1, KeysType DEF Contents
<1> HIDE DEF v
<1>3. p \in LateType /\ p.row = q.row
  BY <1>1, <1>2 DEF LateType
<1> HIDE DEF p
<1>4. RestType'
  BY <1>1, <1>3 DEF RestType, TypeOK
<1>5. CallsKept(call, call')
  BY <1>1, KeepsItself DEF CallsKept, TypeOK
<1> QED
  BY <1>1, <1>4, <1>5, KeptInv

(* It answers, to nobody.                                                  *)
LEMMA LateHandleIInv ==
  ASSUME IInv, NEW q \in late, LateHandle(q)
  PROVE  IInv'
<1> DEFINE ans == Answer(q, store[q.row.app], q.by)
<1>1. /\ TypeOK /\ q \in LateType /\ q.row.app \in Apps /\ late' = late \ {q}
      /\ UNCHANGED <<registry, adapter>> /\ call' = Disturbed(call)
  BY DEF IInv, TypeOK, LateHandle
<1>2. store' = [store EXCEPT ![q.row.app] = ans.store]
  BY <1>1 DEF LateHandle, TypeOK
<1>3. /\ store[q.row.app] \in Contents /\ q.req \in Requests /\ q.by \in Callers
      /\ q.prev \in Values \cup {Absent} /\ q.seen \in Values \cup {Absent}
  BY <1>1 DEF TypeOK, LateType
<1>4. ans \in AnswerType
  BY <1>3, AnswersType
<1> HIDE DEF ans
<1>5. store' \in [Apps -> Contents]
  BY <1>1, <1>2, <1>4 DEF TypeOK, AnswerType
<1>6. RestType'
  BY <1>1, <1>5 DEF RestType, TypeOK
<1>7. CallsKept(call, call')
  BY <1>1, DisturbedKeeps DEF TypeOK
<1> QED
  BY <1>1, <1>6, <1>7, KeptInv

(* Every step preserves the invariant, and does one of three things to the *)
(* rows.                                                                   *)
LEMMA NextIInv == IInv /\ [Next]_vars => IInv' /\ RowStep
<1> SUFFICES ASSUME IInv, [Next]_vars PROVE IInv' /\ RowStep
  OBVIOUS
<1>0. TypeOK
  BY DEF IInv
<1>1. ASSUME NEW a \in Apps, AdapterStep(a) PROVE IInv' /\ RowStep
  <2>1. CASE StartAdapter(a)
    BY <2>1, StartIInv DEF StartAdapter, RowStep
  <2>2. CASE StopAdapter(a)
    BY <2>2, StopIInv DEF StopAdapter, RowStep
  <2>3. CASE RegisterNext(a)
    BY <1>0, <2>3, RegisterIInv, CommitTakes DEF RegisterNext, RowStep
  <2>4. CASE RegisterFails(a)
    <3>1. CASE AdapterGone(a, call) /\ UNCHANGED registry
      BY <2>4, <3>1, StopIInv DEF RegisterFails, RowStep
    <3>2. CASE Commits(a) /\ AdapterGone(a, Reactivated(a))
      BY <1>0, <2>4, <3>2, RegisterLostIInv, CommitTakes DEF RegisterFails, RowStep
    <3> QED
      BY <2>4, <3>1, <3>2 DEF RegisterFails
  <2> QED
    BY <1>1, <2>1, <2>2, <2>3, <2>4 DEF AdapterStep
<1>2. ASSUME NEW c \in Callers, RouterStep(c) \/ HandlerStep(c) PROVE IInv' /\ RowStep
  <2>1. CASE MarkUnavailable(c)
    BY <2>1, MarkIInv
  <2>2. CASE \/ Dial(c) \/ MarkFails(c) \/ Receive(c) \/ Expire(c) \/ GiveUp(c)
             \/ HandleRead(c) \/ Handle(c) \/ StoreFails(c)
    <3>1. IInv'
      BY <2>2, DialIInv, MarkFailsIInv, ReceiveIInv, ExpireIInv, GiveUpIInv, HandleReadIInv, HandleIInv,
         StoreFailsIInv
    <3>2. registry' = registry
      BY <2>2, Zenon DEF Dial, MarkFails, Receive, Expire, GiveUp, HandleRead, Handle, StoreFails
    <3> QED
      BY <3>1, <3>2 DEF RowStep
  <2> QED
    BY <1>2, <2>1, <2>2 DEF RouterStep, HandlerStep
<1>3. ASSUME NEW c \in Callers, NEW r \in Requests, Route(c, r) PROVE IInv' /\ RowStep
  BY <1>3, RouteIInv DEF Route, RowStep
<1>4. ASSUME NEW q \in late, LateRead(q) \/ LateHandle(q) \/ LateFails(q) PROVE IInv' /\ RowStep
  BY <1>4, LateReadIInv, LateHandleIInv, LateFailsIInv DEF LateRead, LateHandle, LateFails, RowStep
<1>5. CASE UNCHANGED vars
  <2>1. UNCHANGED <<registry, adapter, store, late, call>>
    BY <1>5 DEF vars
  <2>2. CallsKept(call, call')
    BY <1>0, <2>1, KeepsItself DEF CallsKept, TypeOK
  <2> QED
    BY <2>1, <2>2, OnlyCalls DEF RowStep
<1> QED
  BY <1>1, <1>2, <1>3, <1>4, <1>5 DEF Next

(* The inductive invariant holds in every reachable state.                 *)
LEMMA SpecIInv == Spec => []IInv
<1>1. IInv /\ [Next]_vars => IInv'
  BY NextIInv
<1> QED
  BY InitIInv, <1>1, PTL DEF Spec

-----------------------------------------------------------------------------
(* Normalisation.                                                          *)

(* A declaration with a known strategy is neither absent nor refused.      *)
LEMMA KnownStrategy ==
  ASSUME NEW d, d.strategy \in {"primitive", "command", "none"}
  PROVE  d # NoDecl /\ d # Refused
<1>1. NoDecl.strategy = "absent" /\ Refused.strategy = "refused"
  BY DEF NoDecl, Refused
<1> QED
  BY <1>1

(* Normalising a declaration: a legacy endpoint that was given is kept,    *)
(* and what was accepted is accepted again and unchanged.                  *)
LEMMA VerifyIdempotent ==
  ASSUME NEW S, NEW P, NEW C, NEW e,
         NEW d \in [strategy : S, primitive : P, command : C],
         NormalizeAppPrimitiveVerify(e, d) # Refused
  PROVE  LET v == NormalizeAppPrimitiveVerify(e, d)
         IN  /\ NormalizeAppPrimitiveVerify(Endpoint(e, v), v) = v
             /\ e # Empty => Endpoint(e, v) = e
<1> DEFINE m == MergeLegacy(e, d)
           v == NormalizeAppPrimitiveVerify(e, d)
<1>0. d \in [strategy : S, primitive : P, command : C]
  OBVIOUS
<1>1. v = m
  BY DEF NormalizeAppPrimitiveVerify
<1>2. \/ m = NoDecl
      \/ m.strategy = "primitive" /\ m.primitive # Empty /\ m.command = Empty
      \/ m.strategy = "command" /\ m.command # Empty /\ m.primitive = Empty
      \/ m.strategy = "none" /\ m.primitive = Empty /\ m.command = Empty
  BY DEF NormalizeAppPrimitiveVerify
<1>3. CASE e = Empty
  <2>1. m = d
    BY <1>3 DEF MergeLegacy
  <2>2. CASE d.strategy = "primitive"
    <3>0. d # NoDecl
      BY <2>2, KnownStrategy
    <3>1. Endpoint(e, d) = d.primitive /\ d.primitive # Empty /\ d.command = Empty
      <4>1. Endpoint(e, d) = d.primitive
        BY <2>2 DEF Endpoint
      <4>2. d.primitive # Empty /\ d.command = Empty
        BY <1>0, <1>2, <2>1, <2>2, <3>0
      <4> QED
        BY <4>1, <4>2
    <3>2. MergeLegacy(d.primitive, d) = Decl("primitive", d.primitive, d.command)
      BY <2>2, <3>0, <3>1 DEF MergeLegacy
    <3>3. Decl("primitive", d.primitive, d.command) = d
      BY <2>2 DEF Decl
    <3>4. NormalizeAppPrimitiveVerify(d.primitive, d) = d
      BY <2>2, <3>1, <3>2, <3>3 DEF NormalizeAppPrimitiveVerify
    <3> QED
      BY <1>1, <1>3, <2>1, <3>1, <3>4
  <2>3. CASE d.strategy # "primitive"
    <3>1. Endpoint(e, d) = e
      BY <2>3 DEF Endpoint
    <3> QED
      BY <1>1, <1>3, <2>1, <3>1
  <2> QED
    BY <2>2, <2>3
<1>4. CASE e # Empty
  <2>1. m = Refused \/ \E c : m = Decl("primitive", e, c)
    BY <1>4 DEF MergeLegacy
  <2>2. PICK c : m = Decl("primitive", e, c)
    BY <1>1, <2>1
  <2>3. c = Empty /\ Endpoint(e, m) = e
    <3>1. m.strategy = "primitive" /\ m.primitive = e /\ m.command = c
      BY <2>2 DEF Decl
    <3>2. m # NoDecl
      BY <3>1, KnownStrategy
    <3>3. m.command = Empty
      BY <1>2, <3>1, <3>2
    <3> QED
      BY <3>1, <3>3 DEF Endpoint
  <2>4. MergeLegacy(e, m) = m
    <3>1. m.strategy = "primitive" /\ m.primitive = e /\ m.command = Empty
      BY <2>2, <2>3 DEF Decl
    <3>2. m # NoDecl
      BY <3>1, KnownStrategy
    <3>3. MergeLegacy(e, m) = Decl("primitive", e, Empty)
      <4> HIDE DEF m
      <4> QED
        BY <1>4, <3>1, <3>2 DEF MergeLegacy
    <3> QED
      BY <2>2, <2>3, <3>3
  <2>5. NormalizeAppPrimitiveVerify(e, m) = m
    BY <1>2, <2>4 DEF NormalizeAppPrimitiveVerify
  <2> QED
    BY <1>1, <2>3, <2>5
<1> QED
  BY <1>3, <1>4

(* The same of a rollback declaration, which has no command.               *)
LEMMA RollbackIdempotent ==
  ASSUME NEW S, NEW P, NEW C, NEW e,
         NEW d \in [strategy : S, primitive : P, command : C],
         NormalizeAppPrimitiveRollback(e, d) # Refused
  PROVE  LET r == NormalizeAppPrimitiveRollback(e, d)
         IN  /\ NormalizeAppPrimitiveRollback(Endpoint(e, r), r) = r
             /\ e # Empty => Endpoint(e, r) = e
<1> DEFINE b == [d EXCEPT !.command = Empty]
           m == MergeLegacy(e, b)
           r == NormalizeAppPrimitiveRollback(e, d)
<1>0. b \in [strategy : S, primitive : P, command : {Empty}]
  OBVIOUS
<1>1. r = m
  BY DEF NormalizeAppPrimitiveRollback
<1>2. \/ m = NoDecl
      \/ m.strategy = "primitive" /\ m.primitive # Empty
      \/ m.strategy = "none" /\ m.primitive = Empty
  BY DEF NormalizeAppPrimitiveRollback
<1> HIDE DEF b
<1>3. CASE e = Empty
  <2>1. m = b /\ [b EXCEPT !.command = Empty] = b
    BY <1>0, <1>3 DEF MergeLegacy
  <2>2. CASE b.strategy = "primitive"
    <3>0. b # NoDecl
      BY <2>2, KnownStrategy
    <3>1. Endpoint(e, b) = b.primitive /\ b.primitive # Empty /\ b.command = Empty
      <4>1. Endpoint(e, b) = b.primitive
        BY <2>2 DEF Endpoint
      <4>2. b.primitive # Empty /\ b.command = Empty
        BY <1>0, <1>2, <2>1, <2>2, <3>0
      <4> QED
        BY <4>1, <4>2
    <3>2. MergeLegacy(b.primitive, b) = Decl("primitive", b.primitive, b.command)
      BY <2>2, <3>0, <3>1 DEF MergeLegacy
    <3>3. Decl("primitive", b.primitive, b.command) = b
      BY <1>0, <2>2 DEF Decl
    <3>4. NormalizeAppPrimitiveRollback(b.primitive, b) = b
      BY <2>1, <2>2, <3>1, <3>2, <3>3 DEF NormalizeAppPrimitiveRollback
    <3> QED
      BY <1>1, <1>3, <2>1, <3>1, <3>4
  <2>3. CASE b.strategy # "primitive"
    <3>1. Endpoint(e, b) = e
      BY <2>3 DEF Endpoint
    <3>2. NormalizeAppPrimitiveRollback(e, b) = NormalizeAppPrimitiveRollback(e, d)
      BY <2>1 DEF NormalizeAppPrimitiveRollback, b
    <3> QED
      BY <1>1, <1>3, <2>1, <3>1, <3>2
  <2> QED
    BY <2>2, <2>3
<1>4. CASE e # Empty
  <2>1. m = Refused \/ \E c \in {Empty} : m = Decl("primitive", e, c)
    BY <1>0, <1>4 DEF MergeLegacy
  <2>2. m = Decl("primitive", e, Empty)
    BY <1>1, <2>1
  <2>3. Endpoint(e, m) = e /\ [m EXCEPT !.command = Empty] = m
    BY <2>2 DEF Decl, Endpoint
  <2>4. MergeLegacy(e, m) = m
    <3>1. m.strategy = "primitive" /\ m.primitive = e /\ m.command = Empty
      BY <2>2 DEF Decl
    <3>2. m # NoDecl
      BY <3>1, KnownStrategy
    <3>3. MergeLegacy(e, m) = Decl("primitive", e, Empty)
      <4> HIDE DEF m
      <4> QED
        BY <1>4, <3>1, <3>2 DEF MergeLegacy
    <3> QED
      BY <2>2, <3>3
  <2>5. NormalizeAppPrimitiveRollback(e, m) = m
    BY <1>2, <2>3, <2>4 DEF NormalizeAppPrimitiveRollback
  <2> QED
    BY <1>1, <2>3, <2>5
<1> QED
  BY <1>3, <1>4

(* Normalisation is stable on the declarations the runs enumerate.         *)
LEMMA DeclarationsStable == NormalizeIdempotent
<1> DEFINE Strings == {Empty, "p", "q"}
           Decls == {NoDecl} \cup {Decl(s, p, c) : s \in {Empty, "primitive", "command", "none", "x"},
                                     p \in Strings, c \in {Empty, "cmd"}}
           S == {"absent", Empty, "primitive", "command", "none", "x"}
           C == {Empty, "cmd"}
<1>1. \A d \in Decls : d \in [strategy : S, primitive : Strings, command : C]
  BY DEF Decl, NoDecl
<1> HIDE DEF S, C
<1> SUFFICES ASSUME NEW e \in Strings, NEW d \in Decls
             PROVE  LET v == NormalizeAppPrimitiveVerify(e, d)
                        r == NormalizeAppPrimitiveRollback(e, d)
                    IN  /\ v # Refused => /\ NormalizeAppPrimitiveVerify(Endpoint(e, v), v) = v
                                          /\ e # Empty => Endpoint(e, v) = e
                        /\ r # Refused => /\ NormalizeAppPrimitiveRollback(Endpoint(e, r), r) = r
                                          /\ e # Empty => Endpoint(e, r) = e
  BY DEF NormalizeIdempotent
<1> HIDE DEF Strings, Decls
<1>2. d \in [strategy : S, primitive : Strings, command : C]
  BY <1>1
<1> QED
  BY <1>2, VerifyIdempotent, RollbackIdempotent

(* Nothing but a registration writes endpoints, and it writes those of the *)
(* manifest.                                                               *)
LEMMA CommitDeclares ==
  ASSUME TypeOK, RowsDeclared, NEW a \in Apps, Commits(a)
  PROVE  RowsDeclared'
<1> DEFINE i == adapter[a].next
           n == NormalizeAppPrimitiveManifest(Manifests[i])
<1>1. i \in 1..Len(Manifests)
  BY ManifestAssumption DEF TypeOK, Commits
<1>2. Manifests[i] \in AppPrimitiveManifest
  BY <1>1, ManifestAssumption
<1>3. n.name = Manifests[i].name
  BY <1>2, NormalizedName
<1>4. registry' = Registered(registry, a, n) /\ registry \in [Names -> RowType]
  BY DEF Commits, TypeOK
<1> SUFFICES ASSUME NEW x \in Names PROVE DeclaredRow(x, registry'[x])
  BY DEF RowsDeclared
<1>5. DeclaredRow(x, registry[x]) /\ registry[x] \in RowType
  BY <1>4 DEF RowsDeclared
<1>6. CASE x = n.name
  <2>1. registry'[x].verify = n.verifyEndpoint /\ registry'[x].rollback = n.rollbackEndpoint
    BY <1>4, <1>6 DEF Registered
  <2> QED
    BY <1>1, <1>3, <1>6, <2>1 DEF DeclaredRow
<1>7. CASE x # n.name
  <2> HIDE DEF n
  <2>1. registry'[x] = IF registry[x].app = a THEN [registry[x] EXCEPT !.active = TRUE] ELSE registry[x]
    BY <1>4, <1>7 DEF Registered
  <2>2. /\ registry'[x].app = registry[x].app /\ registry'[x].verify = registry[x].verify
        /\ registry'[x].rollback = registry[x].rollback
    BY <1>5, <2>1 DEF RowType
  <2> QED
    BY <1>5, <2>2 DEF DeclaredRow
<1> QED
  BY <1>6, <1>7

(* MarkUnavailable leaves the endpoints alone.                             *)
LEMMA MarkDeclares ==
  ASSUME TypeOK, RowsDeclared, NEW a, registry' = Marked(registry, a)
  PROVE  RowsDeclared'
<1> SUFFICES ASSUME NEW x \in Names PROVE DeclaredRow(x, registry'[x])
  BY DEF RowsDeclared
<1>1. DeclaredRow(x, registry[x]) /\ registry[x] \in RowType
  BY DEF RowsDeclared, TypeOK
<1>2. registry'[x] = IF registry[x].app = a THEN [registry[x] EXCEPT !.active = FALSE] ELSE registry[x]
  BY DEF Marked, TypeOK
<1>3. /\ registry'[x].app = registry[x].app /\ registry'[x].verify = registry[x].verify
      /\ registry'[x].rollback = registry[x].rollback
  BY <1>1, <1>2 DEF RowType
<1> QED
  BY <1>1, <1>3 DEF DeclaredRow

(* Every step keeps the rows as their manifests declare them.              *)
LEMMA DeclaredStep ==
  ASSUME TypeOK, RowsDeclared, [Next]_vars
  PROVE  RowsDeclared'
<1>1. \/ registry' = registry
      \/ \E a \in Apps : Commits(a)
      \/ \E c \in Callers : registry' = Marked(registry, call[c].row.app)
  <2>1. CASE UNCHANGED vars
    BY <2>1 DEF vars
  <2>2. ASSUME NEW a \in Apps, AdapterStep(a) PROVE registry' = registry \/ Commits(a)
    BY <2>2, Zenon DEF AdapterStep, StartAdapter, StopAdapter, RegisterNext, RegisterFails
  <2>3. ASSUME NEW c \in Callers, RouterStep(c) \/ HandlerStep(c)
        PROVE  registry' = registry \/ registry' = Marked(registry, call[c].row.app)
    <3>1. CASE MarkUnavailable(c)
      BY <3>1 DEF MarkUnavailable
    <3>2. CASE \/ Dial(c) \/ MarkFails(c) \/ Receive(c) \/ Expire(c) \/ GiveUp(c)
               \/ HandleRead(c) \/ Handle(c) \/ StoreFails(c)
      BY <3>2, Zenon DEF Dial, MarkFails, Receive, Expire, GiveUp, HandleRead, Handle, StoreFails
    <3> QED
      BY <2>3, <3>1, <3>2 DEF RouterStep, HandlerStep
  <2>4. ASSUME NEW c \in Callers, NEW r \in Requests, Route(c, r) PROVE registry' = registry
    BY <2>4 DEF Route
  <2>5. ASSUME NEW q \in late, LateRead(q) \/ LateHandle(q) \/ LateFails(q) PROVE registry' = registry
    BY <2>5 DEF LateRead, LateHandle, LateFails
  <2> QED
    BY <2>1, <2>2, <2>3, <2>4, <2>5 DEF Next
<1>2. CASE registry' = registry
  BY <1>2 DEF RowsDeclared
<1> QED
  BY <1>1, <1>2, CommitDeclares, MarkDeclares

(* The rows are as declared in every reachable state.                      *)
LEMMA SpecDeclared == Spec => []RowsDeclared
<1>1. Init => RowsDeclared
  BY DEF Init, RowsDeclared, DeclaredRow, NoRow
<1>2. IInv /\ RowsDeclared /\ [Next]_vars => RowsDeclared'
  BY DeclaredStep DEF IInv
<1> QED
  BY SpecIInv, <1>1, <1>2, PTL DEF Spec

-----------------------------------------------------------------------------
(* A call that has the app plane to itself.                                *)

(* A handler that answers with an error has changed nothing.               *)
LEMMA ErrorChangesNothing ==
  ASSUME NEW m \in Methods, NEW r, NEW s, NEW prev, NEW seen, NEW v,
         ~dispatch(m, r, s, prev, seen, v).out.ok
  PROVE  dispatch(m, r, s, prev, seen, v).store = s
<1>1. \A x, y : Done(x, y).out.ok
  BY DEF Done
<1>2. Error(s).store = s
  BY DEF Error
<1>3. CASE m = "kv.set"
  <2>1. dispatch(m, r, s, prev, seen, v) = handleSet(r, s, seen, v)
    BY <1>3 DEF dispatch
  <2> QED
    BY <1>1, <1>2, <2>1, Zenon DEF handleSet
<1>4. CASE m = "kv.delete"
  <2>1. dispatch(m, r, s, prev, seen, v) = handleDelete(r, s, seen)
    BY <1>4 DEF dispatch
  <2> QED
    BY <1>1, <2>1, Zenon DEF handleDelete
<1>5. CASE m = "kv.batch_set"
  <2>1. dispatch(m, r, s, prev, seen, v) = handleBatchSet(r, s, v)
    BY <1>5 DEF dispatch
  <2> QED
    BY <1>1, <1>2, <2>1, Zenon DEF handleBatchSet
<1>6. CASE m = "kv.import"
  <2>1. dispatch(m, r, s, prev, seen, v) = handleImport(r, s, v)
    BY <1>6 DEF dispatch
  <2> QED
    BY <1>1, <2>1, Zenon DEF handleImport
<1> QED
  BY <1>3, <1>4, <1>5, <1>6 DEF Methods

(* kv.rollback_set on what a kv.set left, with the previous value the set  *)
(* reported, puts back the contents the set found.                         *)
LEMMA RollbackRestores ==
  ASSUME NEW r \in Requests, r.m = "kv.set", NEW b \in Contents, NEW c \in Callers,
         handleSet(r, b, b[r.keys[1]], c).out.ok
  PROVE  LET done == handleSet(r, b, b[r.keys[1]], c)
         IN  handleRollbackSet(r, done.store, done.out.prev, done.store[r.keys[1]]).store = b
<1> DEFINE k == r.keys[1]
           done == handleSet(r, b, b[k], c)
           s == done.store
<1>1. r.keys \in Seq(Keys) /\ Len(r.keys) = 1 /\ k \in Keys
  BY RequestAssumption DEF Request
<1>2. KeysOf(r) = {k}
  BY <1>1 DEF KeysOf
<1>3. c # Absent /\ DOMAIN b = Keys
  BY AbsentAssumption DEF Contents
<1>4. ~(r.mode = "create" /\ ~NoneExists(b, KeysOf(r)))
  BY Zenon DEF handleSet, Error, NoOut
<1>5. done = Done(IF r.mode = "create" THEN Absent ELSE b[k], Upserted(b, KeysOf(r), c))
  BY <1>4 DEF handleSet
<1>6. s = Upserted(b, {k}, c) /\ done.out.prev = IF r.mode = "create" THEN Absent ELSE b[k]
  BY <1>2, <1>5 DEF Done
<1>7. r.mode = "create" => b[k] = Absent
  BY <1>1, <1>2, <1>4 DEF NoneExists, Present
<1>8. done.out.prev = b[k]
  BY <1>6, <1>7
<1> HIDE DEF done, k
<1>9. s[k] = c /\ s = [x \in Keys |-> IF x = k THEN c ELSE b[x]]
  BY <1>1, <1>6 DEF Upserted
<1>10. CASE b[k] # Absent
  <2>1. Upserted(s, {k}, b[k]) = b
    BY <1>3, <1>9 DEF Upserted, Contents
  <2> QED
    BY <1>8, <1>10, <2>1 DEF handleRollbackSet, Done, k, done
<1>11. CASE b[k] = Absent
  <2>1. Deleted(s, k, s[k]) = b
    BY <1>1, <1>3, <1>9, <1>11 DEF Deleted, Contents
  <2> QED
    BY <1>8, <1>11, <2>1 DEF handleRollbackSet, Done, k, done
<1> QED
  BY <1>10, <1>11

(* The row of a call verifies by kv.verify or not at all, and a verified   *)
(* kv.set is rolled back by kv.rollback_set.                               *)
LEMMA DeclaredEndpoints ==
  ASSUME NEW x, NEW row, DeclaredRow(x, row), row.app # NoApp
  PROVE  /\ row.verify \in {Empty, "kv.verify"}
         /\ x = "kv.set" /\ row.verify # Empty => row.rollback = "kv.rollback_set"
<1>1. PICK i \in 1..Len(Manifests) :
        /\ Manifests[i].name = x
        /\ row.verify = NormalizeAppPrimitiveManifest(Manifests[i]).verifyEndpoint
        /\ row.rollback = NormalizeAppPrimitiveManifest(Manifests[i]).rollbackEndpoint
  BY DEF DeclaredRow
<1>2. NormalizeAppPrimitiveManifest(Manifests[i]).name = x
  BY <1>1, ManifestAssumption, NormalizedName
<1> QED
  BY <1>1, <1>2, KVManifestAssumption

(* A call that something reached into is no longer sole; forgetting leaves *)
(* a sole call as it is.                                                   *)
LEMMA ForgetSole ==
  ASSUME NEW q \in CallType
  PROVE  Forget(q).alone => q.alone /\ Forget(q) = q
<1>1. CASE q.pc # "done" \/ q.alone \/ q.marked
  <2>1. Forget(q) = q
    BY <1>1, Zenon DEF Forget
  <2> QED
    BY <2>1
<1>2. CASE ~(q.pc # "done" \/ q.alone \/ q.marked)
  <2>1. Forget(q) = [NoCall EXCEPT !.pc = "done"]
    BY <1>2, Zenon DEF Forget
  <2>2. [NoCall EXCEPT !.pc = "done"].alone = FALSE
    BY DEF NoCall
  <2> QED
    BY <2>1, <2>2
<1> QED
  BY <1>1, <1>2

(* An interrupted call is not sole.                                        *)
LEMMA InterruptedNotSole ==
  ASSUME NEW q \in CallType
  PROVE  ~Interrupted(q).alone
<1> DEFINE p == [q EXCEPT !.alone = FALSE, !.before = NoContents, !.unrolled = FALSE]
<1>1. NoContents \in Contents
  BY DEF NoContents, Contents
<1>2. p \in CallType /\ p.alone = FALSE
  BY <1>1 DEF CallType
<1> HIDE DEF p
<1>3. ~Forget(p).alone
  BY <1>2, ForgetSole
<1> QED
  BY <1>3 DEF Interrupted, p

(* The fields of a call the invariant is about.                            *)
SameCall(q, p) ==
  /\ p.pc = q.pc /\ p.req = q.req /\ p.stage = q.stage /\ p.row = q.row
  /\ p.seen = q.seen /\ p.prev = q.prev /\ p.out = q.out /\ p.expired = q.expired
  /\ p.res = q.res /\ p.before = q.before /\ p.unrolled = q.unrolled

(* A change of the other fields is none to a sole call.                    *)
LEMMA SameSole ==
  ASSUME NEW q, NEW p, NEW s, NEW up, NEW c, SameCall(q, p), SoleCall(q, s, up, c)
  PROVE  SoleCall(p, s, up, c)
BY DEF SameCall, SoleCall, CallStage, AnsweredStage, LaterStage, Atomic, Applied, First

(* A sole call that returns: it keeps what the property is about.          *)
LEMMA ReturnedSole ==
  ASSUME NEW q \in CallType, NEW res \in {"none", "ok", "error", "verify_failed"},
         Returned(q, res).alone
  PROVE  /\ q.alone
         /\ Returned(q, res).pc = "done" /\ Returned(q, res).res = res
         /\ Returned(q, res).req = q.req /\ Returned(q, res).row = q.row
         /\ Returned(q, res).before = q.before /\ Returned(q, res).unrolled = q.unrolled
<1> DEFINE p == [q EXCEPT !.pc = "done", !.res = res, !.stage = "call", !.seen = Absent,
                          !.prev = Absent, !.out = NoOut, !.expired = FALSE]
<1>1. NoOut \in OutType
  BY DEF NoOut, OutType
<1>2. /\ p \in CallType /\ p.pc = "done" /\ p.res = res /\ p.req = q.req /\ p.row = q.row
      /\ p.before = q.before /\ p.alone = q.alone /\ p.unrolled = q.unrolled
  BY <1>1 DEF CallType, Stages
<1>3. Returned(q, res) = Forget(p)
  BY DEF Returned
<1> HIDE DEF p
<1>4. p.alone /\ Forget(p) = p
  BY <1>2, <1>3, ForgetSole
<1> QED
  BY <1>2, <1>3, <1>4

(* It returns with a report that agrees with the contents.                 *)
LEMMA ReturnsAtomic ==
  ASSUME NEW q \in CallType, NEW res \in {"none", "ok", "error", "verify_failed"},
         NEW s, NEW up, NEW c, Returned(q, res).alone,
         DeclaredRow(q.req.m, q.row), q.row.app \in Apps,
         res = "ok" => s = Applied(q, c).store,
         res = "error" => s = q.before,
         res = "verify_failed" /\ q.req.m = "kv.set" =>
           s = IF q.unrolled THEN Applied(q, c).store ELSE q.before
  PROVE  SoleCall(Returned(q, res), s, up, c)
<1> DEFINE p == Returned(q, res)
<1>1. /\ p.pc = "done" /\ p.res = res /\ p.req = q.req /\ p.row = q.row
      /\ p.before = q.before /\ p.unrolled = q.unrolled
  BY ReturnedSole
<1> HIDE DEF p
<1>2. Applied(p, c) = Applied(q, c)
  BY <1>1 DEF Applied, First
<1>3. Atomic(p, s, c)
  BY <1>1, <1>2 DEF Atomic
<1>4. SoleCall(p, s, up, c)
  BY <1>1, <1>3 DEF SoleCall
<1> QED
  BY <1>4 DEF p

(* The dial of a sole call.                                                *)
LEMMA DialSole ==
  ASSUME NEW q \in CallType, NEW s, NEW up \in BOOLEAN, NEW c, q.pc = "dial",
         SoleCall(q, s, up, c), NEW at, at = IF up /\ ~q.expired THEN "sent" ELSE "refused"
  PROVE  SoleCall([q EXCEPT !.pc = at], s, up, c)
<1> DEFINE p == [q EXCEPT !.pc = at]
<1>1. /\ p.pc = at /\ p.req = q.req /\ p.stage = q.stage /\ p.row = q.row
      /\ p.seen = q.seen /\ p.prev = q.prev /\ p.expired = q.expired /\ p.before = q.before
      /\ p.unrolled = q.unrolled
  BY DEF CallType
<1>2. ~q.expired /\ ~q.unrolled /\ (at = "sent" => up) /\ at \in {"sent", "refused"} /\ (up => at = "sent")
  BY DEF SoleCall
<1> HIDE DEF p
<1>3. Applied(p, c) = Applied(q, c) /\ First(p) = First(q)
  BY <1>1 DEF Applied, First
<1>4. CallStage(p, s) /\ AnsweredStage(p, s, c)
  BY <1>1, <1>2, <1>3 DEF SoleCall, CallStage, AnsweredStage
<1>5. LaterStage(p, s, c)
  BY <1>1, <1>2, <1>3 DEF SoleCall, LaterStage
<1>6. SoleCall(p, s, up, c)
  BY <1>1, <1>2, <1>4, <1>5 DEF SoleCall
<1> QED
  BY <1>6 DEF p

(* The handler of a sole call reads.                                       *)
LEMMA ReadSole ==
  ASSUME NEW q \in CallType, NEW s, NEW up, NEW c, q.pc = "sent", SoleCall(q, s, up, c)
  PROVE  SoleCall([q EXCEPT !.pc = "half", !.seen = s[q.req.keys[1]]], s, up, c)
<1> DEFINE v == s[q.req.keys[1]]
           p == [q EXCEPT !.pc = "half", !.seen = v]
<1>1. /\ p.pc = "half" /\ p.req = q.req /\ p.stage = q.stage /\ p.row = q.row
      /\ p.seen = v /\ p.prev = q.prev /\ p.expired = q.expired /\ p.before = q.before
      /\ p.unrolled = q.unrolled
  BY DEF CallType
<1>2. q.stage = "call" => v = First(q)
  BY DEF SoleCall, CallStage, First
<1>3. v = s[q.req.keys[1]] /\ ~q.unrolled
  BY DEF SoleCall
<1> HIDE DEF p, v
<1>4. Applied(p, c) = Applied(q, c) /\ First(p) = First(q)
  BY <1>1 DEF Applied, First
<1>5. CallStage(p, s) /\ AnsweredStage(p, s, c)
  BY <1>1, <1>2, <1>4 DEF SoleCall, CallStage, AnsweredStage
<1>6. LaterStage(p, s, c)
  BY <1>1, <1>3, <1>4 DEF SoleCall, LaterStage
<1>7. SoleCall(p, s, up, c)
  BY <1>1, <1>5, <1>6 DEF SoleCall
<1> QED
  BY <1>7 DEF p, v

(* The handler of a sole call answers: the call's whole effect, a          *)
(* verification that changes nothing, or the rollback.                     *)
LEMMA AnswerSole ==
  ASSUME NEW q \in CallType, NEW s \in Contents, NEW up, NEW c \in Callers,
         q.pc \in {"sent", "half"}, SoleCall(q, s, up, c)
  PROVE  SoleCall([q EXCEPT !.pc = "answered", !.out = Answer(q, s, c).out],
                  Answer(q, s, c).store, up, c)
<1> DEFINE ans == Answer(q, s, c)
           p == [q EXCEPT !.pc = "answered", !.out = ans.out]
           k == q.req.keys[1]
           seen == IF q.pc = "half" THEN q.seen ELSE s[k]
<1>0. ans = dispatch(MethodOf(q), q.req, s, q.prev, seen, c)
  BY DEF Answer
<1>1. /\ p.pc = "answered" /\ p.req = q.req /\ p.stage = q.stage /\ p.row = q.row
      /\ p.out = ans.out /\ p.prev = q.prev /\ p.expired = q.expired /\ p.before = q.before
      /\ p.unrolled = q.unrolled
  BY DEF CallType
<1>2. /\ q.stage \in Stages /\ q.req \in Requests /\ q.before \in Contents
      /\ ~q.expired /\ ~q.unrolled /\ up /\ DeclaredRow(q.req.m, q.row) /\ q.row.app \in Apps
      /\ CallStage(q, s) /\ LaterStage(q, s, c)
  BY DEF CallType, SoleCall
<1> HIDE DEF p, ans
<1>3. Applied(p, c) = Applied(q, c)
  BY <1>1 DEF Applied, First
<1>4. CASE q.stage = "call"
  <2>1. MethodOf(q) = q.req.m /\ q.prev = Absent /\ s = q.before /\ seen = First(q)
    BY <1>2, <1>4 DEF MethodOf, CallStage, First
  <2> HIDE DEF seen
  <2>2. ans = Applied(q, c)
    BY <1>0, <2>1 DEF Applied
  <2>3. CallStage(p, ans.store) /\ AnsweredStage(p, ans.store, c) /\ LaterStage(p, ans.store, c)
    BY <1>1, <1>2, <1>3, <1>4, <2>2 DEF CallStage, AnsweredStage, LaterStage
  <2> QED
    BY <1>1, <1>2, <2>3 DEF SoleCall, p, ans
<1>5. CASE q.stage = "verify"
  <2>1. MethodOf(q) = "kv.verify"
    BY <1>2, <1>5 DEF MethodOf, LaterStage
  <2> HIDE DEF seen
  <2>2. ans = handleVerify(q.req, s)
    BY <1>0, <2>1 DEF dispatch
  <2>3. ans.store = s
    BY <2>2 DEF handleVerify
  <2>4. CallStage(p, ans.store) /\ AnsweredStage(p, ans.store, c) /\ LaterStage(p, ans.store, c)
    BY <1>1, <1>2, <1>3, <1>5, <2>3 DEF CallStage, AnsweredStage, LaterStage
  <2> QED
    BY <1>1, <1>2, <2>4 DEF SoleCall, p, ans
<1>6. CASE q.stage = "rollback"
  <2>1. ASSUME q.req.m = "kv.set" PROVE ans.store = q.before
    <3>1. q.row.app # NoApp /\ q.row.verify = "kv.verify" /\ q.row.verify # Empty
      BY <1>2, <1>6, AbsentAssumption DEF LaterStage, Empty
    <3>2. MethodOf(q) = "kv.rollback_set"
      BY <1>2, <1>6, <2>1, <3>1, DeclaredEndpoints DEF MethodOf
    <3>3. ans = handleRollbackSet(q.req, s, q.prev, seen)
      BY <1>0, <3>2 DEF dispatch
    <3>4. Applied(q, c) = handleSet(q.req, q.before, q.before[k], c)
      BY <2>1 DEF Applied, First, dispatch
    <3>5. /\ s = Applied(q, c).store /\ q.prev = Applied(q, c).out.prev
          /\ Applied(q, c).out.ok /\ seen = s[k]
      BY <1>2, <1>6, <2>1 DEF LaterStage
    <3> DEFINE done == handleSet(q.req, q.before, q.before[k], c)
    <3> HIDE DEF seen
    <3>6. handleRollbackSet(q.req, done.store, done.out.prev, done.store[k]).store = q.before
      BY <1>2, <2>1, <3>4, <3>5, RollbackRestores
    <3> QED
      BY <3>3, <3>4, <3>5, <3>6
  <2>2. CallStage(p, ans.store) /\ AnsweredStage(p, ans.store, c) /\ LaterStage(p, ans.store, c)
    BY <1>1, <1>2, <1>3, <1>6, <2>1 DEF CallStage, AnsweredStage, LaterStage
  <2> QED
    BY <1>1, <1>2, <2>2 DEF SoleCall, p, ans
<1> QED
  BY <1>2, <1>4, <1>5, <1>6 DEF Stages

(* A statement of a sole call fails: nothing has changed, and if it was    *)
(* the rollback's, the call's effect is there as a whole.                  *)
LEMMA FailSole ==
  ASSUME NEW q, NEW p, NEW s, NEW up, NEW c, q.pc \in {"sent", "half"}, SoleCall(q, s, up, c),
         p.pc = "answered", p.req = q.req, p.stage = q.stage, p.row = q.row, ~p.out.ok,
         p.prev = q.prev, p.expired = q.expired, p.before = q.before,
         p.unrolled <=> q.stage = "rollback"
  PROVE  SoleCall(p, s, up, c)
<1>1. Applied(p, c) = Applied(q, c)
  BY DEF Applied, First
<1>2. CallStage(p, s) /\ AnsweredStage(p, s, c)
  BY DEF SoleCall, CallStage, AnsweredStage
<1>3. LaterStage(p, s, c)
  BY <1>1 DEF SoleCall, LaterStage
<1> QED
  BY <1>2, <1>3 DEF SoleCall

(* A sole call whose dial is refused returns without an effect: once the   *)
(* adapter has answered, the dials of the later stages are not refused.    *)
LEMMA RefusedSole ==
  ASSUME NEW q \in CallType, NEW s, NEW up, NEW c, q.pc = "refused", SoleCall(q, s, up, c),
         Ended(q, FALSE, FALSE).alone
  PROVE  SoleCall(Ended(q, FALSE, FALSE), s, up, c)
<1>1. q.stage = "call" /\ s = q.before /\ DeclaredRow(q.req.m, q.row) /\ q.row.app \in Apps
  BY DEF SoleCall, LaterStage, CallStage
<1>2. Ended(q, FALSE, FALSE) = Returned(q, "error")
  BY <1>1 DEF Ended
<1> QED
  BY <1>1, <1>2, ReturnsAtomic

(* A sole call goes on to its next stage.                                  *)
LEMMA NextStageSole ==
  ASSUME NEW q \in CallType, NEW s, NEW c, NEW stage \in {"verify", "rollback"},
         DeclaredRow(q.req.m, q.row), q.row.app \in Apps, ~q.expired, ~q.unrolled,
         q.row.verify = "kv.verify", Applied(q, c).out.ok, q.prev = Applied(q, c).out.prev,
         s = Applied(q, c).store
  PROVE  SoleCall([q EXCEPT !.pc = "dial", !.stage = stage], s, TRUE, c)
<1> DEFINE p == [q EXCEPT !.pc = "dial", !.stage = stage]
<1>1. /\ p.pc = "dial" /\ p.req = q.req /\ p.stage = stage /\ p.row = q.row
      /\ p.prev = q.prev /\ p.expired = q.expired /\ p.before = q.before
      /\ p.unrolled = q.unrolled
  BY DEF CallType
<1> HIDE DEF p
<1>2. Applied(p, c) = Applied(q, c)
  BY <1>1 DEF Applied, First
<1>3. CallStage(p, s) /\ AnsweredStage(p, s, c) /\ LaterStage(p, s, c)
  BY <1>1, <1>2 DEF CallStage, AnsweredStage, LaterStage
<1>4. SoleCall(p, s, TRUE, c)
  BY <1>1, <1>3 DEF SoleCall
<1> QED
  BY <1>4 DEF p

(* The router reads the answer to a sole call.                             *)
LEMMA ReceiveSole ==
  ASSUME NEW q \in CallType, NEW s, NEW up, NEW c, q.pc = "answered", SoleCall(q, s, up, c),
         NEW kept, kept = IF q.stage = "call" /\ q.out.ok THEN [q EXCEPT !.prev = q.out.prev] ELSE q,
         Ended(kept, q.out.ok, q.out.passed).alone
  PROVE  SoleCall(Ended(kept, q.out.ok, q.out.passed), s, TRUE, c)
<1>1. /\ DeclaredRow(q.req.m, q.row) /\ q.row.app \in Apps /\ ~q.expired
      /\ q.stage \in Stages /\ q.out \in OutType /\ q.req \in Requests
      /\ AnsweredStage(q, s, c) /\ LaterStage(q, s, c)
      /\ q.stage # "rollback" => ~q.unrolled
  BY DEF SoleCall, CallType
<1>2. /\ q.row.verify \in {Empty, "kv.verify"}
      /\ q.req.m = "kv.set" /\ q.row.verify # Empty => q.row.rollback = "kv.rollback_set"
  <2>1. q.row.app # NoApp
    BY <1>1, AbsentAssumption
  <2> QED
    BY <1>1, <2>1, DeclaredEndpoints
<1>3. CASE q.stage = "call" /\ ~q.out.ok
  <2>1. kept = q /\ (s = q.before \/ (s = Applied(q, c).store /\ ~Applied(q, c).out.ok))
    BY <1>1, <1>3 DEF AnsweredStage
  <2>2. q.req.m \in Methods
    BY <1>1, RequestAssumption DEF Request
  <2>3. s = q.before
    BY <2>1, <2>2, ErrorChangesNothing DEF Applied
  <2>4. Ended(kept, q.out.ok, q.out.passed) = Returned(q, "error")
    BY <1>3, <2>1 DEF Ended
  <2> QED
    BY <1>1, <2>3, <2>4, ReturnsAtomic
<1>4. CASE q.stage = "call" /\ q.out.ok
  <2>1. /\ kept \in CallType /\ kept.prev = q.out.prev /\ kept.req = q.req /\ kept.row = q.row
        /\ kept.expired = q.expired /\ kept.before = q.before /\ kept.stage = "call"
        /\ kept.unrolled = q.unrolled
    BY <1>1, <1>4 DEF CallType, OutType
  <2>2. Applied(kept, c) = Applied(q, c)
    BY <2>1 DEF Applied, First
  <2>3. s = Applied(q, c).store /\ q.out = Applied(q, c).out
    BY <1>1, <1>4 DEF AnsweredStage
  <2>4. CASE q.row.verify = Empty
    <3>1. Ended(kept, q.out.ok, q.out.passed) = Returned(kept, "ok")
      BY <1>4, <2>1, <2>4 DEF Ended
    <3> QED
      BY <1>1, <2>1, <2>2, <2>3, <3>1, ReturnsAtomic
  <2>5. CASE q.row.verify # Empty
    <3>1. Ended(kept, q.out.ok, q.out.passed) = [kept EXCEPT !.pc = "dial", !.stage = "verify"]
      BY <1>4, <2>1, <2>5 DEF Ended
    <3>2. /\ DeclaredRow(kept.req.m, kept.row) /\ kept.row.app \in Apps /\ ~kept.expired
          /\ ~kept.unrolled
          /\ kept.row.verify = "kv.verify" /\ Applied(kept, c).out.ok
          /\ kept.prev = Applied(kept, c).out.prev /\ s = Applied(kept, c).store
      BY <1>1, <1>2, <1>4, <2>1, <2>2, <2>3, <2>5
    <3>3. SoleCall([kept EXCEPT !.pc = "dial", !.stage = "verify"], s, TRUE, c)
      BY <2>1, <3>2, NextStageSole
    <3> QED
      BY <3>1, <3>3
  <2> QED
    BY <2>4, <2>5
<1>5. CASE q.stage = "verify"
  <2>1. /\ kept = q /\ s = Applied(q, c).store /\ q.row.verify = "kv.verify"
        /\ Applied(q, c).out.ok /\ q.prev = Applied(q, c).out.prev
    BY <1>1, <1>5 DEF LaterStage
  <2>2. CASE q.out.ok /\ q.out.passed
    <3>1. Ended(kept, q.out.ok, q.out.passed) = Returned(q, "ok")
      BY <1>5, <2>1, <2>2 DEF Ended
    <3> QED
      BY <1>1, <2>1, <3>1, ReturnsAtomic
  <2>3. CASE ~(q.out.ok /\ q.out.passed) /\ q.row.rollback # Empty
    <3>1. Ended(kept, q.out.ok, q.out.passed) = [q EXCEPT !.pc = "dial", !.stage = "rollback"]
      BY <1>5, <2>1, <2>3 DEF Ended
    <3>2. ~q.expired /\ ~q.unrolled /\ "rollback" \in {"verify", "rollback"}
      BY <1>1, <1>5
    <3>3. SoleCall([q EXCEPT !.pc = "dial", !.stage = "rollback"], s, TRUE, c)
      BY <1>1, <2>1, <3>2, NextStageSole
    <3> QED
      BY <3>1, <3>3
  <2>4. CASE ~(q.out.ok /\ q.out.passed) /\ q.row.rollback = Empty
    <3>1. Ended(kept, q.out.ok, q.out.passed) = Returned(q, "verify_failed")
      BY <1>5, <2>1, <2>4 DEF Ended
    <3>2. q.req.m # "kv.set"
      BY <1>2, <2>1, <2>4 DEF Empty
    <3> QED
      BY <1>1, <3>1, <3>2, ReturnsAtomic
  <2> QED
    BY <2>2, <2>3, <2>4
<1>6. CASE q.stage = "rollback"
  <2>1. kept = q /\ (q.req.m = "kv.set" => s = IF q.unrolled THEN Applied(q, c).store ELSE q.before)
    BY <1>1, <1>6 DEF LaterStage
  <2>2. Ended(kept, q.out.ok, q.out.passed) = Returned(q, "verify_failed")
    BY <1>6, <2>1 DEF Ended
  <2> QED
    BY <1>1, <2>1, <2>2, ReturnsAtomic
<1> QED
  BY <1>1, <1>3, <1>4, <1>5, <1>6 DEF Stages

(* Nobody is sole after a step that reaches into every call.               *)
LEMMA NobodySole ==
  ASSUME \A c \in Callers : ~call'[c].alone
  PROVE  SoleInv'
BY DEF SoleInv

(* The step of one call that is under way: every other call is not sole.   *)
LEMMA OneSole ==
  ASSUME TypeOK, SoleInv, NEW c \in Callers, Active(call[c]), NEW p,
         call' = [call EXCEPT ![c] = p],
         p.alone => /\ call[c].alone /\ p.row = call[c].row /\ late' = late /\ adapter' = adapter
                    /\ SoleCall(p, store'[p.row.app], adapter[p.row.app].up, c)
  PROVE  SoleInv'
<1>1. call \in [Callers -> CallType]
  BY DEF TypeOK
<1>2. call'[c] = p /\ \A d \in Callers : d # c => call'[d] = call[d]
  BY <1>1
<1> SUFFICES ASSUME NEW d \in Callers, call'[d].alone
             PROVE  /\ late' = {} /\ \A x \in Callers \ {d} : ~Active(call'[x])
                    /\ SoleCall(call'[d], store'[call'[d].row.app], adapter'[call'[d].row.app].up, d)
  BY DEF SoleInv, Active
<1>3. d = c
  <2> SUFFICES ASSUME d # c PROVE FALSE
    OBVIOUS
  <2>1. call[d].alone /\ c \in Callers \ {d}
    BY <1>2
  <2> QED
    BY <2>1, Zenon DEF SoleInv
<1>4. call[c].alone /\ p.alone
  BY <1>2, <1>3
<1>5. late = {} /\ \A x \in Callers \ {c} : ~Active(call[x])
  BY <1>4, Zenon DEF SoleInv
<1> QED
  BY <1>2, <1>3, <1>4, <1>5

(* What the invariant says of a call that is sole.                         *)
LEMMA SoleFacts ==
  ASSUME TypeOK, SoleInv, NEW c \in Callers, call[c].alone
  PROVE  /\ late = {} /\ call[c].row.app \in Apps
         /\ SoleCall(call[c], store[call[c].row.app], adapter[call[c].row.app].up, c)
         /\ store[call[c].row.app] \in Contents /\ adapter[call[c].row.app].up \in BOOLEAN
<1>1. late = {} /\ SoleCall(call[c], store[call[c].row.app], adapter[call[c].row.app].up, c)
  BY DEF SoleInv
<1>2. call[c].row.app \in Apps
  BY <1>1 DEF SoleCall
<1> QED
  BY <1>1, <1>2 DEF TypeOK

(* The stage of a call that is not sole ends without making it sole.       *)
LEMMA EndedNotSole ==
  ASSUME NEW q \in CallType, Active(q), NEW ok, NEW passed, Ended(q, ok, passed).alone
  PROVE  q.alone /\ Ended(q, ok, passed).row = q.row
<1>1. \A stage : [q EXCEPT !.pc = "dial", !.stage = stage].alone = q.alone
                 /\ [q EXCEPT !.pc = "dial", !.stage = stage].row = q.row
  BY DEF CallType
<1>2. \/ Ended(q, ok, passed) = Returned(q, "error")
      \/ Ended(q, ok, passed) = Returned(q, "ok")
      \/ Ended(q, ok, passed) = Returned(q, "verify_failed")
      \/ Ended(q, ok, passed) = [q EXCEPT !.pc = "dial", !.stage = "verify"]
      \/ Ended(q, ok, passed) = [q EXCEPT !.pc = "dial", !.stage = "rollback"]
  <2>1. CASE q.stage = "call"
    BY <2>1 DEF Ended
  <2>2. CASE q.stage = "verify"
    BY <2>2 DEF Ended
  <2>3. CASE q.stage = "rollback"
    BY <2>3 DEF Ended
  <2> QED
    BY <2>1, <2>2, <2>3 DEF CallType, Stages
<1>3. CASE \/ Ended(q, ok, passed) = Returned(q, "error")
           \/ Ended(q, ok, passed) = Returned(q, "ok")
           \/ Ended(q, ok, passed) = Returned(q, "verify_failed")
  BY <1>3, ReturnedSole
<1>4. CASE \/ Ended(q, ok, passed) = [q EXCEPT !.pc = "dial", !.stage = "verify"]
           \/ Ended(q, ok, passed) = [q EXCEPT !.pc = "dial", !.stage = "rollback"]
  BY <1>1, <1>4
<1> QED
  BY <1>2, <1>3, <1>4

(* A call begins.                                                          *)
LEMMA RouteKeepsSole ==
  ASSUME TypeOK, RowsDeclared, NEW c \in Callers, NEW r \in Requests, Route(c, r)
  PROVE  SoleInv'
<1> DEFINE row == IF r.m \in Names THEN registry[r.m] ELSE NoRow
           fresh == [NoCall EXCEPT !.req = r, !.row = row]
           alone == late = {} /\ \A d \in Callers \ {c} : ~Active(call[d])
           begun == [fresh EXCEPT !.pc = "dial", !.alone = alone,
                                  !.before = IF alone THEN store[row.app] ELSE @]
           p == IF row.app = NoApp \/ ~row.active THEN Returned(fresh, "error") ELSE begun
<1>1. /\ UNCHANGED <<registry, adapter, store, late>>
      /\ call' = [Disturbed(call) EXCEPT ![c] = p]
  BY DEF Route
<1>2. row \in RowType /\ DeclaredRow(r.m, row)
  <2>1. NoRow \in RowType /\ NoRow.app = NoApp
    BY DEF NoRow, RowType, Endpoints
  <2> QED
    BY <2>1 DEF TypeOK, RowsDeclared, DeclaredRow
<1> HIDE DEF row
<1>3. /\ fresh \in CallType /\ fresh.req = r /\ fresh.row = row /\ fresh.alone = FALSE
      /\ fresh.stage = "call" /\ fresh.prev = Absent /\ fresh.expired = FALSE
      /\ fresh.unrolled = FALSE
  <2>1. /\ NoCall \in CallType /\ NoCall.alone = FALSE /\ NoCall.stage = "call"
        /\ NoCall.prev = Absent /\ NoCall.expired = FALSE /\ NoCall.unrolled = FALSE
    BY NoCallType DEF NoCall
  <2> QED
    BY <1>2, <2>1 DEF CallType
<1> HIDE DEF fresh
<1>4. call \in [Callers -> CallType] /\ \A d \in Callers : ~Disturbed(call)[d].alone
  BY InterruptedNotSole DEF TypeOK, Disturbed
<1>5. /\ DOMAIN Disturbed(call) = Callers
      /\ \A d \in Callers : Active(Disturbed(call)[d]) => Active(call[d])
  BY <1>4, DisturbedKeeps, Zenon DEF CallsKept, Keeps, Disturbed
<1>6. call'[c] = p /\ \A d \in Callers : d # c => call'[d] = Disturbed(call)[d]
  BY <1>1, <1>5
<1>7. p.alone => alone /\ SoleCall(p, store[p.row.app], adapter[p.row.app].up, c)
  <2>1. CASE row.app = NoApp \/ ~row.active
    <3>1. p = Returned(fresh, "error")
      BY <2>1, Zenon
    <3>2. ~Returned(fresh, "error").alone
      BY <1>3, ReturnedSole
    <3> HIDE DEF p
    <3> QED
      BY <3>1, <3>2
  <2>2. CASE ~(row.app = NoApp \/ ~row.active)
    <3>1. p = begun /\ row.app \in Apps
      BY <1>2, <2>2, Zenon DEF RowType
    <3>2. alone \in BOOLEAN
      OBVIOUS
    <3> HIDE DEF alone
    <3>3. /\ begun.pc = "dial" /\ begun.req = r /\ begun.row = row
          /\ begun.stage = "call" /\ begun.prev = Absent /\ begun.expired = FALSE
          /\ begun.unrolled = FALSE
      BY <1>3, <3>2 DEF CallType
    <3>4. begun.alone = alone
      BY <1>3, <3>2 DEF CallType
    <3>5. alone => begun.before = store[row.app]
      BY <1>3, <3>2 DEF CallType
    <3> HIDE DEF begun, p
    <3> SUFFICES ASSUME alone
                 PROVE  SoleCall(begun, store[row.app], adapter[row.app].up, c)
      BY <3>1, <3>3, <3>4
    <3>6. CallStage(begun, store[row.app]) /\ AnsweredStage(begun, store[row.app], c)
      BY <3>3, <3>5 DEF CallStage, AnsweredStage
    <3>7. LaterStage(begun, store[row.app], c)
      BY <3>3 DEF LaterStage
    <3> QED
      BY <1>2, <3>1, <3>3, <3>6, <3>7 DEF SoleCall
  <2> QED
    BY <2>1, <2>2
<1> HIDE DEF p
<1> SUFFICES ASSUME NEW d \in Callers, call'[d].alone
             PROVE  /\ late' = {} /\ \A x \in Callers \ {d} : ~Active(call'[x])
                    /\ SoleCall(call'[d], store'[call'[d].row.app], adapter'[call'[d].row.app].up, d)
  BY DEF SoleInv, Active
<1>8. d = c
  BY <1>4, <1>6
<1>9. alone
  BY <1>6, <1>7, <1>8
<1>10. \A x \in Callers \ {c} : ~Active(call'[x])
  BY <1>5, <1>6, <1>9
<1> QED
  BY <1>1, <1>6, <1>7, <1>8, <1>9, <1>10

(* A registration forgets marks, which the invariant is not about.         *)
LEMMA RegisterKeepsSole ==
  ASSUME TypeOK, SoleInv, NEW a \in Apps, RegisterNext(a)
  PROVE  SoleInv'
<1>1. /\ call' = Reactivated(a) /\ UNCHANGED <<store, late>>
      /\ adapter' = [adapter EXCEPT ![a].next = @ + 1] /\ call \in [Callers -> CallType]
  BY DEF RegisterNext, TypeOK
<1>2. \A b \in Apps : adapter'[b].up = adapter[b].up
  BY <1>1 DEF TypeOK
<1>3. CallsKept(call, call')
  BY <1>1, ReactivatedKeeps
<1> SUFFICES ASSUME NEW d \in Callers, call'[d].alone
             PROVE  /\ late' = {} /\ \A x \in Callers \ {d} : ~Active(call'[x])
                    /\ SoleCall(call'[d], store'[call'[d].row.app], adapter'[call'[d].row.app].up, d)
  BY DEF SoleInv, Active
<1>4. call[d].alone /\ SameCall(call[d], call'[d])
  <2>1. CASE call[d].row.app = a
    <3> DEFINE q == call[d]
               p == [q EXCEPT !.marked = FALSE]
    <3>1. p \in CallType /\ SameCall(q, p) /\ p.alone = q.alone
      BY ZenonT(60), <1>1 DEF CallType, SameCall
    <3>2. call'[d] = Forget(p)
      BY <1>1, <2>1 DEF Reactivated
    <3> HIDE DEF p
    <3>3. p.alone /\ call'[d] = p
      BY <3>1, <3>2, ForgetSole
    <3> QED
      BY <3>1, <3>3
  <2>2. CASE call[d].row.app # a
    <3>1. call'[d] = call[d]
      BY <1>1, <2>2 DEF Reactivated
    <3> QED
      BY <3>1 DEF SameCall
  <2> QED
    BY <2>1, <2>2
<1>5. /\ late = {} /\ call[d].row.app \in Apps
      /\ SoleCall(call[d], store[call[d].row.app], adapter[call[d].row.app].up, d)
  BY <1>4, SoleFacts
<1>6. \A x \in Callers \ {d} : ~Active(call[x])
  BY <1>4, Zenon DEF SoleInv
<1>7. \A x \in Callers \ {d} : ~Active(call'[x])
  BY <1>3, <1>6, Zenon DEF CallsKept, Keeps
<1>8. call'[d].row = call[d].row
  BY <1>4 DEF SameCall
<1>9. SoleCall(call'[d], store[call[d].row.app], adapter[call[d].row.app].up, d)
  BY <1>4, <1>5, SameSole
<1> QED
  BY <1>1, <1>2, <1>5, <1>7, <1>8, <1>9

(* The process of an adapter starts or ends: nobody is sole.               *)
LEMMA AdapterKeepsSole ==
  ASSUME TypeOK, SoleInv, NEW a \in Apps, AdapterStep(a)
  PROVE  SoleInv'
<1>1. call \in [Callers -> CallType]
  BY DEF TypeOK
<1>2. ASSUME NEW f, CallsKept(call, f), AdapterGone(a, f) PROVE SoleInv'
  <2>1. ASSUME NEW c \in Callers PROVE ~call'[c].alone
    <3> DEFINE q == Interrupted(f[c])
               p == [q EXCEPT !.pc = IF @ \in {"sent", "half"} /\ f[c].row.app = a THEN "broken" ELSE @]
    <3>1. call'[c] = p
      BY <1>2 DEF AdapterGone
    <3>2. q \in CallType /\ ~q.alone
      BY <1>2, InterruptedKeeps, InterruptedNotSole DEF CallsKept, Keeps
    <3> HIDE DEF q
    <3>3. p.alone = q.alone
      BY <3>2 DEF CallType
    <3> QED
      BY <3>1, <3>2, <3>3
  <2> QED
    BY <2>1, NobodySole
<1>3. CASE StartAdapter(a)
  <2>1. \A c \in Callers : ~call'[c].alone
    BY <1>1, <1>3, InterruptedNotSole DEF StartAdapter, Disturbed
  <2> QED
    BY <2>1, NobodySole
<1>4. CallsKept(call, call) /\ CallsKept(call, Reactivated(a))
  BY <1>1, KeepsItself, ReactivatedKeeps DEF CallsKept
<1>5. CASE StopAdapter(a)
  BY <1>2, <1>4, <1>5 DEF StopAdapter
<1>6. CASE RegisterNext(a)
  BY <1>6, RegisterKeepsSole
<1>7. CASE RegisterFails(a)
  BY <1>2, <1>4, <1>7 DEF RegisterFails
<1> QED
  BY <1>3, <1>5, <1>6, <1>7 DEF AdapterStep

(* The steps of a call, by the router or by the adapter's handler.         *)
LEMMA CallKeepsSole ==
  ASSUME TypeOK, SoleInv, NEW c \in Callers, RouterStep(c) \/ HandlerStep(c)
  PROVE  SoleInv'
<1> DEFINE q == call[c]
           a == q.row.app
           s == store[a]
           up == adapter[a].up
<1>0. q \in CallType /\ call \in [Callers -> CallType]
  BY DEF TypeOK
<1>s. q.alone => /\ late = {} /\ a \in Apps /\ SoleCall(q, s, up, c) /\ s \in Contents
                 /\ up \in BOOLEAN
  BY SoleFacts
<1>1. CASE Dial(c)
  <2> DEFINE at == IF up /\ ~q.expired THEN "sent" ELSE "refused"
             p == [q EXCEPT !.pc = at]
  <2>1. q.pc = "dial" /\ call' = [call EXCEPT ![c] = p] /\ UNCHANGED <<adapter, store, late>>
    BY <1>0, <1>1 DEF Dial
  <2>2. Active(q)
    BY <2>1 DEF Active
  <2>3. q.alone => SoleCall(p, s, up, c)
    BY <1>0, <1>s, <2>1, DialSole
  <2> HIDE DEF at
  <2>4. p.alone = q.alone /\ p.row = q.row
    BY <1>0 DEF CallType
  <2> HIDE DEF p
  <2> QED
    BY <2>1, <2>2, <2>3, <2>4, OneSole
<1>2. CASE MarkUnavailable(c) \/ MarkFails(c)
  <2>1. PICK p : /\ p \in {q, [q EXCEPT !.marked = ~q.expired]}
                 /\ call' = [call EXCEPT ![c] = Ended(p, FALSE, FALSE)]
    BY <1>2 DEF MarkUnavailable, MarkFails
  <2>2. q.pc = "refused" /\ UNCHANGED <<adapter, store, late>>
    BY <1>2 DEF MarkUnavailable, MarkFails
  <2>3. p \in CallType /\ SameCall(q, p) /\ p.alone = q.alone
    BY ZenonT(60), <1>0, <2>1 DEF CallType, SameCall
  <2>4. Active(q) /\ Active(p) /\ p.pc = "refused" /\ p.row = q.row
    BY <2>2, <2>3 DEF Active, SameCall
  <2> DEFINE e == Ended(p, FALSE, FALSE)
  <2>5. e.alone => q.alone /\ e.row = q.row
    BY <2>3, <2>4, EndedNotSole
  <2>6. e.alone => SoleCall(e, s, up, c)
    <3> SUFFICES ASSUME e.alone PROVE SoleCall(e, s, up, c)
      OBVIOUS
    <3>1. SoleCall(p, s, up, c)
      BY <1>s, <2>3, <2>5, SameSole
    <3> QED
      BY <2>3, <2>4, <3>1, RefusedSole
  <2> HIDE DEF e
  <2>7. call' = [call EXCEPT ![c] = e]
    BY <2>1 DEF e
  <2> QED
    BY <2>2, <2>4, <2>5, <2>6, <2>7, OneSole
<1>3. CASE Receive(c)
  <2> DEFINE ok == q.pc = "answered" /\ q.out.ok
             kept == IF q.stage = "call" /\ ok THEN [q EXCEPT !.prev = q.out.prev] ELSE q
             e == Ended(kept, ok, q.out.passed)
  <2>1. /\ q.pc \in {"answered", "broken"} /\ UNCHANGED <<adapter, store, late>>
        /\ call' = [call EXCEPT ![c] = e]
    BY <1>3 DEF Receive
  <2>2. [q EXCEPT !.prev = q.out.prev] \in CallType
    BY <1>0 DEF CallType, OutType
  <2>3. kept \in CallType /\ kept.pc = q.pc /\ kept.row = q.row /\ kept.alone = q.alone
    BY <1>0, <2>2 DEF CallType
  <2>4. Active(q) /\ Active(kept)
    BY <2>1, <2>3 DEF Active
  <2>5. e.alone => q.alone /\ e.row = q.row
    <3> HIDE DEF kept, ok
    <3> QED
      BY <2>3, <2>4, EndedNotSole
  <2>6. e.alone => SoleCall(e, s, up, c)
    <3> SUFFICES ASSUME e.alone PROVE SoleCall(e, s, up, c)
      OBVIOUS
    <3>1. SoleCall(q, s, up, c) /\ up \in BOOLEAN
      BY <1>s, <2>5
    <3>2. q.pc = "answered" /\ up = TRUE
      BY <2>1, <3>1 DEF SoleCall
    <3>3. q.out.ok \in BOOLEAN
      BY <1>0 DEF CallType, OutType
    <3>4. ok = q.out.ok
      BY <3>2, <3>3
    <3>5. /\ kept = IF q.stage = "call" /\ q.out.ok THEN [q EXCEPT !.prev = q.out.prev] ELSE q
          /\ e = Ended(kept, q.out.ok, q.out.passed)
      BY <3>4, Zenon
    <3> HIDE DEF kept, ok, e
    <3>6. SoleCall(e, s, TRUE, c)
      BY <1>0, <3>1, <3>2, <3>5, ReceiveSole
    <3> QED
      BY <3>2, <3>6
  <2> HIDE DEF e
  <2> QED
    BY <2>1, <2>4, <2>5, <2>6, OneSole
<1>4. CASE Expire(c)
  <2> DEFINE i == Interrupted(q)
             p == [i EXCEPT !.expired = TRUE]
  <2>1. Active(q) /\ call' = [call EXCEPT ![c] = p]
    BY <1>4 DEF Expire, Active
  <2>2. i \in CallType /\ ~i.alone
    BY <1>0, InterruptedKeeps, InterruptedNotSole DEF Keeps
  <2> HIDE DEF i
  <2>3. p.alone = i.alone
    BY <2>2 DEF CallType
  <2> HIDE DEF p
  <2> QED
    BY <2>1, <2>2, <2>3, OneSole
<1>5. CASE GiveUp(c)
  <2> DEFINE i == Interrupted(q)
             x == [i EXCEPT !.expired = TRUE]
             e == Ended(x, FALSE, FALSE)
  <2>1. /\ q.pc \in {"sent", "half", "answered", "broken"}
        /\ call' = [call EXCEPT ![c] = e]
    BY <1>5 DEF GiveUp
  <2>2. Active(q)
    BY <2>1 DEF Active
  <2>3. i \in CallType /\ ~i.alone
    BY <1>0, InterruptedKeeps, InterruptedNotSole DEF Keeps
  <2>4. i.pc = q.pc
    BY <1>0, <2>1 DEF Interrupted, Forget, CallType
  <2> HIDE DEF i
  <2>5. x \in CallType /\ Active(x) /\ ~x.alone
    BY <2>2, <2>3, <2>4 DEF CallType, Active
  <2> HIDE DEF x
  <2>6. ~e.alone
    BY <2>5, EndedNotSole
  <2> HIDE DEF e
  <2> QED
    BY <2>1, <2>2, <2>6, OneSole
<1>6. CASE HandleRead(c)
  <2> DEFINE v == s[q.req.keys[1]]
             p == [q EXCEPT !.pc = "half", !.seen = v]
  <2>1. q.pc = "sent" /\ UNCHANGED <<adapter, store, late>>
    BY <1>6 DEF HandleRead
  <2>2. call' = [call EXCEPT ![c] = p]
    BY <1>0, <1>6 DEF HandleRead
  <2>3. Active(q)
    BY <2>1 DEF Active
  <2>4. q.alone => SoleCall(p, s, up, c)
    BY <1>0, <1>s, <2>1, ReadSole
  <2> HIDE DEF v
  <2>5. p.alone = q.alone /\ p.row = q.row
    BY <1>0 DEF CallType
  <2> HIDE DEF p
  <2> QED
    BY <2>1, <2>2, <2>3, <2>4, <2>5, OneSole
<1>7. CASE Handle(c)
  <2> DEFINE ans == Answer(q, s, c)
             p == [q EXCEPT !.pc = "answered", !.out = ans.out]
  <2>1. /\ q.pc \in {"sent", "half"} /\ UNCHANGED <<adapter, late>>
        /\ store' = [store EXCEPT ![a] = ans.store]
        /\ call' = [call EXCEPT ![c].pc = "answered", ![c].out = ans.out]
    BY <1>7 DEF Handle
  <2>2. Active(q)
    BY <2>1 DEF Active
  <2>3. q.alone => SoleCall(p, ans.store, up, c)
    BY <1>0, <1>s, <2>1, AnswerSole
  <2> HIDE DEF ans
  <2>4. call' = [call EXCEPT ![c] = p]
    BY <1>0, <2>1
  <2>5. p.alone = q.alone /\ p.row = q.row
    BY <1>0 DEF CallType
  <2>6. a \in Apps => store'[a] = ans.store
    BY <2>1 DEF TypeOK
  <2> HIDE DEF p
  <2>7. p.alone => /\ call[c].alone /\ p.row = call[c].row /\ late' = late /\ adapter' = adapter
                   /\ SoleCall(p, store'[p.row.app], adapter[p.row.app].up, c)
    BY <1>s, <2>1, <2>3, <2>5, <2>6
  <2> QED
    BY <2>2, <2>4, <2>7, OneSole
<1>8. CASE StoreFails(c)
  <2> DEFINE lost == q.alone /\ q.stage = "rollback"
             p == [q EXCEPT !.pc = "answered", !.out = NoOut, !.unrolled = lost]
  <2>1. q.pc \in {"sent", "half"} /\ UNCHANGED <<adapter, store, late>>
    BY <1>8 DEF StoreFails
  <2>2. call' = [call EXCEPT ![c].pc = "answered", ![c].out = NoOut, ![c].unrolled = lost]
    BY <1>8 DEF StoreFails
  <2>3. Active(q)
    BY <2>1 DEF Active
  <2>4. q.alone => (lost <=> q.stage = "rollback")
    OBVIOUS
  <2> HIDE DEF lost
  <2>5. call' = [call EXCEPT ![c] = p]
    BY <1>0, <2>2
  <2>6. /\ p.pc = "answered" /\ p.req = q.req /\ p.stage = q.stage /\ p.row = q.row
        /\ p.out = NoOut /\ p.prev = q.prev /\ p.expired = q.expired /\ p.before = q.before
        /\ p.unrolled = lost /\ p.alone = q.alone
    BY <1>0 DEF CallType
  <2>7. ~NoOut.ok
    BY DEF NoOut
  <2> HIDE DEF p
  <2>8. q.alone => SoleCall(p, s, up, c)
    BY <1>s, <2>1, <2>4, <2>6, <2>7, FailSole
  <2> QED
    BY <2>1, <2>3, <2>5, <2>6, <2>8, OneSole
<1> QED
  BY <1>1, <1>2, <1>3, <1>4, <1>5, <1>6, <1>7, <1>8 DEF RouterStep, HandlerStep

(* Every step keeps what is known of sole calls.                           *)
LEMMA SoleStep ==
  ASSUME TypeOK, RowsDeclared, SoleInv, [Next]_vars
  PROVE  SoleInv'
<1>1. ASSUME NEW q \in late, LateRead(q) PROVE SoleInv'
  <2>1. call' = call
    BY <1>1 DEF LateRead
  <2>2. \A c \in Callers : ~call[c].alone
    BY <1>1, Zenon DEF SoleInv
  <2> QED
    BY <2>1, <2>2, NobodySole
<1>2. ASSUME NEW q \in late, LateHandle(q) PROVE SoleInv'
  <2>1. \A c \in Callers : ~call'[c].alone
    BY <1>2, InterruptedNotSole DEF LateHandle, Disturbed, TypeOK
  <2> QED
    BY <2>1, NobodySole
<1>3. CASE UNCHANGED vars
  BY <1>3 DEF vars, SoleInv
<1>4. ASSUME NEW q \in late, LateFails(q) PROVE SoleInv'
  <2>1. call' = call
    BY <1>4 DEF LateFails
  <2>2. \A c \in Callers : ~call[c].alone
    BY <1>4, Zenon DEF SoleInv
  <2> QED
    BY <2>1, <2>2, NobodySole
<1> QED
  BY <1>1, <1>2, <1>3, <1>4, AdapterKeepsSole, CallKeepsSole, RouteKeepsSole DEF Next

-----------------------------------------------------------------------------
(* Theorems.                                                               *)

(* Type correctness of the app plane; a call under way was routed to an    *)
(* app, so that no socket is dialled for a name nobody owns.               *)
THEOREM TypeCorrect == Spec => []TypeOK
<1>1. IInv => TypeOK
  BY DEF IInv
<1> QED
  BY SpecIInv, <1>1, PTL

(* Register and MarkUnavailable leave all rows of an app with the same     *)
(* availability, for any number of adapters and callers and however        *)
(* registrations, lost answers and failed dials interleave.                *)
THEOREM RowsOfAppAgree == Spec => []RowsAgree
<1>1. IInv => RowsAgree
  BY DEF IInv
<1> QED
  BY SpecIInv, <1>1, PTL

(* A router call that found the socket dead and marked the app leaves no   *)
(* primitive of it callable until a registration of that app commits.      *)
THEOREM FailedDialStands == Spec => []FailedDialMarksApp
<1>1. IInv => FailedDialMarksApp
  BY DEF IInv
<1> QED
  BY SpecIInv, <1>1, PTL

(* The registry, driven by adapters and routers, implements AppDirectory:  *)
(* a name stays with the app that claimed it, and availability changes for *)
(* a whole app at once.                                                    *)
THEOREM PlaneImplementsDirectory == Spec => DirectorySpec
<1>1. Init => Directory!Init
  BY DEF Init, Directory!Init, NoRow
<1>2. IInv /\ [Next]_vars => [Directory!Next]_(Directory!dirVars)
  BY NextIInv, RowStepRefines DEF IInv
<1> QED
  BY SpecIInv, <1>1, <1>2, PTL DEF Spec, DirectorySpec, Directory!Spec
(* An adapter that restarts and registers its manifests again changes no   *)
(* row, normalising twice is normalising once, and a row carries the       *)
(* endpoints of the manifest of its name, whoever registered it and        *)
(* whatever was marked in between.                                         *)
THEOREM RegistrationIsStable == Spec => []NormalizeStable
<1>1. RowsDeclared => NormalizeStable
  <2> SUFFICES ASSUME RowsDeclared, NEW i \in 1..Len(Manifests),
                      registry[NormalizeAppPrimitiveManifest(Manifests[i]).name].app # NoApp
               PROVE  LET n == NormalizeAppPrimitiveManifest(Manifests[i])
                          row == registry[n.name]
                      IN  /\ row.verify = n.verifyEndpoint
                          /\ row.rollback = n.rollbackEndpoint
    BY DeclarationsStable DEF NormalizeStable, Normalized
  <2> DEFINE x == Manifests[i].name
  <2>1. NormalizeAppPrimitiveManifest(Manifests[i]).name = x /\ x \in Names
    BY ManifestAssumption, NormalizedName DEF Names
  <2>2. PICK j \in 1..Len(Manifests) :
          /\ Manifests[j].name = x
          /\ registry[x].verify = NormalizeAppPrimitiveManifest(Manifests[j]).verifyEndpoint
          /\ registry[x].rollback = NormalizeAppPrimitiveManifest(Manifests[j]).rollbackEndpoint
    BY <2>1 DEF RowsDeclared, DeclaredRow
  <2>3. j = i
    BY <2>2, KVManifestAssumption
  <2> QED
    BY <2>1, <2>2, <2>3
<1> QED
  BY SpecDeclared, <1>1, PTL
(* A kv call nobody interfered with and that met its deadline is all or    *)
(* nothing, for any number of callers, apps and keys, over both stores and *)
(* whichever statements fail: reported ok, its effect is there; reported   *)
(* as an error, the store is as the call found it; a kv.set that failed its*)
(* verification is undone, or is there as a whole after a failed statement *)
(* of its rollback, whose error the router drops.                          *)
THEOREM SoleCallIsAtomic == Spec => []SoleCallAtomic
<1>1. Init => SoleInv
  <2>1. Init => \A c \in Callers : ~call[c].alone
    BY DEF Init, NoCall
  <2> QED
    BY <2>1 DEF SoleInv
<1>2. IInv /\ RowsDeclared /\ SoleInv /\ [Next]_vars => SoleInv'
  BY SoleStep DEF IInv
<1>3. SoleInv => SoleCallAtomic
  <2> SUFFICES ASSUME SoleInv, NEW c \in Callers, call[c].pc = "done", call[c].alone
               PROVE  Atomic(call[c], store[call[c].row.app], c)
    BY DEF SoleCallAtomic, Atomic, Applied, First
  <2> QED
    BY DEF SoleInv, SoleCall
<1> QED
  BY SpecIInv, SpecDeclared, <1>1, <1>2, <1>3, PTL DEF Spec
=============================================================================
