------------------------------ MODULE AppPlane ------------------------------
(***************************************************************************)
(* App primitives end to end: adapters that start, register their          *)
(* manifests one by one and die; the registry in the control store; the    *)
(* router that calls an adapter over its socket, verifies, and rolls back; *)
(* and the key-value adapter's handlers over its two stores.               *)
(*                                                                         *)
(* One call of the router is up to three requests on fresh connections     *)
(* (call, verify, rollback) under one deadline.  A request the router      *)
(* gives up on still runs in the adapter: it moves to "late".              *)
(***************************************************************************)
EXTENDS AppManifest, Naturals, Sequences, FiniteSets

CONSTANTS Apps,           \* app ids; every one serves the kv primitives
          Callers,        \* concurrent RPC calls
          Keys,           \* keys of the store
          Requests,       \* the requests callers may make
          Manifests,      \* the manifests an adapter registers, in order
          NoApp, Absent,  \* no owner; no value
          NoCount,        \* no expected_count
          Backend,        \* app -> the store its --store flag names
          MaxStarts,      \* bound: starts of adapter processes
          MaxCalls        \* bound: calls made in all

Methods == {"kv.set", "kv.delete", "kv.batch_set", "kv.import"}
Values == Callers
Contents == [Keys -> Values \cup {Absent}]
NoContents == [k \in Keys |-> Absent]

(* A request: the method, its keys, its mode, and the expected_count that  *)
(* kv.verify reads from the same parameters.                               *)
Request == [m : Methods, keys : Seq(Keys),
            mode : {"upsert", "create", "replace", "merge", "none"},
            exp : Nat \cup {NoCount}]

Names == {Manifests[i].name : i \in 1..Len(Manifests)}

(* setParams and deleteParams have one key.                                *)
ASSUME RequestAssumption ==
  /\ Requests \subseteq Request /\ Requests # {}
  /\ \A r \in Requests : Len(r.keys) > 0
  /\ \A r \in Requests : r.m \in {"kv.set", "kv.delete"} => Len(r.keys) = 1
ASSUME ManifestAssumption == Manifests \in Seq(AppPrimitiveManifest) /\ Names \subseteq Methods

(* The adapter's manifest file has a name once, verifies by kv.verify or   *)
(* not at all, and undoes a verified kv.set by kv.rollback_set.            *)
ASSUME KVManifestAssumption ==
  /\ \A i, j \in 1..Len(Manifests) : Manifests[i].name = Manifests[j].name => i = j
  /\ \A i \in 1..Len(Manifests) :
       LET n == NormalizeAppPrimitiveManifest(Manifests[i])
       IN  /\ n.verifyEndpoint \in {Empty, "kv.verify"}
           /\ n.name = "kv.set" /\ n.verifyEndpoint # Empty =>
                n.rollbackEndpoint = "kv.rollback_set"
ASSUME BackendAssumption == Backend \in [Apps -> {"memory", "sqlite"}]
ASSUME AbsentAssumption ==
  Absent \notin Callers /\ NoApp \notin Apps /\ NoCount \notin Nat

VARIABLES
  registry,  \* app_primitives: name -> its row
  adapter,   \* app -> its process: running, and the next manifest to register
  store,     \* app -> contents
  call,      \* caller -> the router's call
  late,      \* requests whose caller is gone, still to be handled
  starts, calls

vars == <<registry, adapter, store, call, late, starts, calls>>

NoRow == [app |-> NoApp, active |-> FALSE, verify |-> Empty, rollback |-> Empty]

NoOut == [ok |-> FALSE, prev |-> Absent, passed |-> FALSE]

NoCall == [pc |-> "idle", req |-> CHOOSE r \in Requests : TRUE, stage |-> "call",
           row |-> NoRow, seen |-> Absent, prev |-> Absent, out |-> NoOut,
           expired |-> FALSE, res |-> "none", marked |-> FALSE,
           before |-> NoContents, alone |-> FALSE, unrolled |-> FALSE]

Init == /\ registry = [n \in Names |-> NoRow]
        /\ adapter = [a \in Apps |-> [up |-> FALSE, next |-> 1]]
        /\ store = [a \in Apps |-> NoContents]
        /\ call = [c \in Callers |-> NoCall]
        /\ late = {}
        /\ starts = 0
        /\ calls = 0

-----------------------------------------------------------------------------
(* The registry.                                                           *)

RowsOf(reg, a) == {n \in DOMAIN reg : reg[n].app = a}

(* Mutant: only the registered row becomes active again.                   *)
RegisteredOneRow(reg, a, n) ==
  [reg EXCEPT ![n.name] = [app |-> a, active |-> TRUE, verify |-> n.verifyEndpoint,
                           rollback |-> n.rollbackEndpoint]]

(* The rows after Register: all rows of the app become active, the row of  *)
(* the name is written.                                                    *)
Registered(reg, a, n) ==
  [x \in DOMAIN reg |->
     IF x = n.name THEN [app |-> a, active |-> TRUE, verify |-> n.verifyEndpoint,
                         rollback |-> n.rollbackEndpoint]
     ELSE IF reg[x].app = a THEN [reg[x] EXCEPT !.active = TRUE] ELSE reg[x]]

(* Mutant: the owner of the name is not looked at.                         *)
ConflictIgnored(reg, a, n) == FALSE

(* The name is registered by another app.                                  *)
Conflict(reg, a, n) == reg[n.name].app \notin {NoApp, a}

(* Mutant: only the row that was called becomes unavailable.               *)
MarkedOneRow(reg, a) ==
  LET own == RowsOf(reg, a)
  IN  IF own = {} THEN reg ELSE [reg EXCEPT ![CHOOSE n \in own : TRUE].active = FALSE]

(* The rows after MarkUnavailable: nothing when the app has no row or they *)
(* are unavailable already, all rows of the app otherwise.                 *)
Marked(reg, a) ==
  [n \in DOMAIN reg |-> IF reg[n].app = a THEN [reg[n] EXCEPT !.active = FALSE]
                        ELSE reg[n]]

-----------------------------------------------------------------------------
(* The key-value adapter's handlers.                                       *)

Present(s) == {k \in Keys : s[k] # Absent}
KeysOf(r) == {r.keys[i] : i \in 1..Len(r.keys)}

(* validateBatchEntries: no key twice.                                     *)
BatchOK(r) == Cardinality(KeysOf(r)) = Len(r.keys)

Done(prev, s) == [out |-> [ok |-> TRUE, prev |-> prev, passed |-> TRUE], store |-> s]
Error(s) == [out |-> NoOut, store |-> s]

(* The stores' operations on the contents.                                 *)
Upserted(s, ks, v) == [k \in Keys |-> IF k \in ks THEN v ELSE s[k]]
Deleted(s, k, seen) == IF seen = Absent THEN s ELSE [s EXCEPT ![k] = Absent]
ReplaceAll(s, ks, v, merge) ==
  [k \in Keys |-> IF k \in ks THEN v ELSE IF merge THEN s[k] ELSE Absent]

(* lookupExistingKeys: what a "create" batch may not touch.                *)
NoneExists(s, ks) == ks \cap Present(s) = {}

(* The handlers: request r of caller v on contents s; seen is what the Get *)
(* of Upsert and Delete saw.                                               *)
handleSet(r, s, seen, v) ==
  IF r.mode = "create" /\ ~NoneExists(s, KeysOf(r)) THEN Error(s)
  ELSE Done(IF r.mode = "create" THEN Absent ELSE seen, Upserted(s, KeysOf(r), v))

handleDelete(r, s, seen) == Done(seen, Deleted(s, r.keys[1], seen))

handleBatchSet(r, s, v) ==
  IF BatchOK(r) /\ (r.mode # "create" \/ NoneExists(s, KeysOf(r)))
  THEN Done(Absent, Upserted(s, KeysOf(r), v)) ELSE Error(s)

handleImport(r, s, v) == Done(Absent, ReplaceAll(s, KeysOf(r), v, r.mode = "merge"))

(* kv.verify compares the number of entries with expected_count.           *)
handleVerify(r, s) ==
  [out |-> [ok |-> TRUE, prev |-> Absent,
            passed |-> r.exp = NoCount \/ Cardinality(Present(s)) = r.exp],
   store |-> s]

(* Mutant: a rolled back set always deletes its key.                       *)
RollbackByDelete(r, s, prev, seen) == Done(Absent, Deleted(s, r.keys[1], seen))

(* kv.rollback_set puts the previous value back or deletes what the set    *)
(* created.                                                                *)
handleRollbackSet(r, s, prev, seen) ==
  Done(Absent, IF prev # Absent THEN Upserted(s, {r.keys[1]}, prev)
               ELSE Deleted(s, r.keys[1], seen))

(* The method a stage of the router's call asks for.                       *)
MethodOf(q) == CASE q.stage = "call" -> q.req.m
                 [] q.stage = "verify" -> q.row.verify
                 [] OTHER -> q.row.rollback

(* The memory store holds its lock from the first read to the last write;  *)
(* over SQLite, Upsert and Delete are a SELECT and a later statement.      *)
UnderLock(b) == b = "memory"

TwoStatements(q, b) ==
  /\ ~UnderLock(b)
  /\ \/ MethodOf(q) \in {"kv.rollback_set", "kv.delete"}
     \/ MethodOf(q) = "kv.set" /\ q.req.mode # "create"

(* dispatch: any name but the adapter's own is not found; state.restore is *)
(* none of them.                                                           *)
dispatch(m, r, s, prev, seen, v) ==
  CASE m = "kv.set" -> handleSet(r, s, seen, v)
    [] m = "kv.delete" -> handleDelete(r, s, seen)
    [] m = "kv.batch_set" -> handleBatchSet(r, s, v)
    [] m = "kv.import" -> handleImport(r, s, v)
    [] m = "kv.verify" -> handleVerify(r, s)
    [] m = "kv.rollback_set" -> handleRollbackSet(r, s, prev, seen)
    [] OTHER -> Error(s)

(* The outcome and the contents of the statement that answers request q.   *)
Answer(q, s, v) ==
  dispatch(MethodOf(q), q.req, s, q.prev,
           IF q.pc = "half" THEN q.seen ELSE s[q.req.keys[1]], v)

-----------------------------------------------------------------------------
(* Adapter processes.                                                      *)

Active(q) == q.pc \notin {"idle", "done"}

(* History: what is remembered of a call that returned, when a property    *)
(* asks about it, the failed statement of its rollback (unrolled) included;*)
(* and the calls whose window something else reached into.                 *)
Forget(q) == IF q.pc # "done" \/ q.alone \/ q.marked THEN q
             ELSE [NoCall EXCEPT !.pc = "done"]
Interrupted(q) ==
  Forget([q EXCEPT !.alone = FALSE, !.before = NoContents, !.unrolled = FALSE])
Disturbed(f) == [c \in Callers |-> Interrupted(f[c])]

(* The call returns; the router keeps nothing of it.                       *)
Returned(q, res) ==
  Forget([q EXCEPT !.pc = "done", !.res = res, !.stage = "call", !.seen = Absent,
                   !.prev = Absent, !.out = NoOut, !.expired = FALSE])

(* run: open the store (the memory store starts empty), bind the socket.   *)
StartAdapter(a) ==
  /\ ~adapter[a].up
  /\ starts < MaxStarts
  /\ adapter' = [adapter EXCEPT ![a] = [up |-> TRUE, next |-> 1]]
  /\ store' = IF Backend[a] = "memory"
              THEN [store EXCEPT ![a] = NoContents] ELSE store
  /\ call' = Disturbed(call)
  /\ starts' = starts + 1
  /\ UNCHANGED <<registry, late, calls>>

(* The process ends: its socket goes, requests in its hands are lost, their*)
(* connections break; an answer already written can still be read.         *)
AdapterGone(a, f) ==
  /\ adapter' = [adapter EXCEPT ![a].up = FALSE]
  /\ late' = {q \in late : q.row.app # a}
  /\ call' = [c \in Callers |->
                [Interrupted(f[c]) EXCEPT
                   !.pc = IF @ \in {"sent", "half"} /\ f[c].row.app = a
                          THEN "broken" ELSE @]]

(* A crash, or SIGTERM, at any moment.                                     *)
StopAdapter(a) ==
  /\ adapter[a].up
  /\ AdapterGone(a, call)
  /\ UNCHANGED <<registry, store, starts, calls>>

(* A failed dial seen before this registration says nothing of the app now.*)
Reactivated(a) ==
  [c \in Callers |-> IF call[c].row.app = a THEN Forget([call[c] EXCEPT !.marked = FALSE])
                     ELSE call[c]]

(* Register of the adapter's next manifest commits.                        *)
Commits(a) ==
  LET m == Manifests[adapter[a].next]
      n == NormalizeAppPrimitiveManifest(m)
  IN  /\ adapter[a].next <= Len(Manifests)
      /\ Acceptable(m) /\ ~Conflict(registry, a, n)
      /\ registry' = Registered(registry, a, n)

(* app.register of the next manifest.                                      *)
RegisterNext(a) ==
  /\ adapter[a].up
  /\ Commits(a)
  /\ call' = Reactivated(a)
  /\ adapter' = [adapter EXCEPT ![a].next = @ + 1]
  /\ UNCHANGED <<store, late, starts, calls>>

(* app.register is refused by the normalisation or because another app     *)
(* owns the name, fails in the store, or its answer is lost after the      *)
(* commit: the adapter's run returns the error and the process ends.       *)
RegisterFails(a) ==
  /\ adapter[a].up /\ adapter[a].next <= Len(Manifests)
  /\ \/ AdapterGone(a, call) /\ UNCHANGED registry
     \/ Commits(a) /\ AdapterGone(a, Reactivated(a))
  /\ UNCHANGED <<store, starts, calls>>

-----------------------------------------------------------------------------
(* The router.                                                             *)

(* Route: the row is read once; an unknown or unavailable name is refused  *)
(* without a call.                                                         *)
Route(c, r) ==
  /\ ~Active(call[c])
  /\ calls < MaxCalls
  /\ LET row == IF r.m \in Names THEN registry[r.m] ELSE NoRow
         fresh == [NoCall EXCEPT !.req = r, !.row = row]
         alone == late = {} /\ \A d \in Callers \ {c} : ~Active(call[d])
     IN  call' = [Disturbed(call) EXCEPT ![c] =
           IF row.app = NoApp \/ ~row.active THEN Returned(fresh, "error")
           ELSE [fresh EXCEPT !.pc = "dial", !.alone = alone,
                              !.before = IF alone THEN store[row.app] ELSE @]]
  /\ calls' = calls + 1
  /\ UNCHANGED <<registry, adapter, store, late, starts>>

(* callAppSocket's dial: refused when nobody listens or the deadline of    *)
(* the whole call is over.                                                 *)
Dial(c) ==
  /\ call[c].pc = "dial"
  /\ call' = [call EXCEPT ![c].pc =
                IF adapter[call[c].row.app].up /\ ~call[c].expired THEN "sent" ELSE "refused"]
  /\ UNCHANGED <<registry, adapter, store, late, starts, calls>>

(* What follows the end of a stage.  After a failed verification the       *)
(* rollback is tried and its own outcome is dropped.                       *)
Ended(q, ok, passed) ==
  LET stop(res) == Returned(q, res)
      go(stage) == [q EXCEPT !.pc = "dial", !.stage = stage]
  IN  CASE q.stage = "call" ->
               IF ~ok THEN stop("error")
               ELSE IF q.row.verify = Empty THEN stop("ok") ELSE go("verify")
        [] q.stage = "verify" ->
               IF ok /\ passed THEN stop("ok")
               ELSE IF q.row.rollback # Empty THEN go("rollback") ELSE stop("verify_failed")
        [] OTHER -> stop("verify_failed")

(* After a failed dial: MarkUnavailable(the app of the row read before),   *)
(* whose error is dropped; with the deadline over its transaction does not *)
(* begin.                                                                  *)
MarkUnavailable(c) ==
  /\ call[c].pc = "refused"
  /\ LET a == call[c].row.app
     IN  /\ registry' = IF call[c].expired THEN registry ELSE Marked(registry, a)
         /\ call' = [call EXCEPT ![c] =
                      Ended([@ EXCEPT !.marked = ~call[c].expired], FALSE, FALSE)]
  /\ UNCHANGED <<adapter, store, late, starts, calls>>

MarkFails(c) ==
  /\ call[c].pc = "refused"
  /\ call' = [call EXCEPT ![c] = Ended(@, FALSE, FALSE)]
  /\ UNCHANGED <<registry, adapter, store, late, starts, calls>>

(* The adapter's handler reads first (SQLite), then answers.               *)
HandleRead(c) ==
  /\ call[c].pc = "sent"
  /\ TwoStatements(call[c], Backend[call[c].row.app])
  /\ call' = [call EXCEPT ![c].pc = "half",
                          ![c].seen = store[call[c].row.app][call[c].req.keys[1]]]
  /\ UNCHANGED <<registry, adapter, store, late, starts, calls>>

Handle(c) ==
  LET q == call[c]
      ans == Answer(q, store[q.row.app], c)
  IN  /\ \/ q.pc = "half"
         \/ q.pc = "sent" /\ ~TwoStatements(q, Backend[q.row.app])
      /\ store' = [store EXCEPT ![q.row.app] = ans.store]
      /\ call' = [call EXCEPT ![c].pc = "answered", ![c].out = ans.out]
      /\ UNCHANGED <<registry, adapter, late, starts, calls>>

(* A request that comes to a statement of the SQLite store: dispatch finds *)
(* no handler for state.restore.                                           *)
UsesSQLite(q) == Backend[q.row.app] = "sqlite" /\ MethodOf(q) # "state.restore"

(* internalRPCError: a statement over SQLite fails, the SELECT or the      *)
(* later one, and the handler answers the error. Statements and            *)
(* transactions that fail change nothing. The memory store never fails.    *)
StoreFails(c) ==
  LET q == call[c]
  IN  /\ q.pc \in {"sent", "half"}
      /\ UsesSQLite(q)
      /\ call' = [call EXCEPT ![c].pc = "answered", ![c].out = NoOut,
                              ![c].unrolled = q.alone /\ q.stage = "rollback"]
      /\ UNCHANGED <<registry, adapter, store, late, starts, calls>>

(* The router reads the answer, or finds the connection closed.            *)
Receive(c) ==
  LET q == call[c]
  IN  /\ q.pc \in {"answered", "broken"}
      /\ ~q.expired
      /\ call' = [call EXCEPT ![c] =
           LET ok == q.pc = "answered" /\ q.out.ok
               kept == IF q.stage = "call" /\ ok THEN [q EXCEPT !.prev = q.out.prev] ELSE q
           IN  Ended(kept, ok, q.out.passed)]
      /\ UNCHANGED <<registry, adapter, store, late, starts, calls>>

(* The caller's context ends between two requests of the call ...          *)
Expire(c) ==
  /\ call[c].pc \in {"dial", "refused"} /\ ~call[c].expired
  /\ call' = [call EXCEPT ![c] = [Interrupted(@) EXCEPT !.expired = TRUE]]
  /\ UNCHANGED <<registry, adapter, store, late, starts, calls>>

(* ... or its deadline within one: the read fails and the adapter goes on  *)
(* with the request.  (A caller that only goes is noticed by the next dial.)*)
GiveUp(c) ==
  LET q == call[c]
  IN  /\ q.pc \in {"sent", "half", "answered", "broken"} /\ ~q.expired
      /\ late' = IF q.pc \in {"sent", "half"}
                 THEN late \cup {[pc |-> q.pc, req |-> q.req, stage |-> q.stage,
                                  row |-> q.row, seen |-> q.seen, prev |-> q.prev, by |-> c]}
                 ELSE late
      /\ call' = [call EXCEPT ![c] =
                    Ended([Interrupted(q) EXCEPT !.expired = TRUE], FALSE, FALSE)]
      /\ UNCHANGED <<registry, adapter, store, starts, calls>>

LateRead(q) ==
  /\ q \in late /\ q.pc = "sent" /\ TwoStatements(q, Backend[q.row.app])
  /\ late' = (late \ {q}) \cup
             {[q EXCEPT !.pc = "half", !.seen = store[q.row.app][q.req.keys[1]]]}
  /\ UNCHANGED <<registry, adapter, store, call, starts, calls>>

LateHandle(q) ==
  /\ q \in late
  /\ q.pc = "half" \/ ~TwoStatements(q, Backend[q.row.app])
  /\ store' = [store EXCEPT ![q.row.app] = Answer(q, @, q.by).store]
  /\ late' = late \ {q}
  /\ call' = Disturbed(call)
  /\ UNCHANGED <<registry, adapter, starts, calls>>

LateFails(q) ==
  /\ q \in late
  /\ UsesSQLite(q)
  /\ late' = late \ {q}
  /\ UNCHANGED <<registry, adapter, store, call, starts, calls>>

-----------------------------------------------------------------------------
AdapterStep(a) == StartAdapter(a) \/ StopAdapter(a) \/ RegisterNext(a) \/ RegisterFails(a)

RouterStep(c) == \/ Dial(c) \/ MarkUnavailable(c) \/ MarkFails(c)
                 \/ Receive(c) \/ Expire(c) \/ GiveUp(c)

HandlerStep(c) == HandleRead(c) \/ Handle(c) \/ StoreFails(c)

Next == \/ \E a \in Apps : AdapterStep(a)
        \/ \E c \in Callers : RouterStep(c) \/ HandlerStep(c)
        \/ \E c \in Callers, r \in Requests : Route(c, r)
        \/ \E q \in late : LateRead(q) \/ LateHandle(q) \/ LateFails(q)

Spec == Init /\ [][Next]_vars

-----------------------------------------------------------------------------
(* Properties.                                                             *)

(* The endpoints a row can have.                                           *)
Endpoints ==
  {Empty} \cup {NormalizeAppPrimitiveManifest(Manifests[i]).verifyEndpoint : i \in 1..Len(Manifests)}
          \cup {NormalizeAppPrimitiveManifest(Manifests[i]).rollbackEndpoint : i \in 1..Len(Manifests)}

RowType == [app : Apps \cup {NoApp}, active : BOOLEAN, verify : Endpoints, rollback : Endpoints]
OutType == [ok : BOOLEAN, prev : Values \cup {Absent}, passed : BOOLEAN]
Stages == {"call", "verify", "rollback"}

CallType ==
  [pc : {"idle", "dial", "refused", "sent", "half", "answered", "broken", "done"},
   req : Requests, stage : Stages, row : RowType,
   seen : Values \cup {Absent}, prev : Values \cup {Absent}, out : OutType,
   expired : BOOLEAN, res : {"none", "ok", "error", "verify_failed"},
   marked : BOOLEAN, before : Contents, alone : BOOLEAN, unrolled : BOOLEAN]

LateType ==
  [pc : {"sent", "half"}, req : Requests, stage : Stages, row : RowType,
   seen : Values \cup {Absent}, prev : Values \cup {Absent}, by : Callers]

(* Type invariant; a call under way was routed to an app.                  *)
TypeOK ==
  /\ registry \in [Names -> RowType]
  /\ adapter \in [Apps -> [up : BOOLEAN, next : Nat \ {0}]]
  /\ store \in [Apps -> Contents]
  /\ call \in [Callers -> CallType]
  /\ late \subseteq LateType
  /\ \A c \in Callers : Active(call[c]) => call[c].row.app \in Apps
  /\ \A q \in late : q.row.app \in Apps

(* All rows of an app agree on its availability: Register and              *)
(* MarkUnavailable change the whole app, however they interleave.          *)
RowsAgree ==
  \A m, n \in Names : registry[m].app = registry[n].app => registry[m].active = registry[n].active

(* A caller that found the socket dead has left every primitive of that    *)
(* app unavailable, until the adapter registers again.                     *)
FailedDialMarksApp ==
  \A c \in Callers : call[c].marked =>
    \A n \in RowsOf(registry, call[c].row.app) : ~registry[n].active

(* A kv call nobody interfered with and that met its deadline is all or    *)
(* nothing, whichever of its statements fail in the store: reported ok, its*)
(* effect is there; refused, or failed otherwise, the store is as it was.  *)
(* A kv.set that failed its verification is undone; when a statement of    *)
(* kv.rollback_set failed it is there as a whole, and the router says      *)
(* neither of the two, for it drops that answer.                           *)
SoleCallAtomic ==
  \A c \in Callers :
    LET q == call[c]
        now == store[q.row.app]
        applied == dispatch(q.req.m, q.req, q.before, Absent, q.before[q.req.keys[1]], c).store
    IN  q.pc = "done" /\ q.alone =>
          /\ q.res = "ok" => now = applied
          /\ q.res = "error" => now = q.before
          /\ q.res = "verify_failed" /\ q.req.m = "kv.set" =>
               now = IF q.unrolled THEN applied ELSE q.before

(* The registry implements the abstract directory: a name stays with the   *)
(* app that claimed it, availability moves per app.                        *)
Directory == INSTANCE AppDirectory
  WITH claims <- [n \in Names |-> registry[n].app],
       up <- {a \in Apps : \E n \in Names : registry[n].app = a /\ registry[n].active}

DirectorySpec == Directory!Spec

(* Every declaration the normalisation accepts, it accepts unchanged.      *)
NormalizeIdempotent ==
  LET Strings == {Empty, "p", "q"}
      Decls == {NoDecl} \cup {Decl(s, p, c) : s \in {Empty, "primitive", "command", "none", "x"},
                                p \in Strings, c \in {Empty, "cmd"}}
  IN  \A e \in Strings, d \in Decls :
        LET v == NormalizeAppPrimitiveVerify(e, d)
            r == NormalizeAppPrimitiveRollback(e, d)
        IN  /\ v # Refused => /\ NormalizeAppPrimitiveVerify(Endpoint(e, v), v) = v
                              /\ e # Empty => Endpoint(e, v) = e
            /\ r # Refused => /\ NormalizeAppPrimitiveRollback(Endpoint(e, r), r) = r
                              /\ e # Empty => Endpoint(e, r) = e

(* The manifests as Register writes them.                                  *)
Normalized == [i \in 1..Len(Manifests) |-> NormalizeAppPrimitiveManifest(Manifests[i])]

(* An adapter that reads its manifest back and registers it again changes  *)
(* nothing: normalisation is stable, never overrides an endpoint that was  *)
(* given, and the two spellings agree, so that the router (endpoint) and   *)
(* the engine (strategy) call the same primitive.                          *)
NormalizeStable ==
  /\ NormalizeIdempotent
  /\ \A i \in 1..Len(Manifests) :
       LET n == Normalized[i]
           row == registry[n.name]
       IN  row.app # NoApp => /\ row.verify = n.verifyEndpoint
                              /\ row.rollback = n.rollbackEndpoint
=============================================================================
