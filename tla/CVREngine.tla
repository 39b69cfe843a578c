------------------------------ MODULE CVREngine -------------------------------
(***************************************************************************)
(* The checkpoint-verify-recover engine: Engine.RunTask and                 *)
(* executeStepWithRecovery (internal/orchestrator/engine.go) around         *)
(* CVRCoordinator.Execute and its decision tree (internal/cvr).             *)
(*                                                                          *)
(* Every executor call (state.checkpoint, the primitive, the verification,  *)
(* the app's rollback primitive, state.restore) is one action, because each *)
(* is a separate call on a shared sandbox: nothing excludes another task    *)
(* between two of them.  What a call changes is kept as a set of effects:   *)
(* <<t, i, a>> is what attempt a of step i of task t did.                   *)
(***************************************************************************)
EXTENDS TaskLedger, FiniteSets

CONSTANTS MaxRetries,      \* Task.MaxRetries; 0 means "unset"
          Primitives,      \* the primitives a step may call
          DefaultStrategy, \* whether Engine.cvrStrategy is set
          ExecOutcomes     \* how the executor may answer a primitive call

Categories == {"mutation", "query", "verification", "rollback"}
Intents == [category : Categories, reversible : BOOLEAN,
            risk : {"low", "medium", "high"}]

(***************************************************************************)
(* A primitive as the engine sees it.  name is the family its name's prefix *)
(* puts it in; app says whether the app registry has a manifest for it, and *)
(* declared, verify and rollback are that manifest's fields ("undeclared"   *)
(* is a nil pointer, "restore" is the rollback primitive state.restore).    *)
(* touches is where its effects go: files that state.checkpoint captures,   *)
(* files .gitignore names, which it does not, or state the application      *)
(* owns.  command tells that it runs a command, whose children may keep the *)
(* pipes shell.exec reads.  A step that calls state.restore itself is left  *)
(* out.                                                                     *)
(***************************************************************************)
PrimitiveType ==
  [name     : {"query", "verification", "write", "other"},
   app      : BOOLEAN,
   declared : Intents,
   verify   : {"undeclared", "none", "declared"},
   rollback : {"undeclared", "none", "restore", "primitive"},
   touches  : SUBSET {"ws", "ignored", "app"},
   command  : BOOLEAN]

ASSUME EngineAssumption ==
  /\ MaxRetries \in Nat
  /\ Primitives \subseteq PrimitiveType
  /\ DefaultStrategy \in BOOLEAN
  /\ ExecOutcomes \subseteq {"ok", "fail", "error", "timeout"}

VARIABLES plan,     \* the primitive of every step: Step.Primitive
          pc,       \* where executeStepWithRecovery is
          cur,      \* RunTask's loop index
          attempt,  \* executeStepWithRecovery's loop index
          ckpt,     \* cvrResult.CheckpointID of the current attempt
          outcome,  \* cvrResult.StrategyResult.Outcome of the current attempt
          ws,       \* the effects present in the workspace
          ignored,  \* the effects present there in files git ignores
          app,      \* the effects present in application-owned state
          snaps,    \* every checkpoint taken, with the workspace it holds
          refused   \* tasks a rollback call of which answered Success=false

controlVars == <<plan, pc, cur, attempt, ckpt, outcome>>
dataVars == <<ws, ignored, app, snaps, refused>>
vars == <<ledgerVars, controlVars, dataVars>>

-----------------------------------------------------------------------------
(* Pure decisions. *)

NoCkpt == <<>>

Retries == IF MaxRetries > 0 THEN MaxRetries ELSE 3
TreeMaxRetries == 3 \* RecoveryCtx.MaxRetries, a literal in the coordinator

Effects == Tasks \X Steps \X (0..Retries)
Outcomes == {"", "passed", "failed", "timeout", "error"}

Intent(c, r, k) == [category |-> c, reversible |-> r, risk |-> k]

(* The name's prefix decides first; the manifest only for other names. *)
InferPrimitiveIntent(p) ==
  IF p.name = "query" THEN Intent("query", TRUE, "low")
  ELSE IF p.name = "verification" THEN Intent("verification", TRUE, "medium")
  ELSE IF p.name = "other" /\ p.app THEN p.declared
  ELSE Intent("mutation", FALSE, "high")

ShouldCheckpoint(intent) ==
  /\ intent.category = "mutation"
  /\ ~intent.reversible \/ intent.risk = "high"

(* resolveVerifyStrategy, and the choice between it and the default one. *)
HasStrategy(p) ==
  IF p.app /\ p.verify # "undeclared" THEN p.verify = "declared"
                                      ELSE DefaultStrategy

StrategyResultFromExecution(o) ==
  IF o \in {"timeout", "error"} THEN o
  ELSE IF o = "ok" THEN "passed" ELSE "failed"

(* The default decision tree: the first node that matches decides. The      *)
(* Duplicate node is there and unreachable, failureKindFromExecution never  *)
(* answers that kind.                                                       *)
TreeDecide(intent, out, a) ==
  IF ~intent.reversible /\ out = "failed" THEN "rollback"
  ELSE IF a >= TreeMaxRetries THEN "escalate"
  ELSE "retry"

ShouldPreferDeclaredRollback(p, out) ==
  /\ p.app /\ p.rollback # "undeclared"
  /\ p.declared.category = "mutation"
  /\ out \in {"failed", "error", "timeout"}

ShouldFailClosedWithoutRollback(p) ==
  /\ p.app /\ p.rollback = "undeclared"
  /\ p.declared.category = "mutation"
  /\ ~p.declared.reversible \/ p.declared.risk = "high"

(* RecoveryPolicy.Decide *)
PolicyDecide(kind, a) ==
  IF kind = "duplicate" \/ a >= Retries THEN "PAUSE" ELSE "RETRY"

(* What executeStepWithRecovery does about a failed attempt. The tree is    *)
(* asked only when the primitive ran; out = "" is a Layer A failure, which  *)
(* goes straight to the retry policy.                                       *)
RecoveryActionFor(p, out, a) ==
  IF ShouldPreferDeclaredRollback(p, out) THEN "rollback"
  ELSE IF out = "" THEN ""
  ELSE TreeDecide(InferPrimitiveIntent(p), out, a)

EngineAction(rec, kind, a) ==
  IF rec = "escalate" THEN "PAUSE"
  ELSE IF rec = "retry" /\ a < Retries THEN "RETRY"
  ELSE PolicyDecide(kind, a)

-----------------------------------------------------------------------------
Prim(t) == plan[t][cur[t]]
This(t) == <<t, cur[t], attempt[t]>>

LedgerTypeOK ==
  /\ taskStatus \in [Tasks -> {"PLANNING", "EXECUTING", "COMPLETED", "PAUSED"}]
  /\ stepStatus \in [Tasks -> [Steps -> {"PENDING", "RUNNING", "PASSED",
                                         "FAILED", "ROLLED_BACK"}]]
  /\ pc \in [Tasks -> {"idle", "begin", "checkpoint", "exec", "verify",
                       "judge", "approllback", "restore", "done", "hung"}]

ControlTypeOK ==
  /\ plan \in [Tasks -> [Steps -> Primitives]]
  /\ cur \in [Tasks -> Steps]
  /\ attempt \in [Tasks -> 0..Retries]
  /\ ckpt \in [Tasks -> Effects \cup {NoCkpt}]
  /\ outcome \in [Tasks -> Outcomes]

DataTypeOK ==
  /\ ws \subseteq Effects
  /\ ignored \subseteq Effects
  /\ app \subseteq Effects
  /\ refused \subseteq Tasks
  /\ DOMAIN snaps \subseteq Effects
  /\ snaps \in [DOMAIN snaps -> SUBSET Effects]

(* The type invariant. *)
TypeOK == LedgerTypeOK /\ ControlTypeOK /\ DataTypeOK

Init ==
  /\ LedgerInit
  /\ plan \in [Tasks -> [Steps -> Primitives]]
  /\ pc = [t \in Tasks |-> "idle"]
  /\ cur = [t \in Tasks |-> 1]
  /\ attempt = [t \in Tasks |-> 0]
  /\ ckpt = [t \in Tasks |-> NoCkpt]
  /\ outcome = [t \in Tasks |-> ""]
  /\ ws = {} /\ ignored = {} /\ app = {}
  /\ snaps = [e \in {} |-> {}]
  /\ refused = {}

(* RunTask up to its loop. *)
RunTask(t) ==
  /\ pc[t] = "idle"
  /\ taskStatus' = [taskStatus EXCEPT ![t] = "EXECUTING"]
  /\ pc' = [pc EXCEPT ![t] = "begin"]
  /\ UNCHANGED <<stepStatus, plan, cur, attempt, ckpt, outcome, dataVars>>

(* Mutant: the checkpoint id of the attempt before is kept. *)
BeginAttemptKeepsCkpt(t) ==
  /\ pc[t] = "begin"
  /\ stepStatus' = [stepStatus EXCEPT ![t][cur[t]] = "RUNNING"]
  /\ outcome' = [outcome EXCEPT ![t] = ""]
  /\ pc' = [pc EXCEPT ![t] = IF ShouldCheckpoint(InferPrimitiveIntent(Prim(t)))
                             THEN "checkpoint" ELSE "exec"]
  /\ UNCHANGED <<taskStatus, plan, cur, attempt, ckpt, dataVars>>

(* The head of the attempt loop, down to the coordinator's Layer A test. *)
BeginAttempt(t) ==
  /\ pc[t] = "begin"
  /\ stepStatus' = [stepStatus EXCEPT ![t][cur[t]] = "RUNNING"]
  /\ ckpt' = [ckpt EXCEPT ![t] = NoCkpt]
  /\ outcome' = [outcome EXCEPT ![t] = ""]
  /\ pc' = [pc EXCEPT ![t] = IF ShouldCheckpoint(InferPrimitiveIntent(Prim(t)))
                             THEN "checkpoint" ELSE "exec"]
  /\ UNCHANGED <<taskStatus, plan, cur, attempt, dataVars>>

(* Layer A: state.checkpoint answers an id and SaveManifest stores it. git  *)
(* add -A leaves ignored files out.                                         *)
Checkpoint(t) ==
  /\ pc[t] = "checkpoint"
  /\ snaps' = [e \in DOMAIN snaps \cup {This(t)} |->
                 IF e = This(t) THEN ws ELSE snaps[e]]
  /\ ckpt' = [ckpt EXCEPT ![t] = This(t)]
  /\ pc' = [pc EXCEPT ![t] = "exec"]
  /\ UNCHANGED <<ledgerVars, plan, cur, attempt, outcome, ws, ignored, app, refused>>

(* Mutant: the error is ignored and the primitive runs. *)
CheckpointFailsIgnored(t) ==
  /\ pc[t] = "checkpoint"
  /\ pc' = [pc EXCEPT ![t] = "exec"]
  /\ UNCHANGED <<ledgerVars, plan, cur, attempt, ckpt, outcome, dataVars>>

(* Layer A fails: the call, an answer without checkpoint_id, SaveManifest. *)
CheckpointFails(t) ==
  /\ pc[t] = "checkpoint"
  /\ pc' = [pc EXCEPT ![t] = "judge"]
  /\ UNCHANGED <<ledgerVars, plan, cur, attempt, ckpt, outcome, dataVars>>

(* What a call of the primitive leaves behind when it did its work in these *)
(* places.                                                                  *)
Leaves(t, done) ==
  /\ ws' = IF "ws" \in done THEN ws \cup {This(t)} ELSE ws
  /\ ignored' = IF "ignored" \in done THEN ignored \cup {This(t)} ELSE ignored
  /\ app' = IF "app" \in done THEN app \cup {This(t)} ELSE app
  /\ UNCHANGED <<snaps, refused>>

(* The primitive itself. A call that does not succeed may have had any part *)
(* of its effects: a timeout says nothing about what the sandbox did.       *)
ExecPrimitive(t) ==
  /\ pc[t] = "exec"
  /\ \E o \in ExecOutcomes, done \in SUBSET Prim(t).touches :
       /\ o = "ok" => done = Prim(t).touches
       /\ Leaves(t, done)
       /\ outcome' = [outcome EXCEPT ![t] = StrategyResultFromExecution(o)]
       /\ pc' = [pc EXCEPT ![t] = IF o = "ok" /\ HasStrategy(Prim(t))
                                  THEN "verify" ELSE "judge"]
  /\ UNCHANGED <<ledgerVars, plan, cur, attempt, ckpt>>

(* A command leaves a process behind that keeps the pipes open: shell.exec  *)
(* reads them to their end before it looks at its deadline, so the call     *)
(* does not return. verify.test runs a command too.                         *)
Hang(t) ==
  /\ \/ /\ pc[t] = "exec" /\ Prim(t).command
        /\ \E done \in SUBSET Prim(t).touches : Leaves(t, done)
     \/ /\ pc[t] = "verify"
        /\ UNCHANGED dataVars
  /\ pc' = [pc EXCEPT ![t] = "hung"]
  /\ UNCHANGED <<ledgerVars, plan, cur, attempt, ckpt, outcome>>

(* Layer B: the strategy's answer replaces the execution's. *)
Verify(t) ==
  /\ pc[t] = "verify"
  /\ \E v \in {"passed", "failed", "timeout", "error"} :
       outcome' = [outcome EXCEPT ![t] = v]
  /\ pc' = [pc EXCEPT ![t] = "judge"]
  /\ UNCHANGED <<ledgerVars, plan, cur, attempt, ckpt, dataVars>>

(* Mutant: the task is completed one step early. *)
StepPassesEarly(t) ==
  /\ pc[t] = "judge" /\ outcome[t] = "passed"
  /\ stepStatus' = [stepStatus EXCEPT ![t][cur[t]] = "PASSED"]
  /\ IF cur[t] >= NumSteps - 1
     THEN /\ taskStatus' = [taskStatus EXCEPT ![t] = "COMPLETED"]
          /\ pc' = [pc EXCEPT ![t] = "done"]
          /\ UNCHANGED <<cur, attempt>>
     ELSE /\ pc' = [pc EXCEPT ![t] = "begin"]
          /\ cur' = [cur EXCEPT ![t] = @ + 1]
          /\ attempt' = [attempt EXCEPT ![t] = 0]
          /\ UNCHANGED taskStatus
  /\ UNCHANGED <<plan, ckpt, outcome, dataVars>>

(* The attempt passed: RunTask records the step and takes the next one. *)
StepPasses(t) ==
  /\ pc[t] = "judge" /\ outcome[t] = "passed"
  /\ stepStatus' = [stepStatus EXCEPT ![t][cur[t]] = "PASSED"]
  /\ IF cur[t] = NumSteps
     THEN /\ taskStatus' = [taskStatus EXCEPT ![t] = "COMPLETED"]
          /\ pc' = [pc EXCEPT ![t] = "done"]
          /\ UNCHANGED <<cur, attempt>>
     ELSE /\ pc' = [pc EXCEPT ![t] = "begin"]
          /\ cur' = [cur EXCEPT ![t] = @ + 1]
          /\ attempt' = [attempt EXCEPT ![t] = 0]
          /\ UNCHANGED taskStatus
  /\ UNCHANGED <<plan, ckpt, outcome, dataVars>>

(* The step ends without passing and RunTask pauses the task. *)
StopStep(t, s) ==
  /\ stepStatus' = [stepStatus EXCEPT ![t][cur[t]] = s]
  /\ taskStatus' = [taskStatus EXCEPT ![t] = "PAUSED"]
  /\ pc' = [pc EXCEPT ![t] = "done"]
  /\ UNCHANGED <<plan, cur, attempt, ckpt, outcome>>

Rec(t) == RecoveryActionFor(Prim(t), outcome[t], attempt[t])

(* Mutant: a retry is not counted. *)
RetryOrStopUncounted(t) ==
  /\ pc[t] = "judge" /\ outcome[t] # "passed" /\ Rec(t) # "rollback"
  /\ \E kind \in {"duplicate", "other"} :
       \/ /\ EngineAction(Rec(t), kind, attempt[t]) = "RETRY"
          /\ pc' = [pc EXCEPT ![t] = "begin"]
          /\ UNCHANGED <<ledgerVars, plan, cur, attempt, ckpt, outcome>>
       \/ /\ EngineAction(Rec(t), kind, attempt[t]) = "PAUSE"
          /\ StopStep(t, "FAILED")
  /\ UNCHANGED dataVars

(* The recovery switch when it does not roll back. kind is                  *)
(* result.Error.Kind, which only tells a duplicate from everything else.    *)
RetryOrStop(t) ==
  /\ pc[t] = "judge" /\ outcome[t] # "passed" /\ Rec(t) # "rollback"
  /\ \E kind \in {"duplicate", "other"} :
       \/ /\ EngineAction(Rec(t), kind, attempt[t]) = "RETRY"
          /\ attempt' = [attempt EXCEPT ![t] = @ + 1]
          /\ pc' = [pc EXCEPT ![t] = "begin"]
          /\ UNCHANGED <<ledgerVars, plan, cur, ckpt, outcome>>
       \/ /\ EngineAction(Rec(t), kind, attempt[t]) = "PAUSE"
          /\ StopStep(t, "FAILED")
  /\ UNCHANGED dataVars

(* executeDeclaredRollback up to its first call: refuse, or choose between  *)
(* the app's rollback primitive and the workspace snapshot. With neither,   *)
(* an undeclared rollback is an error and a declared one is done.           *)
StartRollback(t) ==
  /\ pc[t] = "judge" /\ outcome[t] # "passed" /\ Rec(t) = "rollback"
  /\ LET p == Prim(t)
         declares(r) == p.app /\ p.rollback = r
     IN  \/ /\ ShouldFailClosedWithoutRollback(p)
            /\ StopStep(t, "FAILED")
         \/ /\ declares("primitive")
            /\ pc' = [pc EXCEPT ![t] = "approllback"]
            /\ UNCHANGED <<ledgerVars, plan, cur, attempt, ckpt, outcome>>
         \/ /\ ~ShouldFailClosedWithoutRollback(p) /\ ~declares("primitive")
            /\ ckpt[t] # NoCkpt
            /\ pc' = [pc EXCEPT ![t] = "restore"]
            /\ UNCHANGED <<ledgerVars, plan, cur, attempt, ckpt, outcome>>
         \/ /\ ~ShouldFailClosedWithoutRollback(p) /\ ~declares("primitive")
            /\ ckpt[t] = NoCkpt
            /\ StopStep(t, IF declares("none") THEN "ROLLED_BACK" ELSE "FAILED")
  /\ UNCHANGED dataVars

(* err is all executeAppRollback looks at: an answer that says Success=false *)
(* counts as done, whatever it left in place.                               *)
AppRollback(t) ==
  /\ pc[t] = "approllback"
  /\ \/ /\ app' = app \ {This(t)}
        /\ UNCHANGED refused
     \/ /\ "fail" \in ExecOutcomes
        /\ app' \in {app, app \ {This(t)}}
        /\ refused' = refused \cup {t}
  /\ IF ckpt[t] = NoCkpt
     THEN StopStep(t, "ROLLED_BACK")
     ELSE /\ pc' = [pc EXCEPT ![t] = "restore"]
          /\ UNCHANGED <<ledgerVars, plan, cur, attempt, ckpt, outcome>>
  /\ UNCHANGED <<ws, ignored, snaps>>

(* git restore brings the files of the checkpoint back, git clean -fdx then *)
(* removes all others, the ignored ones included.                           *)
Restored(t) ==
  /\ ws' = snaps[ckpt[t]]
  /\ ignored' = {}

(* Either command may stop half way, the second runs only after the first.  *)
HalfRestored(t) ==
  LET held == snaps[ckpt[t]] IN
  /\ ws' \in {f \in SUBSET (ws \cup held) : ws \cap held \subseteq f}
  /\ \/ UNCHANGED ignored
     \/ held \subseteq ws' /\ ignored' \in SUBSET ignored

(* state.restore answers without an error; executeWorkspaceRestore takes an *)
(* answer that says Success=false for done, too.                            *)
WorkspaceRestore(t) ==
  /\ pc[t] = "restore"
  /\ \/ /\ Restored(t)
        /\ UNCHANGED refused
     \/ /\ "fail" \in ExecOutcomes
        /\ HalfRestored(t)
        /\ refused' = refused \cup {t}
  /\ StopStep(t, "ROLLED_BACK")
  /\ UNCHANGED <<app, snaps>>

(* Mutant: the error is swallowed and the step counts as rolled back. *)
RollbackFailsSwallowed(t) ==
  /\ \/ /\ pc[t] = "approllback"
        /\ app' \in {app, app \ {This(t)}}
        /\ UNCHANGED <<ws, ignored>>
     \/ /\ pc[t] = "restore"
        /\ HalfRestored(t)
        /\ UNCHANGED app
  /\ StopStep(t, "ROLLED_BACK")
  /\ UNCHANGED <<snaps, refused>>

(* The rollback call in flight answers with an error, having done its work, *)
(* some of it or nothing.                                                   *)
RollbackFails(t) ==
  /\ \/ /\ pc[t] = "approllback"
        /\ app' \in {app, app \ {This(t)}}
        /\ UNCHANGED <<ws, ignored>>
     \/ /\ pc[t] = "restore"
        /\ HalfRestored(t)
        /\ UNCHANGED app
  /\ StopStep(t, "FAILED")
  /\ UNCHANGED <<snaps, refused>>

TaskStep(t) ==
  \/ RunTask(t)
  \/ BeginAttempt(t)
  \/ Checkpoint(t)
  \/ CheckpointFails(t)
  \/ ExecPrimitive(t)
  \/ Hang(t)
  \/ Verify(t)
  \/ StepPasses(t)
  \/ RetryOrStop(t)
  \/ StartRollback(t)
  \/ AppRollback(t)
  \/ WorkspaceRestore(t)
  \/ RollbackFails(t)

Next == \E t \in Tasks : TaskStep(t)

Spec == Init /\ [][Next]_vars

(* Each task is a goroutine, and every executor call it waits for returns   *)
(* by a deadline, unless a command's pipes stay open (Hang).                *)
FairSpec == Spec /\ \A t \in Tasks : WF_vars(TaskStep(t))

-----------------------------------------------------------------------------
(* Properties. *)

(***************************************************************************)
(* Snapshot first (docs/ARCHITECTURE.md:9): whatever other tasks do to the  *)
(* shared workspace, an effect found there that comes from a primitive      *)
(* whose intent calls for a checkpoint has a checkpoint of its own attempt, *)
(* and that checkpoint was taken before the effect existed.                 *)
(***************************************************************************)
SnapshotPrecedesEffect ==
  \A t \in Tasks, i \in Steps, a \in 0..Retries :
    /\ <<t, i, a>> \in ws \cup ignored
    /\ ShouldCheckpoint(InferPrimitiveIntent(plan[t][i]))
    => /\ <<t, i, a>> \in DOMAIN snaps
       /\ <<t, i, a>> \notin snaps[<<t, i, a>>]

(***************************************************************************)
(* executeDeclaredRollback and executeWorkspaceRestore: in the step that    *)
(* marks a checkpointed step ROLLED_BACK the workspace no longer holds what *)
(* the failed attempt did, ignored files included, and, when the app        *)
(* declares a rollback primitive, the app's state does not either.  This is *)
(* true of rollback calls that succeed.  A call that answers Success=false  *)
(* without an error (refused) is taken for a success all the same, since    *)
(* engine.go:414 and :429 discard the answer.                               *)
(***************************************************************************)
RollbackUndoesAttempt ==
  [][\A t \in Tasks :
       /\ stepStatus[t][cur[t]] = "RUNNING"
       /\ stepStatus'[t][cur[t]] = "ROLLED_BACK"
       /\ ckpt[t] # NoCkpt
       /\ t \notin refused'
       => /\ This(t) \notin ws' \cup ignored'
          /\ Prim(t).app /\ Prim(t).rollback = "primitive"
                => This(t) \notin app']_vars

(***************************************************************************)
(* RunTask with the sandbox to itself: recovering a later step, by retry or *)
(* by a restore that is complete, fails or stops half way, never takes away *)
(* what a step that passed did to files git keeps.  What it did to ignored  *)
(* files is in no checkpoint and goes with the next restore                 *)
(* (git clean -fdx, state.go:173).                                          *)
(***************************************************************************)
SoleTaskKeepsPassedWork ==
  \A t \in Tasks : Tasks = {t} =>
    \A i \in Steps :
      stepStatus[t][i] = "PASSED" /\ "ws" \in plan[t][i].touches =>
        \E a \in 0..Retries : <<t, i, a>> \in ws

(***************************************************************************)
(* Every task the engine picks up ends: the attempt loop is bounded, also   *)
(* where the tree's literal limit and the task's own differ, and every      *)
(* recovery path leads out of it.  Only a command whose pipes stay open     *)
(* holds a task for ever.                                                   *)
(***************************************************************************)
EveryTaskEnds ==
  \A t \in Tasks : <>(taskStatus[t] \in {"COMPLETED", "PAUSED"} \/ pc[t] = "hung")

-----------------------------------------------------------------------------
(* The inductive invariant behind the proofs. *)

(* Attempt a of step i of task t is over, or has at least been executed. *)
Executed(t, i, a) ==
  \/ i < cur[t]
  \/ /\ i = cur[t]
     /\ \/ a < attempt[t]
        \/ a = attempt[t] /\ pc[t] \in {"verify", "judge", "approllback",
                                        "restore", "done", "hung"}

(***************************************************************************)
(* No effect is anywhere, in the workspace or inside a checkpoint, before   *)
(* its attempt was executed: the reason a checkpoint taken on a workspace   *)
(* other tasks write to still precedes the attempt it belongs to.           *)
(***************************************************************************)
EffectsWereExecuted ==
  \A t \in Tasks, i \in Steps, a \in 0..Retries :
    /\ <<t, i, a>> \in ws \cup ignored => Executed(t, i, a)
    /\ <<t, i, a>> \in app => Executed(t, i, a)
    /\ \A c \in DOMAIN snaps : <<t, i, a>> \in snaps[c] => Executed(t, i, a)

(***************************************************************************)
(* Every effect of a checkpointed primitive, also one that only survives in *)
(* some checkpoint and would come back with a restore, has its checkpoint,  *)
(* and no checkpoint holds the effect of its own attempt.                   *)
(***************************************************************************)
EffectsAreCovered ==
  /\ \A t \in Tasks, i \in Steps, a \in 0..Retries :
       /\ ShouldCheckpoint(InferPrimitiveIntent(plan[t][i]))
       /\ <<t, i, a>> \in ws \cup ignored \/ \E c \in DOMAIN snaps : <<t, i, a>> \in snaps[c]
       => <<t, i, a>> \in DOMAIN snaps
  /\ \A c \in DOMAIN snaps : c \notin snaps[c]

(***************************************************************************)
(* The checkpoint id executeStepWithRecovery holds is the current           *)
(* attempt's, the checkpoint exists, a primitive that needs one does not    *)
(* run without it, and the app's rollback comes before the restore.         *)
(***************************************************************************)
CheckpointOf(t) ==
  /\ pc[t] = "checkpoint" => ckpt[t] = NoCkpt
  /\ /\ pc[t] \in {"exec", "verify", "judge", "approllback", "restore"}
     /\ ckpt[t] # NoCkpt
     => ckpt[t] = This(t) /\ This(t) \in DOMAIN snaps
  /\ pc[t] = "exec" /\ ShouldCheckpoint(InferPrimitiveIntent(Prim(t)))
     => ckpt[t] # NoCkpt
  /\ pc[t] = "restore" => ckpt[t] # NoCkpt
  /\ pc[t] = "restore" /\ Prim(t).app /\ Prim(t).rollback = "primitive"
     /\ t \notin refused
     => This(t) \notin app

CheckpointIsCurrent == \A t \in Tasks : CheckpointOf(t)

(* Where a task is in its code agrees with the statuses it has recorded. *)
LedgerOf(t) ==
  /\ pc[t] = "idle" => taskStatus[t] = "PLANNING" /\ cur[t] = 1 /\ attempt[t] = 0
  /\ pc[t] \notin {"idle", "done"} => taskStatus[t] = "EXECUTING"
  /\ pc[t] \in {"idle", "begin"} =>
       stepStatus[t][cur[t]] = IF attempt[t] = 0 THEN "PENDING" ELSE "RUNNING"
  /\ pc[t] \notin {"idle", "begin", "done"} => stepStatus[t][cur[t]] = "RUNNING"
  /\ \A j \in Steps : j < cur[t] => stepStatus[t][j] = "PASSED"
  /\ \A j \in Steps : j > cur[t] => stepStatus[t][j] = "PENDING"

LedgerMatches == \A t \in Tasks : LedgerOf(t)

IInv ==
  /\ TypeOK
  /\ EffectsWereExecuted
  /\ EffectsAreCovered
  /\ CheckpointIsCurrent
  /\ LedgerMatches

-----------------------------------------------------------------------------
(***************************************************************************)
(* With the sandbox to itself: what a step that passed did is in the        *)
(* workspace, and, the same effect, in the checkpoint a recovery may still  *)
(* restore, so that half a restore does not touch it either; and an attempt *)
(* about to be judged as passed has had its whole effect: one whose         *)
(* checkpoint failed still has no outcome.                                  *)
(***************************************************************************)
HoldsPassedWork(t, held) ==
  \A i \in Steps :
    stepStatus[t][i] = "PASSED" /\ "ws" \in plan[t][i].touches =>
      \E a \in 0..Retries : <<t, i, a>> \in held

PassedWorkOf(t) ==
  /\ HoldsPassedWork(t, ws)
  /\ /\ pc[t] \in {"exec", "verify", "judge", "approllback", "restore"}
     /\ ckpt[t] # NoCkpt
     => HoldsPassedWork(t, ws \cap snaps[This(t)])
  /\ /\ pc[t] = "verify" \/ (pc[t] = "judge" /\ outcome[t] = "passed")
     /\ "ws" \in Prim(t).touches
     => This(t) \in ws
  /\ pc[t] = "checkpoint" => outcome[t] = ""

PassedWorkIsKept == \A t \in Tasks : Tasks = {t} => PassedWorkOf(t)

===============================================================================
