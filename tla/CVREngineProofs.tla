---------------------------- MODULE CVREngineProofs ----------------------------
(***************************************************************************)
(* Theorems about CVREngine, for any set of tasks sharing the sandbox, any  *)
(* number of steps, any retry limit and any set of primitives.              *)
(***************************************************************************)
EXTENDS CVREngine, TLAPS

(* The retry limit the engine works with is a natural number. *)
LEMMA RetriesNat == Retries \in Nat \ {0}
  BY EngineAssumption DEF Retries

(* The first step exists. *)
LEMMA OneIsAStep == 1 \in Steps /\ NumSteps \in Steps /\ Steps \subseteq Nat
  BY NumStepsAssumption DEF Steps

(* An attempt's identity is one of the effects, and never the empty id. *)
LEMMA ThisType ==
  ASSUME TypeOK, NEW t \in Tasks
  PROVE  /\ This(t) \in Effects
         /\ This(t) # NoCkpt
         /\ Prim(t) \in Primitives
  <1>1. cur[t] \in Steps /\ attempt[t] \in 0..Retries
    BY DEF TypeOK, ControlTypeOK
  <1>2. This(t) \in Effects
    BY <1>1 DEF This, Effects
  <1>3. This(t) # NoCkpt
    BY DEF This, NoCkpt
  <1>4. Prim(t) \in Primitives
    BY <1>1 DEF Prim, TypeOK, ControlTypeOK
  <1> QED BY <1>2, <1>3, <1>4

(* Only attempts below the limit are retried. *)
LEMMA RetryBelowLimit ==
  ASSUME NEW rec, NEW kind, NEW a \in 0..Retries,
         EngineAction(rec, kind, a) = "RETRY"
  PROVE  a + 1 \in 0..Retries
  BY RetriesNat DEF EngineAction, PolicyDecide

(* Ending a step, one way or another, keeps the statuses in their type. *)
LEMMA StopStepType ==
  ASSUME TypeOK, NEW t \in Tasks, NEW s \in {"FAILED", "ROLLED_BACK"},
         StopStep(t, s)
  PROVE  LedgerTypeOK' /\ ControlTypeOK'
  <1>1. taskStatus' \in [Tasks -> {"PLANNING", "EXECUTING", "COMPLETED", "PAUSED"}]
    BY DEF TypeOK, LedgerTypeOK, StopStep
  <1>2. stepStatus' \in [Tasks -> [Steps -> {"PENDING", "RUNNING", "PASSED",
                                            "FAILED", "ROLLED_BACK"}]]
    BY DEF TypeOK, LedgerTypeOK, ControlTypeOK, StopStep
  <1>3. pc' \in [Tasks -> {"idle", "begin", "checkpoint", "exec", "verify",
                          "judge", "approllback", "restore", "done", "hung"}]
    BY DEF TypeOK, LedgerTypeOK, StopStep
  <1>4. ControlTypeOK'
    BY DEF TypeOK, ControlTypeOK, StopStep
  <1> QED BY <1>1, <1>2, <1>3, <1>4 DEF LedgerTypeOK

(* What running a primitive, or hanging in it, leaves behind. *)
Ran(t) ==
  /\ pc[t] = "exec" /\ pc'[t] \in {"verify", "judge", "hung"}
  /\ cur' = cur /\ attempt' = attempt /\ snaps' = snaps /\ refused' = refused
  /\ ws' \in {ws, ws \cup {This(t)}}
  /\ ignored' \in {ignored, ignored \cup {This(t)}}
  /\ app' \in {app, app \cup {This(t)}}

(* A primitive that answers, well or badly, has run. *)
LEMMA ExecRan ==
  ASSUME TypeOK, NEW t \in Tasks, ExecPrimitive(t)
  PROVE  Ran(t)
  <1>1. DOMAIN pc = Tasks
    BY DEF TypeOK, LedgerTypeOK
  <1>2. /\ pc[t] = "exec" /\ pc'[t] \in {"verify", "judge", "hung"}
        /\ cur' = cur /\ attempt' = attempt
        /\ \E done : Leaves(t, done)
    BY <1>1 DEF ExecPrimitive
  <1> QED BY <1>2 DEF Ran, Leaves

(* A call that hangs has run, or hangs in the verification. *)
LEMMA HangRan ==
  ASSUME TypeOK, NEW t \in Tasks, Hang(t)
  PROVE  /\ pc'[t] = "hung" /\ UNCHANGED <<ledgerVars, plan, cur, attempt, ckpt, outcome>>
         /\ pc' = [pc EXCEPT ![t] = "hung"]
         /\ Ran(t) \/ (pc[t] = "verify" /\ UNCHANGED dataVars)
  <1>1. DOMAIN pc = Tasks
    BY DEF TypeOK, LedgerTypeOK
  <1>2. /\ pc'[t] = "hung" /\ UNCHANGED <<ledgerVars, plan, cur, attempt, ckpt, outcome>>
        /\ \/ pc[t] = "exec" /\ \E done : Leaves(t, done)
           \/ pc[t] = "verify" /\ UNCHANGED dataVars
    BY <1>1 DEF Hang
  <1> QED BY <1>2 DEF Ran, Leaves, Hang

(* A restore, whole or half, brings back only what the checkpoint holds. *)
LEMMA RestoreMoves ==
  ASSUME TypeOK, CheckpointIsCurrent, NEW t \in Tasks, pc[t] = "restore",
         Restored(t) \/ HalfRestored(t)
  PROVE  /\ ckpt[t] = This(t) /\ This(t) \in DOMAIN snaps
         /\ ws' \subseteq ws \cup snaps[This(t)]
         /\ ws \cap snaps[This(t)] \subseteq ws'
         /\ ignored' \subseteq ignored
  <1>1. ckpt[t] = This(t) /\ This(t) \in DOMAIN snaps
    BY DEF CheckpointIsCurrent, CheckpointOf
  <1> QED BY <1>1 DEF Restored, HalfRestored

(* A step keeps every variable in its type. *)
LEMMA TypeStep ==
  ASSUME TypeOK, CheckpointIsCurrent, [Next]_vars
  PROVE  TypeOK'
  <1>1. CASE UNCHANGED vars
    BY <1>1 DEF vars, controlVars, dataVars, ledgerVars, TypeOK, LedgerTypeOK, ControlTypeOK,
                DataTypeOK
  <1>2. ASSUME NEW t \in Tasks, TaskStep(t)
        PROVE  TypeOK'
    <2>1. CASE RunTask(t)
      BY <2>1 DEF RunTask, dataVars, TypeOK, LedgerTypeOK, ControlTypeOK, DataTypeOK
    <2>2. CASE BeginAttempt(t)
      BY <2>2 DEF BeginAttempt, dataVars, Outcomes, TypeOK, LedgerTypeOK, ControlTypeOK, DataTypeOK
    <2>3. CASE Checkpoint(t)
      <3>1. LedgerTypeOK' /\ ControlTypeOK'
        BY <2>3, ThisType DEF Checkpoint, ledgerVars, TypeOK, LedgerTypeOK, ControlTypeOK
      <3>2. DataTypeOK'
        BY <2>3, ThisType DEF Checkpoint, TypeOK, DataTypeOK
      <3> QED BY <3>1, <3>2 DEF TypeOK
    <2>4. CASE CheckpointFails(t)
      BY <2>4 DEF CheckpointFails, dataVars, ledgerVars, TypeOK, LedgerTypeOK, ControlTypeOK, DataTypeOK
    <2>5. CASE ExecPrimitive(t)
      <3>1. PICK o \in ExecOutcomes, done \in SUBSET Prim(t).touches :
              /\ outcome' = [outcome EXCEPT ![t] = StrategyResultFromExecution(o)]
              /\ pc' = [pc EXCEPT ![t] = IF o = "ok" /\ HasStrategy(Prim(t))
                                         THEN "verify" ELSE "judge"]
        BY <2>5 DEF ExecPrimitive
      <3>2. StrategyResultFromExecution(o) \in Outcomes
        BY EngineAssumption DEF StrategyResultFromExecution, Outcomes
      <3>3. LedgerTypeOK' /\ ControlTypeOK'
        BY <2>5, <3>1, <3>2 DEF ExecPrimitive, ledgerVars, TypeOK, LedgerTypeOK, ControlTypeOK
      <3>4. DataTypeOK'
        BY <2>5, ExecRan, ThisType DEF Ran, TypeOK, DataTypeOK
      <3> QED BY <3>3, <3>4 DEF TypeOK
    <2>6. CASE Verify(t)
      <3>1. LedgerTypeOK' /\ DataTypeOK'
        BY <2>6 DEF Verify, dataVars, ledgerVars, TypeOK, LedgerTypeOK, DataTypeOK
      <3>2. PICK v \in {"passed", "failed", "timeout", "error"} :
              outcome' = [outcome EXCEPT ![t] = v]
        BY <2>6 DEF Verify
      <3>3. v \in Outcomes
        BY DEF Outcomes
      <3>4. ControlTypeOK'
        BY <2>6, <3>2, <3>3 DEF Verify, TypeOK, ControlTypeOK
      <3> QED BY <3>1, <3>4 DEF TypeOK
    <2>7. CASE StepPasses(t)
      <3>1. LedgerTypeOK'
        BY <2>7 DEF StepPasses, TypeOK, LedgerTypeOK, ControlTypeOK
      <3>2. cur[t] \in Steps /\ (cur[t] # NumSteps => cur[t] + 1 \in Steps)
        BY NumStepsAssumption DEF Steps, TypeOK, ControlTypeOK
      <3>3. ControlTypeOK'
        <4>1. CASE cur[t] = NumSteps
          BY <2>7, <4>1 DEF StepPasses, TypeOK, ControlTypeOK
        <4>2. CASE cur[t] # NumSteps
          <5>1. 0 \in 0..Retries
            BY RetriesNat
          <5>2. /\ cur' = [cur EXCEPT ![t] = cur[t] + 1]
                /\ attempt' = [attempt EXCEPT ![t] = 0]
                /\ UNCHANGED <<plan, ckpt, outcome>>
            BY <2>7, <4>2 DEF StepPasses
          <5> QED BY <3>2, <4>2, <5>1, <5>2 DEF TypeOK, ControlTypeOK
        <4> QED BY <4>1, <4>2
      <3>4. DataTypeOK'
        BY <2>7 DEF StepPasses, dataVars, TypeOK, DataTypeOK
      <3> QED BY <3>1, <3>3, <3>4 DEF TypeOK
    <2>8. CASE RetryOrStop(t)
      <3>1. DataTypeOK'
        BY <2>8 DEF RetryOrStop, dataVars, TypeOK, DataTypeOK
      <3>2. PICK kind \in {"duplicate", "other"} :
              \/ /\ EngineAction(Rec(t), kind, attempt[t]) = "RETRY"
                 /\ attempt' = [attempt EXCEPT ![t] = @ + 1]
                 /\ pc' = [pc EXCEPT ![t] = "begin"]
                 /\ UNCHANGED <<ledgerVars, plan, cur, ckpt, outcome>>
              \/ StopStep(t, "FAILED")
        BY <2>8 DEF RetryOrStop
      <3>3. CASE StopStep(t, "FAILED")
        BY <3>1, <3>3, StopStepType DEF TypeOK
      <3>4. CASE /\ EngineAction(Rec(t), kind, attempt[t]) = "RETRY"
                 /\ attempt' = [attempt EXCEPT ![t] = @ + 1]
                 /\ pc' = [pc EXCEPT ![t] = "begin"]
                 /\ UNCHANGED <<ledgerVars, plan, cur, ckpt, outcome>>
        <4>1. attempt[t] \in 0..Retries
          BY DEF TypeOK, ControlTypeOK
        <4>2. attempt[t] + 1 \in 0..Retries
          BY <3>4, <4>1, RetryBelowLimit
        <4> QED BY <3>1, <3>4, <4>2 DEF ledgerVars, TypeOK, LedgerTypeOK, ControlTypeOK
      <3> QED BY <3>2, <3>3, <3>4
    <2>9. CASE StartRollback(t)
      <3>1. DataTypeOK'
        BY <2>9 DEF StartRollback, dataVars, TypeOK, DataTypeOK
      <3>2. \/ \E s \in {"FAILED", "ROLLED_BACK"} : StopStep(t, s)
            \/ /\ pc' \in {[pc EXCEPT ![t] = "approllback"], [pc EXCEPT ![t] = "restore"]}
               /\ UNCHANGED <<ledgerVars, plan, cur, attempt, ckpt, outcome>>
        BY <2>9 DEF StartRollback
      <3> QED BY <3>1, <3>2, StopStepType DEF ledgerVars, TypeOK, LedgerTypeOK, ControlTypeOK
    <2>10. CASE AppRollback(t)
      <3>1. DataTypeOK'
        BY <2>10 DEF AppRollback, TypeOK, DataTypeOK
      <3>2. \/ StopStep(t, "ROLLED_BACK")
            \/ /\ pc' = [pc EXCEPT ![t] = "restore"]
               /\ UNCHANGED <<ledgerVars, plan, cur, attempt, ckpt, outcome>>
        BY <2>10 DEF AppRollback
      <3> QED BY <3>1, <3>2, StopStepType DEF ledgerVars, TypeOK, LedgerTypeOK, ControlTypeOK
    <2>11. CASE WorkspaceRestore(t)
      <3>1. /\ pc[t] = "restore" /\ (Restored(t) \/ HalfRestored(t))
            /\ refused' \in {refused, refused \cup {t}} /\ UNCHANGED <<app, snaps>>
        BY <2>11 DEF WorkspaceRestore
      <3>2. /\ This(t) \in DOMAIN snaps /\ ws' \subseteq ws \cup snaps[This(t)]
            /\ ignored' \subseteq ignored
        BY <3>1, RestoreMoves
      <3>3. DataTypeOK'
        BY <3>1, <3>2 DEF TypeOK, DataTypeOK
      <3> QED BY <2>11, <3>3, StopStepType DEF WorkspaceRestore, TypeOK
    <2>12. CASE RollbackFails(t)
      <3>1. DataTypeOK'
        BY <2>12, RestoreMoves DEF RollbackFails, TypeOK, DataTypeOK
      <3> QED BY <2>12, <3>1, StopStepType DEF RollbackFails, TypeOK
    <2>13. CASE Hang(t)
      <3>1. LedgerTypeOK' /\ ControlTypeOK'
        BY <2>13, HangRan DEF ledgerVars, TypeOK, LedgerTypeOK, ControlTypeOK
      <3>2. DataTypeOK'
        BY <2>13, HangRan, ThisType DEF Ran, dataVars, TypeOK, DataTypeOK
      <3> QED BY <3>1, <3>2 DEF TypeOK
    <2> QED BY <1>2, <2>1, <2>2, <2>3, <2>4, <2>5, <2>6, <2>7, <2>8, <2>9,
               <2>10, <2>11, <2>12, <2>13 DEF TaskStep
  <1> QED BY <1>1, <1>2 DEF Next

-----------------------------------------------------------------------------
(* What an action does to the control state of the task that takes it: it   *)
(* moves on inside the attempt, takes up the next attempt or the next step. *)
LEMMA ControlMoves ==
  ASSUME TypeOK, NEW t \in Tasks, TaskStep(t)
  PROVE  /\ plan' = plan
         /\ \A u \in Tasks : u # t => /\ pc'[u] = pc[u] /\ cur'[u] = cur[u]
                                     /\ attempt'[u] = attempt[u] /\ ckpt'[u] = ckpt[u]
                                     /\ outcome'[u] = outcome[u]
                                     /\ stepStatus'[u] = stepStatus[u]
                                     /\ taskStatus'[u] = taskStatus[u]
         /\ \/ /\ cur' = cur /\ attempt' = attempt
               /\ pc[t] \in {"verify", "judge", "approllback", "restore", "done", "hung"}
                  => pc'[t] \in {"verify", "judge", "approllback", "restore", "done", "hung"}
            \/ cur' = cur /\ attempt'[t] = attempt[t] + 1
            \/ cur'[t] = cur[t] + 1
  <1> USE DEF TypeOK, LedgerTypeOK, ControlTypeOK
  <1>1. CASE RunTask(t)
    BY <1>1 DEF RunTask
  <1>2. CASE BeginAttempt(t)
    BY <1>2 DEF BeginAttempt
  <1>3. CASE Checkpoint(t)
    BY <1>3 DEF Checkpoint, ledgerVars
  <1>4. CASE CheckpointFails(t)
    BY <1>4 DEF CheckpointFails, ledgerVars
  <1>5. CASE ExecPrimitive(t)
    BY <1>5 DEF ExecPrimitive, ledgerVars
  <1>6. CASE Verify(t)
    BY <1>6 DEF Verify, ledgerVars
  <1>7. CASE StepPasses(t)
    BY <1>7 DEF StepPasses
  <1>8. CASE RetryOrStop(t)
    BY <1>8 DEF RetryOrStop, StopStep, ledgerVars
  <1>9. CASE StartRollback(t)
    BY <1>9 DEF StartRollback, StopStep, ledgerVars
  <1>10. CASE AppRollback(t)
    BY <1>10 DEF AppRollback, StopStep, ledgerVars
  <1>11. CASE WorkspaceRestore(t)
    BY <1>11 DEF WorkspaceRestore, StopStep
  <1>12. CASE RollbackFails(t)
    BY <1>12 DEF RollbackFails, StopStep
  <1>13. CASE Hang(t)
    BY <1>13, HangRan DEF ledgerVars
  <1> QED BY <1>1, <1>2, <1>3, <1>4, <1>5, <1>6, <1>7, <1>8, <1>9, <1>10, <1>11,
             <1>12, <1>13 DEF TaskStep

(* What an action does to the workspace, the app's state and the snapshots. *)
LEMMA DataMoves ==
  ASSUME TypeOK, CheckpointIsCurrent, NEW t \in Tasks, TaskStep(t)
  PROVE  \/ UNCHANGED <<ws, ignored, app, snaps>>
         \/ Checkpoint(t)
         \/ Ran(t)
         \/ /\ This(t) \in DOMAIN snaps
            /\ ws' \subseteq ws \cup snaps[This(t)] /\ ignored' \subseteq ignored
            /\ UNCHANGED <<app, snaps>>
         \/ app' \in {app, app \ {This(t)}} /\ UNCHANGED <<ws, ignored, snaps>>
  <1>1. CASE ExecPrimitive(t) \/ Hang(t)
    BY <1>1, ExecRan, HangRan DEF dataVars
  <1>2. CASE WorkspaceRestore(t) \/ RollbackFails(t)
    BY <1>2, RestoreMoves DEF WorkspaceRestore, RollbackFails
  <1>3. CASE AppRollback(t)
    BY <1>3 DEF AppRollback
  <1>4. CASE \/ RunTask(t) \/ BeginAttempt(t) \/ CheckpointFails(t) \/ Verify(t)
             \/ StepPasses(t) \/ RetryOrStop(t) \/ StartRollback(t)
    BY <1>4 DEF RunTask, BeginAttempt, CheckpointFails, Verify, StepPasses,
                RetryOrStop, StartRollback, dataVars
  <1> QED BY <1>1, <1>2, <1>3, <1>4 DEF TaskStep

(* The loop indices are natural numbers. *)
LEMMA IndicesNat ==
  ASSUME ControlTypeOK, NEW t \in Tasks
  PROVE  cur[t] \in Nat /\ attempt[t] \in Nat
  <1>1. cur[t] \in Steps /\ attempt[t] \in 0..Retries
    BY DEF ControlTypeOK
  <1>2. cur[t] \in Nat
    BY <1>1, OneIsAStep
  <1>3. attempt[t] \in Nat
    BY <1>1, RetriesNat
  <1> QED BY <1>2, <1>3

(* What was executed stays executed. *)
LEMMA ExecutedGrows ==
  ASSUME TypeOK, TypeOK', NEW u \in Tasks, TaskStep(u),
         NEW t \in Tasks, NEW i \in Steps, NEW a \in 0..Retries, Executed(t, i, a)
  PROVE  Executed(t, i, a)'
  <1>1. /\ cur[t] \in Nat /\ attempt[t] \in Nat /\ i \in Nat /\ a \in Nat
        /\ cur'[t] \in Nat /\ attempt'[t] \in Nat
    <2>1. ControlTypeOK /\ ControlTypeOK'
      BY DEF TypeOK
    <2>2. cur'[t] \in Steps /\ attempt'[t] \in 0..Retries
      BY <2>1 DEF ControlTypeOK
    <2>3. cur[t] \in Nat /\ attempt[t] \in Nat
      BY <2>1, IndicesNat
    <2>4. cur'[t] \in Nat /\ i \in Nat
      BY <2>2, OneIsAStep
    <2>5. attempt'[t] \in Nat /\ a \in Nat
      BY <2>2, RetriesNat
    <2> QED BY <2>3, <2>4, <2>5
  <1>2. CASE t # u
    BY <1>2, ControlMoves DEF Executed
  <1>3. CASE t = u
    BY <1>1, <1>3, ControlMoves DEF Executed
  <1> QED BY <1>2, <1>3

(* The attempt about to be checkpointed or executed has not been executed. *)
LEMMA NotYetExecuted ==
  ASSUME TypeOK, NEW t \in Tasks, pc[t] \in {"checkpoint", "exec"}
  PROVE  ~Executed(t, cur[t], attempt[t])
  <1>1. cur[t] \in Nat /\ attempt[t] \in Nat
    BY IndicesNat DEF TypeOK
  <1> QED BY <1>1 DEF Executed

(* An effect of another attempt is not this one's. *)
LEMMA EffectsDiffer ==
  ASSUME NEW t, NEW i, NEW a, NEW u, NEW j, NEW b, <<t, i, a>> = <<u, j, b>>
  PROVE  t = u /\ i = j /\ a = b
  OBVIOUS

(* No action leaves an effect whose attempt has not been executed. *)
LEMMA ExecutedStep ==
  ASSUME IInv, TypeOK', [Next]_vars
  PROVE  EffectsWereExecuted'
  <1> USE DEF IInv
  <1>1. CASE UNCHANGED vars
    <2>1. /\ ws' = ws /\ ignored' = ignored /\ app' = app /\ snaps' = snaps
          /\ pc' = pc /\ cur' = cur /\ attempt' = attempt
      BY <1>1 DEF vars, controlVars, dataVars
    <2>2. \A t \in Tasks, i \in Steps, a \in 0..Retries :
            Executed(t, i, a)' <=> Executed(t, i, a)
      BY <2>1 DEF Executed
    <2> QED BY <2>1, <2>2 DEF EffectsWereExecuted
  <1>2. ASSUME NEW u \in Tasks, TaskStep(u),
               NEW t \in Tasks, NEW i \in Steps, NEW a \in 0..Retries
        PROVE  /\ <<t, i, a>> \in ws' \cup ignored' => Executed(t, i, a)'
               /\ <<t, i, a>> \in app' => Executed(t, i, a)'
               /\ \A c \in DOMAIN snaps' : <<t, i, a>> \in snaps'[c] => Executed(t, i, a)'
    <2>1. /\ <<t, i, a>> \in ws \cup ignored \cup app => Executed(t, i, a)
          /\ \A c \in DOMAIN snaps : <<t, i, a>> \in snaps[c] => Executed(t, i, a)
      BY DEF EffectsWereExecuted
    <2>2. Executed(t, i, a) => Executed(t, i, a)'
      BY <1>2, ExecutedGrows
    <2>3. CASE Checkpoint(u)
      BY <2>1, <2>2, <2>3 DEF Checkpoint
    <2>4. CASE Ran(u)
      <3>1. <<t, i, a>> = This(u) => Executed(t, i, a)'
        <4>1. <<t, i, a>> = This(u) => t = u /\ i = cur[u] /\ a = attempt[u]
          BY EffectsDiffer DEF This
        <4> QED BY <2>4, <4>1 DEF Executed, Ran
      <3>2. /\ ws' \cup ignored' \subseteq ws \cup ignored \cup {This(u)}
            /\ app' \subseteq app \cup {This(u)}
            /\ snaps' = snaps
        BY <2>4 DEF Ran
      <3> QED BY <2>1, <2>2, <3>1, <3>2
    <2>5. CASE UNCHANGED <<ws, ignored, app, snaps>>
      BY <2>1, <2>2, <2>5
    <2>6. CASE /\ This(u) \in DOMAIN snaps
               /\ ws' \subseteq ws \cup snaps[This(u)] /\ ignored' \subseteq ignored
               /\ UNCHANGED <<app, snaps>>
      BY <2>1, <2>2, <2>6
    <2>7. CASE app' \in {app, app \ {This(u)}} /\ UNCHANGED <<ws, ignored, snaps>>
      BY <2>1, <2>2, <2>7
    <2> QED BY <1>2, <2>3, <2>4, <2>5, <2>6, <2>7, DataMoves
  <1> QED BY <1>1, <1>2 DEF Next, EffectsWereExecuted

(* No action leaves an effect of a checkpointed primitive without its       *)
(* checkpoint, or puts an attempt's own effect into its checkpoint.         *)
LEMMA CoveredStep ==
  ASSUME IInv, TypeOK', [Next]_vars
  PROVE  EffectsAreCovered'
  <1> USE DEF IInv
  <1>1. CASE UNCHANGED vars
    BY <1>1 DEF vars, controlVars, dataVars, EffectsAreCovered
  <1>2. ASSUME NEW u \in Tasks, TaskStep(u)
        PROVE  EffectsAreCovered'
    <2>0. plan' = plan
      BY <1>2, ControlMoves
    <2>1. CASE Checkpoint(u)
      <3>1. This(u) \notin ws
        BY <2>1, NotYetExecuted DEF Checkpoint, This, EffectsWereExecuted, TypeOK,
                                    ControlTypeOK
      <3>2. /\ ws' = ws /\ ignored' = ignored
            /\ DOMAIN snaps' = DOMAIN snaps \cup {This(u)}
            /\ snaps'[This(u)] = ws
            /\ \A c \in DOMAIN snaps : c # This(u) => snaps'[c] = snaps[c]
        BY <2>1 DEF Checkpoint
      <3> QED BY <2>0, <3>1, <3>2 DEF EffectsAreCovered
    <2>2. CASE Ran(u)
      <3>1. ws' \cup ignored' \subseteq ws \cup ignored \cup {This(u)} /\ snaps' = snaps
        BY <2>2 DEF Ran
      <3>2. ShouldCheckpoint(InferPrimitiveIntent(plan[u][cur[u]])) => This(u) \in DOMAIN snaps
        BY <2>2 DEF Ran, CheckpointIsCurrent, CheckpointOf, Prim
      <3>3. ASSUME NEW t \in Tasks, NEW i \in Steps, NEW a \in 0..Retries,
                   <<t, i, a>> = This(u),
                   ShouldCheckpoint(InferPrimitiveIntent(plan[t][i]))
            PROVE  <<t, i, a>> \in DOMAIN snaps
        BY <3>2, <3>3, EffectsDiffer DEF This
      <3> QED BY <2>0, <3>1, <3>3 DEF EffectsAreCovered
    <2>3. CASE UNCHANGED <<ws, ignored, app, snaps>>
      BY <2>0, <2>3 DEF EffectsAreCovered
    <2>4. CASE /\ This(u) \in DOMAIN snaps
               /\ ws' \subseteq ws \cup snaps[This(u)] /\ ignored' \subseteq ignored
               /\ UNCHANGED <<app, snaps>>
      BY <2>0, <2>4 DEF EffectsAreCovered
    <2>5. CASE app' \in {app, app \ {This(u)}} /\ UNCHANGED <<ws, ignored, snaps>>
      BY <2>0, <2>5 DEF EffectsAreCovered
    <2> QED BY <1>2, <2>1, <2>2, <2>3, <2>4, <2>5, DataMoves
  <1> QED BY <1>1, <1>2 DEF Next

(* A refusal that was taken for a success is not forgotten. *)
LEMMA RefusedGrows ==
  ASSUME TypeOK, NEW t \in Tasks, TaskStep(t)
  PROVE  refused \subseteq refused'
  <1>1. CASE ExecPrimitive(t) \/ Hang(t)
    BY <1>1, ExecRan, HangRan DEF Ran, dataVars
  <1>2. CASE ~(ExecPrimitive(t) \/ Hang(t))
    BY <1>2 DEF TaskStep, RunTask, BeginAttempt, Checkpoint, CheckpointFails, Verify,
                StepPasses, RetryOrStop, StartRollback, AppRollback, WorkspaceRestore,
                RollbackFails, dataVars
  <1> QED BY <1>1, <1>2

(* Every action keeps the id the attempt holds the current attempt's own.   *)
LEMMA CheckpointStep ==
  ASSUME IInv, TypeOK', [Next]_vars
  PROVE  CheckpointIsCurrent'
  <1> USE DEF IInv
  <1>1. CASE UNCHANGED vars
    BY <1>1 DEF vars, controlVars, dataVars, CheckpointIsCurrent, CheckpointOf, This, Prim
  <1>2. ASSUME NEW u \in Tasks, TaskStep(u), NEW t \in Tasks
        PROVE  CheckpointOf(t)'
    <2>0. CheckpointOf(t) /\ This(u) # NoCkpt /\ plan' = plan
      BY <1>2, ThisType, ControlMoves DEF CheckpointIsCurrent
    <2>1. CASE t # u
      <3>1. /\ pc'[t] = pc[t] /\ ckpt'[t] = ckpt[t]
            /\ cur'[t] = cur[t] /\ attempt'[t] = attempt[t]
        BY <1>2, <2>1, ControlMoves
      <3>2. This(t)' = This(t) /\ Prim(t)' = Prim(t)
        BY <2>0, <3>1 DEF This, Prim
      <3>3. DOMAIN snaps \subseteq DOMAIN snaps'
        BY <1>2, DataMoves DEF Checkpoint, Ran
      <3>4. This(t) \notin app => This(t) \notin app'
        <4>1. This(t) # This(u)
          BY <2>1, EffectsDiffer DEF This
        <4>2. app' \subseteq app \cup {This(u)}
          BY <1>2, DataMoves DEF Checkpoint, Ran
        <4> QED BY <4>1, <4>2
      <3>5. refused \subseteq refused'
        BY <1>2, RefusedGrows
      <3> QED BY <2>0, <3>1, <3>2, <3>3, <3>4, <3>5 DEF CheckpointOf
    <2>2. CASE t = u
      <3>0. DOMAIN ckpt = Tasks /\ DOMAIN pc = Tasks
        BY DEF TypeOK, LedgerTypeOK, ControlTypeOK
      <3>1. CASE pc'[t] \in {"idle", "begin", "done", "hung"}
        BY <3>1 DEF CheckpointOf
      <3>2. CASE BeginAttempt(t)
        BY <2>0, <3>0, <3>2 DEF BeginAttempt, CheckpointOf, Prim
      <3>3. CASE Checkpoint(t)
        <4>1. /\ pc'[t] = "exec" /\ ckpt'[t] = This(t) /\ This(t) \in DOMAIN snaps'
              /\ cur' = cur /\ attempt' = attempt
          BY <3>0, <3>3 DEF Checkpoint
        <4> QED BY <2>0, <2>2, <4>1 DEF CheckpointOf, This
      <3>4. CASE CheckpointFails(t)
        BY <2>0, <3>0, <3>4 DEF CheckpointFails, dataVars, CheckpointOf, This
      <3>5. CASE ExecPrimitive(t)
        <4>1. /\ pc'[t] \in {"verify", "judge"} /\ pc[t] = "exec"
              /\ ckpt' = ckpt /\ snaps' = snaps /\ cur' = cur /\ attempt' = attempt
          BY <3>0, <3>5, ExecRan DEF ExecPrimitive, Ran
        <4> QED BY <2>0, <4>1 DEF CheckpointOf, This
      <3>6. CASE Verify(t)
        BY <2>0, <3>0, <3>6 DEF Verify, dataVars, CheckpointOf, This
      <3>7. CASE StartRollback(t)
        <4>1. /\ pc[t] = "judge" /\ snaps' = snaps /\ app' = app
              /\ cur' = cur /\ attempt' = attempt /\ ckpt' = ckpt
              /\ \/ pc'[t] \in {"approllback", "done"}
                 \/ /\ pc'[t] = "restore" /\ ckpt[t] # NoCkpt
                    /\ ~(Prim(t).app /\ Prim(t).rollback = "primitive")
          BY <3>0, <3>7 DEF StartRollback, dataVars, StopStep
        <4> QED BY <2>0, <4>1 DEF CheckpointOf, This, Prim
      <3>8. CASE AppRollback(t)
        <4>0. /\ pc[t] = "approllback" /\ snaps' = snaps
              /\ app' = app \ {This(t)} \/ t \in refused'
          BY <3>8 DEF AppRollback
        <4>1. /\ cur' = cur /\ attempt' = attempt /\ ckpt' = ckpt
              /\ \/ pc'[t] = "done"
                 \/ pc'[t] = "restore" /\ ckpt[t] # NoCkpt
          <5>1. CASE ckpt[t] = NoCkpt
            <6>1. StopStep(t, "ROLLED_BACK")
              BY <3>8, <5>1 DEF AppRollback
            <6> QED BY <3>0, <6>1 DEF StopStep
          <5>2. CASE ckpt[t] # NoCkpt
            BY <3>0, <3>8, <5>2 DEF AppRollback
          <5> QED BY <5>1, <5>2
        <4> QED BY <2>0, <4>0, <4>1 DEF CheckpointOf, This, Prim
      <3>9. CASE \/ RunTask(t) \/ StepPasses(t) \/ RetryOrStop(t)
                 \/ WorkspaceRestore(t) \/ RollbackFails(t) \/ Hang(t)
        <4>1. pc'[t] \in {"begin", "done", "hung"}
          BY <3>0, <3>9 DEF Hang, RunTask, StepPasses, RetryOrStop, WorkspaceRestore,
                            RollbackFails, StopStep
        <4> QED BY <3>1, <4>1
      <3> QED BY <1>2, <2>2, <3>2, <3>3, <3>4, <3>5, <3>6, <3>7, <3>8, <3>9 DEF TaskStep
    <2> QED BY <2>1, <2>2
  <1> QED BY <1>1, <1>2 DEF Next, CheckpointIsCurrent

(***************************************************************************)
(* The refinement: every step of the engine is a step of the ledger or      *)
(* leaves it alone, and it keeps the ledger in agreement with the code.     *)
(***************************************************************************)
LEMMA LedgerStep ==
  ASSUME IInv, TypeOK', NEW u \in Tasks, TaskStep(u)
  PROVE  /\ LedgerOf(u)'
         /\ LedgerNext \/ UNCHANGED ledgerVars
  <1> USE DEF IInv
  <1>0. /\ DOMAIN pc = Tasks /\ DOMAIN taskStatus = Tasks /\ DOMAIN stepStatus = Tasks
        /\ DOMAIN cur = Tasks /\ DOMAIN attempt = Tasks
        /\ DOMAIN stepStatus[u] = Steps /\ cur[u] \in Steps
        /\ cur[u] \in Nat /\ attempt[u] \in Nat
        /\ LedgerOf(u) /\ Steps \subseteq Nat
    BY IndicesNat, OneIsAStep DEF TypeOK, LedgerTypeOK, ControlTypeOK, LedgerMatches
  <1>1. CASE RunTask(u)
    <2>1. LedgerStart(u)
      BY <1>0, <1>1 DEF RunTask, LedgerOf, LedgerStart
    <2>2. LedgerOf(u)'
      BY <1>0, <1>1 DEF RunTask, LedgerOf
    <2> QED BY <2>1, <2>2 DEF LedgerNext
  <1>2. CASE BeginAttempt(u)
    <2>1. CASE attempt[u] = 0
      <3>1. LedgerBegin(u, cur[u])
        BY <1>0, <1>2, <2>1 DEF BeginAttempt, LedgerOf, LedgerBegin
      <3>2. LedgerOf(u)'
        BY <1>0, <1>2, <2>1 DEF BeginAttempt, LedgerOf
      <3> QED BY <1>0, <3>1, <3>2 DEF LedgerNext
    <2>2. CASE attempt[u] # 0
      <3>1. stepStatus' = stepStatus
        <4>1. stepStatus[u][cur[u]] = "RUNNING"
          BY <1>0, <1>2, <2>2 DEF BeginAttempt, LedgerOf
        <4>2. stepStatus \in [Tasks -> [Steps -> {"PENDING", "RUNNING", "PASSED",
                                                 "FAILED", "ROLLED_BACK"}]]
          BY DEF TypeOK, LedgerTypeOK
        <4>3. [stepStatus[u] EXCEPT ![cur[u]] = "RUNNING"] = stepStatus[u]
          BY <1>0, <4>1, <4>2
        <4>4. stepStatus' = [stepStatus EXCEPT ![u] = [stepStatus[u] EXCEPT ![cur[u]] = "RUNNING"]]
          BY <1>2 DEF BeginAttempt
        <4> QED BY <1>0, <4>2, <4>3, <4>4
      <3>2. LedgerOf(u)'
        BY <1>0, <1>2, <2>2, <3>1 DEF BeginAttempt, LedgerOf
      <3> QED BY <1>2, <3>1, <3>2 DEF ledgerVars, BeginAttempt
    <2> QED BY <2>1, <2>2
  <1>3. CASE Checkpoint(u) \/ CheckpointFails(u) \/ ExecPrimitive(u) \/ Hang(u) \/ Verify(u)
    <2>1. /\ UNCHANGED ledgerVars /\ UNCHANGED <<cur, attempt>>
          /\ pc[u] \notin {"idle", "begin", "done"}
          /\ pc'[u] \notin {"idle", "begin", "done"}
      BY <1>0, <1>3 DEF Checkpoint, CheckpointFails, ExecPrimitive, Hang, Verify
    <2> QED BY <1>0, <2>1 DEF LedgerOf, ledgerVars
  <1>4. CASE StepPasses(u)
    <2>1. LedgerPass(u, cur[u])
      BY <1>0, <1>4 DEF StepPasses, LedgerOf, LedgerPass
    <2>2. LedgerOf(u)'
      <3>1. CASE cur[u] = NumSteps
        BY <1>0, <1>4, <3>1 DEF StepPasses, LedgerOf
      <3>2. CASE cur[u] # NumSteps
        <4>1. /\ cur'[u] = cur[u] + 1 /\ attempt'[u] = 0 /\ pc'[u] = "begin"
              /\ taskStatus' = taskStatus
              /\ stepStatus'[u] = [stepStatus[u] EXCEPT ![cur[u]] = "PASSED"]
              /\ pc[u] = "judge"
          BY <1>0, <1>4, <3>2 DEF StepPasses
        <4>2. cur[u] + 1 \in Steps
          BY <1>0, <3>2, NumStepsAssumption DEF Steps
        <4>3. \A j \in Steps : j < cur'[u] => stepStatus'[u][j] = "PASSED"
          BY <1>0, <4>1 DEF LedgerOf
        <4>4. \A j \in Steps : j > cur[u] => stepStatus'[u][j] = "PENDING"
          BY <1>0, <4>1 DEF LedgerOf
        <4>5. stepStatus'[u][cur'[u]] = "PENDING"
          BY <1>0, <4>1, <4>2, <4>4
        <4>6. \A j \in Steps : j > cur'[u] => stepStatus'[u][j] = "PENDING"
          BY <1>0, <4>1, <4>4
        <4>7. taskStatus'[u] = "EXECUTING"
          BY <1>0, <4>1 DEF LedgerOf
        <4> QED BY <4>1, <4>3, <4>5, <4>6, <4>7 DEF LedgerOf
      <3> QED BY <3>1, <3>2
    <2> QED BY <1>0, <2>1, <2>2 DEF LedgerNext
  <1>5. ASSUME pc[u] \notin {"idle", "begin", "done"},
               NEW s \in {"FAILED", "ROLLED_BACK"}, StopStep(u, s)
        PROVE  LedgerOf(u)' /\ LedgerNext
    <2>1. LedgerStop(u, cur[u])
      BY <1>0, <1>5 DEF StopStep, LedgerOf, LedgerStop
    <2>2. LedgerOf(u)'
      BY <1>0, <1>5 DEF StopStep, LedgerOf
    <2> QED BY <1>0, <2>1, <2>2 DEF LedgerNext
  <1>6. CASE RetryOrStop(u)
    <2>1. CASE StopStep(u, "FAILED")
      BY <1>5, <1>6, <2>1 DEF RetryOrStop
    <2>2. CASE ~StopStep(u, "FAILED")
      <3>1. /\ UNCHANGED ledgerVars /\ cur' = cur /\ attempt'[u] = attempt[u] + 1
            /\ pc[u] = "judge" /\ pc'[u] = "begin"
        BY <1>0, <1>6, <2>2 DEF RetryOrStop
      <3> QED BY <1>0, <3>1 DEF LedgerOf, ledgerVars
    <2> QED BY <2>1, <2>2
  <1>7. CASE StartRollback(u) \/ AppRollback(u)
    <2>1. \/ /\ pc[u] \in {"judge", "approllback"}
             /\ \E s \in {"FAILED", "ROLLED_BACK"} : StopStep(u, s)
          \/ /\ UNCHANGED ledgerVars /\ cur' = cur /\ attempt' = attempt
             /\ pc[u] \in {"judge", "approllback"}
             /\ pc'[u] \in {"approllback", "restore"}
      BY <1>0, <1>7 DEF StartRollback, AppRollback
    <2> QED BY <1>0, <1>5, <2>1 DEF LedgerOf, ledgerVars
  <1>8. CASE WorkspaceRestore(u) \/ RollbackFails(u)
    BY <1>5, <1>8 DEF WorkspaceRestore, RollbackFails
  <1> QED BY <1>1, <1>2, <1>3, <1>4, <1>6, <1>7, <1>8 DEF TaskStep

(* The recorded statuses go on agreeing with where each task is. *)
LEMMA LedgerMatchesStep ==
  ASSUME IInv, TypeOK', [Next]_vars
  PROVE  LedgerMatches'
  <1>1. CASE UNCHANGED vars
    BY <1>1 DEF IInv, vars, controlVars, dataVars, ledgerVars, LedgerMatches, LedgerOf
  <1>2. ASSUME NEW u \in Tasks, TaskStep(u), NEW t \in Tasks
        PROVE  LedgerOf(t)'
    <2>1. CASE t = u
      BY <1>2, <2>1, LedgerStep
    <2>2. CASE t # u
      <3>1. /\ pc'[t] = pc[t] /\ cur'[t] = cur[t] /\ attempt'[t] = attempt[t]
            /\ stepStatus'[t] = stepStatus[t] /\ taskStatus'[t] = taskStatus[t]
        BY <1>2, <2>2, ControlMoves DEF IInv
      <3> QED BY <3>1 DEF IInv, LedgerMatches, LedgerOf
    <2> QED BY <2>1, <2>2
  <1> QED BY <1>1, <1>2 DEF Next, LedgerMatches

-----------------------------------------------------------------------------
(* The inductive invariant holds in every reachable state. *)
LEMMA InitIInv == Init => IInv
  <1> SUFFICES ASSUME Init PROVE IInv
    OBVIOUS
  <1>1. TypeOK
    <2>1. 0 \in 0..Retries
      BY RetriesNat
    <2>2. ControlTypeOK
      BY <2>1, OneIsAStep DEF Init, ControlTypeOK, Outcomes
    <2>3. LedgerTypeOK
      BY DEF Init, LedgerInit, LedgerTypeOK
    <2>4. DataTypeOK
      BY DEF Init, DataTypeOK
    <2> QED BY <2>2, <2>3, <2>4 DEF TypeOK
  <1>2. EffectsWereExecuted /\ EffectsAreCovered
    BY DEF Init, EffectsWereExecuted, EffectsAreCovered
  <1>3. CheckpointIsCurrent
    BY DEF Init, CheckpointIsCurrent, CheckpointOf
  <1>4. LedgerMatches
    <2> SUFFICES ASSUME NEW t \in Tasks PROVE LedgerOf(t)
      BY DEF LedgerMatches
    <2>1. \A j \in Steps : ~(j < 1)
      BY DEF Steps
    <2> QED BY <2>1, OneIsAStep DEF Init, LedgerInit, LedgerOf
  <1> QED BY <1>1, <1>2, <1>3, <1>4 DEF IInv

(* Every step preserves the inductive invariant. *)
LEMMA NextIInv == IInv /\ [Next]_vars => IInv'
  <1> SUFFICES ASSUME IInv, [Next]_vars PROVE IInv'
    OBVIOUS
  <1>1. TypeOK'
    BY TypeStep DEF IInv
  <1>2. EffectsWereExecuted'
    BY <1>1, ExecutedStep
  <1>3. EffectsAreCovered'
    BY <1>1, CoveredStep
  <1>4. CheckpointIsCurrent'
    BY <1>1, CheckpointStep
  <1>5. LedgerMatches'
    BY <1>1, LedgerMatchesStep
  <1> QED BY <1>1, <1>2, <1>3, <1>4, <1>5 DEF IInv

(* Every reachable state of the engine satisfies the inductive invariant.   *)
THEOREM EngineInvariant == Spec => []IInv
  BY InitIInv, NextIInv, PTL DEF Spec

(* The engine's variables keep their types, whatever is shared. *)
THEOREM EngineTypeOK == Spec => []TypeOK
  <1>1. IInv => TypeOK
    BY DEF IInv
  <1> QED BY <1>1, EngineInvariant, PTL

(***************************************************************************)
(* Snapshot first, for every number of tasks on one sandbox: an effect of a *)
(* primitive that calls for a checkpoint has the checkpoint of its own      *)
(* attempt, taken before the effect.                                        *)
(***************************************************************************)
THEOREM SnapshotFirst == Spec => []SnapshotPrecedesEffect
  <1>1. IInv => SnapshotPrecedesEffect
    BY DEF IInv, EffectsAreCovered, SnapshotPrecedesEffect
  <1> QED BY <1>1, EngineInvariant, PTL

(***************************************************************************)
(* A checkpointed step marked ROLLED_BACK has lost what its last attempt    *)
(* did to the workspace, ignored files included, and, with a rollback       *)
(* primitive, to the app's state, unless one of its rollback calls answered *)
(* Success=false, which the engine takes for done.                          *)
(***************************************************************************)
THEOREM RollbackIsReal == Spec => RollbackUndoesAttempt
  <1> DEFINE Undoes(t) ==
        /\ stepStatus[t][cur[t]] = "RUNNING"
        /\ stepStatus'[t][cur[t]] = "ROLLED_BACK"
        /\ ckpt[t] # NoCkpt
        /\ t \notin refused'
        => /\ This(t) \notin ws' \cup ignored'
           /\ Prim(t).app /\ Prim(t).rollback = "primitive"
                 => This(t) \notin app'
  <1>1. ASSUME IInv, [Next]_vars, NEW t \in Tasks PROVE Undoes(t)
    <2> SUFFICES ASSUME stepStatus[t][cur[t]] = "RUNNING",
                        stepStatus'[t][cur[t]] = "ROLLED_BACK",
                        ckpt[t] # NoCkpt, t \notin refused'
                 PROVE  /\ This(t) \notin ws' \cup ignored'
                        /\ Prim(t).app /\ Prim(t).rollback = "primitive"
                              => This(t) \notin app'
      OBVIOUS
    <2>1. CASE UNCHANGED vars
      BY <2>1 DEF vars, ledgerVars
    <2>2. ASSUME NEW u \in Tasks, TaskStep(u)
          PROVE  /\ This(t) \notin ws' \cup ignored'
                 /\ Prim(t).app /\ Prim(t).rollback = "primitive"
                       => This(t) \notin app'
      <3>1. u = t
        BY <1>1, <2>2, ControlMoves DEF IInv
      <3>2. DOMAIN stepStatus = Tasks /\ DOMAIN stepStatus[t] = Steps /\ cur[t] \in Steps
        BY <1>1 DEF IInv, TypeOK, LedgerTypeOK, ControlTypeOK
      <3>3. ~StopStep(t, "FAILED")
        BY <3>2 DEF StopStep
      <3>4. WorkspaceRestore(t)
        BY ZenonT(60), <2>2, <3>1, <3>2, <3>3
           DEF TaskStep, RunTask, BeginAttempt, Checkpoint, CheckpointFails,
               ExecPrimitive, Hang, Verify, StepPasses, RetryOrStop, StartRollback,
               AppRollback, RollbackFails, ledgerVars
      <3>5. /\ ckpt[t] = This(t) /\ This(t) \in DOMAIN snaps
            /\ Prim(t).app /\ Prim(t).rollback = "primitive" /\ t \notin refused
                 => This(t) \notin app
        BY <1>1, <3>4 DEF WorkspaceRestore, IInv, CheckpointIsCurrent, CheckpointOf
      <3>6. Restored(t) /\ app' = app /\ t \notin refused
        BY <3>4 DEF WorkspaceRestore
      <3> QED BY <1>1, <3>5, <3>6 DEF Restored, IInv, EffectsAreCovered
    <2> QED BY <1>1, <2>1, <2>2 DEF Next
  <1>2. IInv /\ [Next]_vars => [\A t \in Tasks : Undoes(t)]_vars
    BY <1>1
  <1> QED BY <1>2, EngineInvariant, PTL DEF Spec, RollbackUndoesAttempt

(***************************************************************************)
(* The engine implements the ledger: steps run in order, each ends once, a  *)
(* step that does not pass stops its task, a task completes with its last.  *)
(***************************************************************************)
THEOREM EngineImplementsLedger == Spec => LedgerSpec
  <1>1. Init => LedgerInit
    BY DEF Init
  <1>2. IInv /\ [Next]_vars => [LedgerNext]_ledgerVars
    <2> SUFFICES ASSUME IInv, [Next]_vars PROVE [LedgerNext]_ledgerVars
      OBVIOUS
    <2>1. CASE UNCHANGED vars
      BY <2>1 DEF vars
    <2>2. ASSUME NEW u \in Tasks, TaskStep(u) PROVE [LedgerNext]_ledgerVars
      <3>1. TypeOK'
        BY TypeStep DEF IInv
      <3> QED BY <2>2, <3>1, LedgerStep
    <2> QED BY <2>1, <2>2 DEF Next
  <1> QED BY <1>1, <1>2, EngineInvariant, PTL DEF Spec, LedgerSpec

-----------------------------------------------------------------------------
(* Passed work stays held while no further step passes and the set that     *)
(* holds it does not lose any.                                              *)
LEMMA HeldStays ==
  ASSUME NEW t \in Tasks, NEW A, NEW B, HoldsPassedWork(t, A), A \subseteq B,
         plan' = plan,
         \A i \in Steps : stepStatus'[t][i] = "PASSED" => stepStatus[t][i] = "PASSED"
  PROVE  \A i \in Steps :
           stepStatus'[t][i] = "PASSED" /\ "ws" \in plan'[t][i].touches =>
             \E a \in 0..Retries : <<t, i, a>> \in B
  BY DEF HoldsPassedWork

(* The step that is recorded as passed adds its own work to what is held.   *)
LEMMA PassedStepHolds ==
  ASSUME IInv, NEW t \in Tasks, PassedWorkOf(t), StepPasses(t)
  PROVE  PassedWorkOf(t)'
  <1>1. /\ plan' = plan /\ ws' = ws
        /\ cur[t] \in Steps /\ attempt[t] \in 0..Retries
        /\ pc'[t] \in {"begin", "done"}
        /\ \A i \in Steps : i # cur[t] => stepStatus'[t][i] = stepStatus[t][i]
    BY DEF StepPasses, dataVars, IInv, TypeOK, LedgerTypeOK, ControlTypeOK
  <1>2. HoldsPassedWork(t, ws)
    BY DEF PassedWorkOf
  <1>3. "ws" \in plan[t][cur[t]].touches => <<t, cur[t], attempt[t]>> \in ws
    BY DEF PassedWorkOf, StepPasses, Prim, This
  <1>4. HoldsPassedWork(t, ws)'
    <2> SUFFICES ASSUME NEW i \in Steps, stepStatus'[t][i] = "PASSED",
                        "ws" \in plan'[t][i].touches
                 PROVE  \E a \in 0..Retries : <<t, i, a>> \in ws'
      BY DEF HoldsPassedWork
    <2>1. CASE i = cur[t]
      BY <1>1, <1>3, <2>1
    <2>2. CASE i # cur[t]
      BY <1>1, <1>2, <2>2 DEF HoldsPassedWork
    <2> QED BY <2>1, <2>2
  <1> QED BY <1>1, <1>4 DEF PassedWorkOf

(***************************************************************************)
(* No step of the only task loses passed work: a primitive only adds to the *)
(* workspace, and a restore, also half of one, keeps the files that are in  *)
(* the workspace and in the checkpoint of the attempt that failed, which    *)
(* was taken after every earlier step had passed.                           *)
(***************************************************************************)
LEMMA PassedWorkStep ==
  ASSUME IInv, NEW t \in Tasks, PassedWorkOf(t), TaskStep(t)
  PROVE  PassedWorkOf(t)'
  <1>0. /\ DOMAIN pc = Tasks /\ DOMAIN ckpt = Tasks /\ DOMAIN outcome = Tasks
        /\ DOMAIN stepStatus = Tasks /\ DOMAIN stepStatus[t] = Steps
        /\ cur[t] \in Steps
        /\ HoldsPassedWork(t, ws)
    BY DEF IInv, TypeOK, LedgerTypeOK, ControlTypeOK, PassedWorkOf
  <1>1. plan' = plan
    BY ControlMoves DEF IInv
  <1>2. ASSUME NEW s \in {"RUNNING", "FAILED", "ROLLED_BACK"},
               stepStatus' = [stepStatus EXCEPT ![t][cur[t]] = s]
        PROVE  \A i \in Steps : stepStatus'[t][i] = "PASSED" => stepStatus[t][i] = "PASSED"
    BY <1>0, <1>2
  <1>3. ASSUME \A i \in Steps : stepStatus'[t][i] = "PASSED" => stepStatus[t][i] = "PASSED",
               ws \subseteq ws', pc'[t] \in {"begin", "done", "hung"}
        PROVE  PassedWorkOf(t)'
    <2>1. HoldsPassedWork(t, ws)'
      BY <1>0, <1>1, <1>3, HeldStays DEF HoldsPassedWork
    <2> QED BY <1>3, <2>1 DEF PassedWorkOf
  <1>4. CASE RunTask(t)
    <2>1. stepStatus' = stepStatus /\ ws' = ws /\ pc'[t] = "begin"
      BY <1>0, <1>4 DEF RunTask, dataVars
    <2> QED BY <1>3, <2>1
  <1>5. CASE BeginAttempt(t)
    <2>1. /\ stepStatus' = [stepStatus EXCEPT ![t][cur[t]] = "RUNNING"] /\ ws' = ws
          /\ ckpt'[t] = NoCkpt /\ pc'[t] \in {"checkpoint", "exec"}
          /\ outcome'[t] = ""
      BY <1>0, <1>5 DEF BeginAttempt, dataVars
    <2>2. HoldsPassedWork(t, ws)'
      BY <1>0, <1>1, <1>2, <2>1, HeldStays DEF HoldsPassedWork
    <2> QED BY <2>1, <2>2 DEF PassedWorkOf
  <1>6. CASE Checkpoint(t)
    <2>1. /\ stepStatus' = stepStatus /\ ws' = ws /\ pc'[t] = "exec"
          /\ cur' = cur /\ attempt' = attempt
          /\ snaps'[This(t)] = ws
      BY <1>0, <1>6 DEF Checkpoint, ledgerVars
    <2>2. This(t)' = This(t)
      BY <2>1 DEF This
    <2>3. HoldsPassedWork(t, ws)'
      BY <1>0, <1>1, <2>1, HeldStays DEF HoldsPassedWork
    <2>4. HoldsPassedWork(t, ws \cap snaps[This(t)])'
      BY <2>1, <2>2, <2>3 DEF HoldsPassedWork
    <2> QED BY <2>1, <2>3, <2>4 DEF PassedWorkOf
  <1>7. ASSUME stepStatus' = stepStatus, cur' = cur, attempt' = attempt,
               ckpt' = ckpt, snaps' = snaps, ws \subseteq ws', pc'[t] # "checkpoint",
               \/ pc[t] \in {"exec", "verify", "judge", "approllback", "restore"}
               \/ ckpt[t] = NoCkpt,
               \/ ~(pc'[t] = "verify" \/ (pc'[t] = "judge" /\ outcome'[t] = "passed"))
               \/ pc[t] = "verify"
               \/ "ws" \in Prim(t).touches => This(t) \in ws'
        PROVE  PassedWorkOf(t)'
    <2>1. This(t)' = This(t) /\ Prim(t)' = Prim(t)
      BY <1>1, <1>7 DEF This, Prim
    <2>2. HoldsPassedWork(t, ws)'
      BY <1>0, <1>1, <1>7, HeldStays DEF HoldsPassedWork
    <2>3. HoldsPassedWork(t, ws \cap snaps[This(t)])
          => HoldsPassedWork(t, ws \cap snaps[This(t)])'
      BY <1>1, <1>7, <2>1 DEF HoldsPassedWork
    <2>4. pc[t] = "verify" /\ "ws" \in Prim(t).touches => This(t) \in ws
      BY DEF PassedWorkOf
    <2>5. pc[t] \in {"exec", "verify", "judge", "approllback", "restore"} /\ ckpt[t] # NoCkpt
          => HoldsPassedWork(t, ws \cap snaps[This(t)])
      BY DEF PassedWorkOf
    <2> QED BY <1>7, <2>1, <2>2, <2>3, <2>4, <2>5 DEF PassedWorkOf
  <1>8. CASE CheckpointFails(t)
    <2>1. /\ pc[t] = "checkpoint" /\ pc'[t] = "judge" /\ stepStatus' = stepStatus
          /\ cur' = cur /\ attempt' = attempt /\ ckpt' = ckpt /\ snaps' = snaps
          /\ ws' = ws /\ outcome' = outcome
      BY <1>0, <1>8 DEF CheckpointFails, dataVars, ledgerVars
    <2>2. ckpt[t] = NoCkpt
      BY <2>1 DEF IInv, CheckpointIsCurrent, CheckpointOf
    <2>3. outcome[t] # "passed"
      BY <2>1 DEF PassedWorkOf
    <2> QED BY <1>7, <2>1, <2>2, <2>3
  <1>9. CASE ExecPrimitive(t)
    <2>1. PICK o \in ExecOutcomes, done \in SUBSET Prim(t).touches :
            /\ o = "ok" => done = Prim(t).touches
            /\ Leaves(t, done)
            /\ outcome' = [outcome EXCEPT ![t] = StrategyResultFromExecution(o)]
            /\ pc' = [pc EXCEPT ![t] = IF o = "ok" /\ HasStrategy(Prim(t))
                                       THEN "verify" ELSE "judge"]
      BY <1>9 DEF ExecPrimitive
    <2>2. /\ stepStatus' = stepStatus /\ cur' = cur /\ attempt' = attempt
          /\ ckpt' = ckpt /\ snaps' = snaps /\ pc[t] = "exec" /\ pc'[t] # "checkpoint"
      BY <1>0, <1>9, ExecRan DEF ExecPrimitive, Ran, IInv, ledgerVars
    <2>3. StrategyResultFromExecution(o) = "passed" => o = "ok"
      BY DEF StrategyResultFromExecution
    <2>4. pc'[t] = "verify" \/ (pc'[t] = "judge" /\ outcome'[t] = "passed") => o = "ok"
      BY <1>0, <2>1, <2>3
    <2>5. o = "ok" /\ "ws" \in Prim(t).touches => This(t) \in ws'
      BY <2>1 DEF Leaves
    <2>6. ws \subseteq ws'
      BY <2>1 DEF Leaves
    <2> QED BY <1>7, <2>2, <2>4, <2>5, <2>6
  <1>10. CASE Verify(t)
    <2>1. /\ pc[t] = "verify" /\ pc'[t] = "judge" /\ stepStatus' = stepStatus /\ cur' = cur
          /\ attempt' = attempt /\ ckpt' = ckpt /\ snaps' = snaps /\ ws' = ws
      BY <1>0, <1>10 DEF Verify, dataVars, ledgerVars
    <2> QED BY <1>7, <2>1
  <1>11. CASE StepPasses(t)
    BY <1>11, PassedStepHolds
  <1>12. ASSUME NEW s \in {"FAILED", "ROLLED_BACK"}, StopStep(t, s), ws \subseteq ws'
         PROVE  PassedWorkOf(t)'
    <2>1. stepStatus' = [stepStatus EXCEPT ![t][cur[t]] = s] /\ pc'[t] = "done"
      BY <1>0, <1>12 DEF StopStep
    <2> QED BY <1>2, <1>3, <1>12, <2>1
  <1>13. CASE RetryOrStop(t)
    <2>1. \/ StopStep(t, "FAILED") /\ ws' = ws
          \/ stepStatus' = stepStatus /\ ws' = ws /\ pc'[t] = "begin"
      BY <1>0, <1>13 DEF RetryOrStop, dataVars, ledgerVars
    <2> QED BY <1>3, <1>12, <2>1
  <1>14. CASE StartRollback(t) \/ AppRollback(t)
    <2>1. /\ ws' = ws /\ snaps' = snaps /\ pc[t] \in {"judge", "approllback"}
          /\ \/ \E s \in {"FAILED", "ROLLED_BACK"} : StopStep(t, s)
             \/ /\ pc'[t] \in {"approllback", "restore"} /\ stepStatus' = stepStatus
                /\ cur' = cur /\ attempt' = attempt /\ ckpt' = ckpt
      BY <1>0, <1>14 DEF StartRollback, AppRollback, dataVars, ledgerVars
    <2> QED BY <1>7, <1>12, <2>1
  <1>15. CASE WorkspaceRestore(t) \/ RollbackFails(t)
    <2>1. /\ \E s \in {"FAILED", "ROLLED_BACK"} : StopStep(t, s)
          /\ \/ ws' = ws
             \/ pc[t] = "restore" /\ (Restored(t) \/ HalfRestored(t))
      BY <1>15 DEF WorkspaceRestore, RollbackFails
    <2>2. CASE ws' = ws
      BY <1>12, <2>1, <2>2
    <2>3. CASE pc[t] = "restore" /\ (Restored(t) \/ HalfRestored(t))
      <3>1. /\ ckpt[t] # NoCkpt /\ ckpt[t] = This(t)
            /\ ws \cap snaps[This(t)] \subseteq ws'
        BY <2>3, RestoreMoves DEF IInv, CheckpointIsCurrent, CheckpointOf
      <3>2. HoldsPassedWork(t, ws \cap snaps[This(t)])
        BY <2>3, <3>1 DEF PassedWorkOf
      <3>3. /\ \A i \in Steps : stepStatus'[t][i] = "PASSED" => stepStatus[t][i] = "PASSED"
            /\ pc'[t] = "done"
        BY <1>0, <1>2, <2>1 DEF StopStep
      <3>4. HoldsPassedWork(t, ws)'
        BY <1>1, <3>1, <3>2, <3>3, HeldStays DEF HoldsPassedWork
      <3> QED BY <3>3, <3>4 DEF PassedWorkOf
    <2> QED BY <2>1, <2>2, <2>3
  <1>16. CASE Hang(t)
    <2>1. /\ stepStatus' = stepStatus /\ pc'[t] = "hung" /\ ws \subseteq ws'
      BY <1>16, HangRan DEF Ran, dataVars, ledgerVars, IInv
    <2> QED BY <1>3, <2>1
  <1> QED BY <1>4, <1>5, <1>6, <1>8, <1>9, <1>10, <1>11, <1>13, <1>14, <1>15,
             <1>16 DEF TaskStep

(***************************************************************************)
(* RunTask with the sandbox to itself: whatever fails later, and however it *)
(* is recovered, what a step that passed did to files git keeps stays in    *)
(* the workspace.                                                           *)
(***************************************************************************)
THEOREM SoleTaskKeepsWork == Spec => []SoleTaskKeepsPassedWork
  <1>1. Init => PassedWorkIsKept
    <2> SUFFICES ASSUME Init, NEW t \in Tasks PROVE PassedWorkOf(t)
      BY DEF PassedWorkIsKept
    <2>1. pc[t] = "idle" /\ \A i \in Steps : stepStatus[t][i] = "PENDING"
      BY DEF Init, LedgerInit
    <2> QED BY <2>1 DEF PassedWorkOf, HoldsPassedWork
  <1>2. IInv /\ PassedWorkIsKept /\ [Next]_vars => PassedWorkIsKept'
    <2> SUFFICES ASSUME IInv, PassedWorkIsKept, [Next]_vars, NEW t \in Tasks, Tasks = {t}
                 PROVE  PassedWorkOf(t)'
      BY DEF PassedWorkIsKept
    <2>1. PassedWorkOf(t)
      BY DEF PassedWorkIsKept
    <2>2. CASE UNCHANGED vars
      BY <2>1, <2>2 DEF vars, controlVars, dataVars, ledgerVars, PassedWorkOf, HoldsPassedWork, This, Prim
    <2>3. CASE Next
      <3>1. TaskStep(t)
        BY <2>3 DEF Next
      <3> QED BY <2>1, <3>1, PassedWorkStep
    <2> QED BY <2>2, <2>3
  <1>3. PassedWorkIsKept => SoleTaskKeepsPassedWork
    BY DEF PassedWorkIsKept, PassedWorkOf, HoldsPassedWork, SoleTaskKeepsPassedWork
  <1> QED BY <1>1, <1>2, <1>3, EngineInvariant, PTL DEF Spec
-----------------------------------------------------------------------------
(* How far an attempt has come. *)
Place(p) == CASE p = "idle" -> 0
              [] p = "begin" -> 1
              [] p = "checkpoint" -> 2
              [] p = "exec" -> 3
              [] p = "verify" -> 4
              [] p = "judge" -> 5
              [] p = "approllback" -> 6
              [] p = "restore" -> 7
              [] OTHER -> 8

(* A task goes on to a later step, to a later attempt of the step it is at, *)
(* or to a later place in the attempt.                                      *)
Advances(t) ==
  \/ cur'[t] > cur[t]
  \/ cur'[t] = cur[t] /\ attempt'[t] > attempt[t]
  \/ /\ cur'[t] = cur[t] /\ attempt'[t] = attempt[t]
     /\ Place(pc'[t]) > Place(pc[t])

(***************************************************************************)
(* Every step of the engine takes one task forward and none back.  A task   *)
(* has NumSteps steps of at most Retries + 1 attempts with nine places      *)
(* each, so there is no loop of retries, rollbacks or failed checkpoints in *)
(* executeStepWithRecovery that a task could stay in: with finitely many    *)
(* tasks, every behaviour stops changing.                                   *)
(***************************************************************************)
THEOREM EveryStepAdvances ==
  Spec => [][\E t \in Tasks :
               /\ Advances(t)
               /\ \A u \in Tasks \ {t} : /\ cur'[u] = cur[u] /\ attempt'[u] = attempt[u]
                                         /\ pc'[u] = pc[u]]_vars
  <1> DEFINE Forward == \E t \in Tasks :
               /\ Advances(t)
               /\ \A u \in Tasks \ {t} : /\ cur'[u] = cur[u] /\ attempt'[u] = attempt[u]
                                         /\ pc'[u] = pc[u]
  <1>1. ASSUME TypeOK, NEW t \in Tasks, TaskStep(t) PROVE Advances(t)
    <2>0. /\ DOMAIN pc = Tasks /\ DOMAIN cur = Tasks /\ DOMAIN attempt = Tasks
          /\ cur[t] \in Nat /\ attempt[t] \in Nat
      BY <1>1, IndicesNat DEF TypeOK, LedgerTypeOK, ControlTypeOK
    <2>1. ASSUME cur' = cur, attempt' = attempt, Place(pc'[t]) > Place(pc[t])
          PROVE  Advances(t)
      BY <2>1 DEF Advances
    <2>2. CASE RunTask(t) \/ BeginAttempt(t)
      <3>1. /\ cur' = cur /\ attempt' = attempt
            /\ \/ pc[t] = "idle" /\ pc'[t] = "begin"
               \/ pc[t] = "begin" /\ pc'[t] \in {"checkpoint", "exec"}
        BY <2>0, <2>2 DEF RunTask, BeginAttempt
      <3> QED BY <2>1, <3>1 DEF Place
    <2>3. CASE Checkpoint(t) \/ CheckpointFails(t)
      <3>1. cur' = cur /\ attempt' = attempt /\ pc[t] = "checkpoint" /\ pc'[t] \in {"exec", "judge"}
        BY <2>0, <2>3 DEF Checkpoint, CheckpointFails
      <3> QED BY <2>1, <3>1 DEF Place
    <2>4. CASE ExecPrimitive(t) \/ Hang(t) \/ Verify(t)
      <3>1. /\ cur' = cur /\ attempt' = attempt
            /\ \/ pc[t] = "exec" /\ pc'[t] \in {"verify", "judge", "hung"}
               \/ pc[t] = "verify" /\ pc'[t] \in {"judge", "hung"}
        BY <2>0, <2>4 DEF ExecPrimitive, Hang, Verify
      <3> QED BY <2>1, <3>1 DEF Place
    <2>5. ASSUME NEW s, StopStep(t, s), pc[t] \in {"judge", "approllback", "restore"}
          PROVE  Advances(t)
      <3>1. cur' = cur /\ attempt' = attempt /\ pc'[t] = "done"
        BY <2>0, <2>5 DEF StopStep
      <3> QED BY <2>1, <2>5, <3>1 DEF Place
    <2>6. CASE StepPasses(t)
      <3>1. \/ cur' = cur /\ attempt' = attempt /\ pc[t] = "judge" /\ pc'[t] = "done"
            \/ cur'[t] = cur[t] + 1
        BY <2>0, <2>6 DEF StepPasses
      <3>2. CASE cur'[t] = cur[t] + 1
        BY <2>0, <3>2 DEF Advances
      <3>3. CASE cur' = cur /\ attempt' = attempt /\ pc[t] = "judge" /\ pc'[t] = "done"
        BY <2>1, <3>3 DEF Place
      <3> QED BY <3>1, <3>2, <3>3
    <2>7. CASE RetryOrStop(t)
      <3>1. \/ StopStep(t, "FAILED") /\ pc[t] = "judge"
            \/ cur' = cur /\ attempt'[t] = attempt[t] + 1
        BY <2>0, <2>7 DEF RetryOrStop
      <3>2. CASE cur' = cur /\ attempt'[t] = attempt[t] + 1
        BY <2>0, <3>2 DEF Advances
      <3> QED BY <2>5, <3>1, <3>2
    <2>8. CASE StartRollback(t) \/ AppRollback(t)
      <3>1. \/ pc[t] \in {"judge", "approllback"} /\ \E s : StopStep(t, s)
            \/ /\ cur' = cur /\ attempt' = attempt
               /\ \/ pc[t] = "judge" /\ pc'[t] \in {"approllback", "restore"}
                  \/ pc[t] = "approllback" /\ pc'[t] = "restore"
        BY <2>0, <2>8 DEF StartRollback, AppRollback
      <3>2. CASE /\ cur' = cur /\ attempt' = attempt
                 /\ \/ pc[t] = "judge" /\ pc'[t] \in {"approllback", "restore"}
                    \/ pc[t] = "approllback" /\ pc'[t] = "restore"
        BY <2>1, <3>2 DEF Place
      <3> QED BY <2>5, <3>1, <3>2
    <2>9. CASE WorkspaceRestore(t) \/ RollbackFails(t)
      <3>1. pc[t] \in {"approllback", "restore"} /\ \E s : StopStep(t, s)
        BY <2>9 DEF WorkspaceRestore, RollbackFails
      <3> QED BY <2>5, <3>1
    <2> QED BY <1>1, <2>2, <2>3, <2>4, <2>6, <2>7, <2>8, <2>9 DEF TaskStep
  <1>2. ASSUME TypeOK, NEW t \in Tasks, TaskStep(t)
        PROVE  \A u \in Tasks \ {t} : /\ cur'[u] = cur[u] /\ attempt'[u] = attempt[u]
                                       /\ pc'[u] = pc[u]
    BY <1>2, ControlMoves
  <1>3. IInv /\ [Next]_vars => [Forward]_vars
    BY <1>1, <1>2 DEF Next, IInv
  <1> QED BY <1>3, EngineInvariant, PTL DEF Spec
================================================================================
