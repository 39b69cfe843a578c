------------------------------ MODULE TaskLedger ------------------------------
(***************************************************************************)
(* What the orchestrator promises about a task, whatever happens inside a   *)
(* step: the steps of a task run strictly one after the other, each ends    *)
(* once, the first step that does not pass stops the task for good, and a   *)
(* task completes exactly when its last step passes.                        *)
(*                                                                          *)
(* CVREngine implements this specification: its checkpoints, attempts,      *)
(* verifications and rollbacks are all steps that leave the ledger alone.   *)
(***************************************************************************)
EXTENDS Naturals

CONSTANTS Tasks,    \* the tasks handed to Engine.RunTask
          NumSteps  \* the number of steps of a task

ASSUME NumStepsAssumption == NumSteps \in Nat \ {0}

VARIABLES taskStatus, \* Task.Status
          stepStatus  \* Task.Steps[i].Status

ledgerVars == <<taskStatus, stepStatus>>

Steps == 1..NumSteps

LedgerInit ==
  /\ taskStatus = [t \in Tasks |-> "PLANNING"]
  /\ stepStatus = [t \in Tasks |-> [i \in Steps |-> "PENDING"]]

(* RunTask picks the task up. *)
LedgerStart(t) ==
  /\ taskStatus[t] = "PLANNING"
  /\ taskStatus' = [taskStatus EXCEPT ![t] = "EXECUTING"]
  /\ UNCHANGED stepStatus

(* Step i begins: every earlier step has passed and it has not run before. *)
LedgerBegin(t, i) ==
  /\ taskStatus[t] = "EXECUTING"
  /\ stepStatus[t][i] = "PENDING"
  /\ \A j \in Steps : j < i => stepStatus[t][j] = "PASSED"
  /\ stepStatus' = [stepStatus EXCEPT ![t][i] = "RUNNING"]
  /\ UNCHANGED taskStatus

(* The running step passes; the task completes with its last step. *)
LedgerPass(t, i) ==
  /\ taskStatus[t] = "EXECUTING"
  /\ stepStatus[t][i] = "RUNNING"
  /\ stepStatus' = [stepStatus EXCEPT ![t][i] = "PASSED"]
  /\ taskStatus' = IF i = NumSteps
                   THEN [taskStatus EXCEPT ![t] = "COMPLETED"]
                   ELSE taskStatus

(* The running step ends any other way: the task pauses and stays paused. *)
LedgerStop(t, i) ==
  /\ taskStatus[t] = "EXECUTING"
  /\ stepStatus[t][i] = "RUNNING"
  /\ \E s \in {"FAILED", "ROLLED_BACK"} :
       stepStatus' = [stepStatus EXCEPT ![t][i] = s]
  /\ taskStatus' = [taskStatus EXCEPT ![t] = "PAUSED"]

LedgerNext ==
  \E t \in Tasks :
    \/ LedgerStart(t)
    \/ \E i \in Steps : LedgerBegin(t, i) \/ LedgerPass(t, i) \/ LedgerStop(t, i)

LedgerSpec == LedgerInit /\ [][LedgerNext]_ledgerVars
===============================================================================
