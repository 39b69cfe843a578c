------------------------------ MODULE ReviewGate ------------------------------
(***************************************************************************)
(* What the human review gate of a goal promises, whoever executes the goal *)
(* and however often: a reviewer approves steps, and a step whose risk      *)
(* level is "high" is called only once it has been approved.                *)
(***************************************************************************)
EXTENDS Integers

CONSTANT NumSteps

ASSUME NumStepsAssumption == NumSteps \in Nat

Steps == 1..NumSteps

VARIABLES risk,     \* the risk level the goal was created with, per step
          granted,  \* the steps a reviewer has approved
          executed  \* the steps whose primitive has been called

gateVars == <<risk, granted, executed>>

GateInit ==
  /\ risk \in [Steps -> {"low", "high"}]
  /\ granted = {}
  /\ executed = {}

Grant(i) ==
  /\ risk[i] = "high"
  /\ granted' = granted \cup {i}
  /\ UNCHANGED <<risk, executed>>

Call(i) ==
  /\ risk[i] = "high" => i \in granted
  /\ executed' = executed \cup {i}
  /\ UNCHANGED <<risk, granted>>

GateNext == \E i \in Steps : Grant(i) \/ Call(i)

GateSpec == GateInit /\ [][GateNext]_gateVars
===============================================================================
