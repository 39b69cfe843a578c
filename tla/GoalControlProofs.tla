--------------------------- MODULE GoalControlProofs ---------------------------
(***************************************************************************)
(* The review gate of GoalControl, for every number of steps, workers,      *)
(* review handlers, store failures and restarts.                            *)
(***************************************************************************)
EXTENDS GoalControl, TLAPS

(* All variables GoalControl declares, for the steps that change nothing. *)
USE DEF gateVars, storeVars, workerVars, deciderVars, bounds

(* The initial states are well typed and satisfy the inductive invariant. *)
LEMMA InitIInv == Init => IInv
<1> SUFFICES ASSUME Init PROVE IInv OBVIOUS
<1>1. GoalTypeOK
  BY DEF Init, GateInit, GoalTypeOK, GoalStatus, GoalStepStatus,
         GoalVerificationStatus
<1>2. WorkerTypeOK
  BY DEF Init, GateInit, WorkerTypeOK, WorkerPC, GoalStepStatus
<1>3. DeciderTypeOK
  BY GoalAssumption DEF Init, DeciderTypeOK, NoDecision, Decisions
<1>4. GateHolds /\ ApprovalsAreGrants /\ ReviewsAreForHighRisk
  BY DEF Init, GateInit, GateHolds, ApprovalsAreGrants, ApprovedSteps,
         ReviewsAreForHighRisk
<1>5. WorkersPassTheGate
  BY DEF Init, WorkersPassTheGate, PastGate
<1> QED BY <1>1, <1>2, <1>3, <1>4, <1>5 DEF IInv, TypeOK

(* The loop index stays a number when it is advanced or reset. *)
LEMMA IndexType ==
  ASSUME NEW w \in Workers, WorkerTypeOK
  PROVE  /\ [at EXCEPT ![w] = @ + 1] \in [Workers -> Nat]
         /\ [at EXCEPT ![w] = 1] \in [Workers -> Nat]
<1>1. at \in [Workers -> Nat] BY DEF WorkerTypeOK
<1>2. at[w] + 1 \in Nat BY <1>1
<1> QED BY <1>1, <1>2

(* A step of a worker before its loop keeps the types. *)
LEMMA PrepareType ==
  ASSUME NEW w \in Workers, TypeOK, Start(w) \/ Prepare(w)
  PROVE  TypeOK'
<1> USE DEF TypeOK, Goto
<1>1. CASE RequestExecute(w) \/ RequestResume(w)
  <2>1. GoalTypeOK' BY <1>1 DEF RequestExecute, RequestResume, GoalTypeOK
  <2>2. WorkerTypeOK' BY <1>1 DEF RequestExecute, RequestResume, WorkerTypeOK, WorkerPC
  <2>3. DeciderTypeOK'
    BY <1>1, GoalAssumption DEF RequestExecute, RequestResume, DeciderTypeOK
  <2> QED BY <2>1, <2>2, <2>3
<1>2. CASE ExecuteGet(w) \/ ResumeGet(w) \/ ReturnError(w)
  <2>1. GoalTypeOK' BY <1>2 DEF ExecuteGet, ResumeGet, ReturnError, GoalTypeOK
  <2>2. WorkerTypeOK'
    BY <1>2 DEF ExecuteGet, ResumeGet, ReturnError, WorkerTypeOK, WorkerPC
  <2>3. DeciderTypeOK' BY <1>2 DEF ExecuteGet, ResumeGet, ReturnError, DeciderTypeOK
  <2> QED BY <2>1, <2>2, <2>3
<1>3. CASE ResumeReviews(w)
  <2>1. GoalTypeOK' BY <1>3 DEF ResumeReviews, GoalTypeOK
  <2>2. ApprovedSteps \subseteq Steps BY DEF ApprovedSteps
  <2>3. WorkerTypeOK' BY <1>3, <2>2 DEF ResumeReviews, WorkerTypeOK, WorkerPC
  <2>4. DeciderTypeOK' BY <1>3 DEF ResumeReviews, DeciderTypeOK
  <2> QED BY <2>1, <2>3, <2>4
<1>4. CASE SetExecuting(w) \/ ListSteps(w)
  <2>1. GoalTypeOK' BY <1>4 DEF SetExecuting, ListSteps, GoalTypeOK, GoalStatus
  <2>2. WorkerTypeOK'
    <3>1. at' \in [Workers -> Nat]
      <4>1. at' \in {at, [at EXCEPT ![w] = @ + 1], [at EXCEPT ![w] = 1]}
        BY <1>4 DEF SetExecuting, ListSteps
      <4> QED BY <4>1, IndexType DEF WorkerTypeOK
    <3>2. wpc' \in [Workers -> WorkerPC]
      BY <1>4 DEF SetExecuting, ListSteps, WorkerTypeOK, WorkerPC
    <3>3. steps' \in [Workers -> [Steps -> GoalStepStatus]]
      BY <1>4 DEF SetExecuting, ListSteps, WorkerTypeOK, GoalTypeOK
    <3>4. approved' \in [Workers -> SUBSET Steps] /\ passedAt' \in [Workers -> SUBSET Checks]
      BY <1>4 DEF SetExecuting, ListSteps, WorkerTypeOK
    <3> QED BY <3>1, <3>2, <3>3, <3>4 DEF WorkerTypeOK
  <2>3. DeciderTypeOK' BY <1>4 DEF SetExecuting, ListSteps, DeciderTypeOK
  <2> QED BY <2>1, <2>2, <2>3
<1> QED BY <1>1, <1>2, <1>3, <1>4 DEF Start, Prepare

(* A step of executeSteps keeps the types. *)
LEMMA ExecuteStepsType ==
  ASSUME NEW w \in Workers, TypeOK, WorkersPassTheGate, ExecuteSteps(w)
  PROVE  TypeOK'
<1> USE DEF TypeOK, Goto, Logged
<1>1. CASE SkipPassed(w) \/ StopAtFailed(w)
  <2>1. GoalTypeOK' BY <1>1 DEF SkipPassed, StopAtFailed, GoalTypeOK
  <2>2. WorkerTypeOK'
    <3>1. at' \in [Workers -> Nat]
      <4>1. at' \in {at, [at EXCEPT ![w] = @ + 1], [at EXCEPT ![w] = 1]}
        BY <1>1 DEF SkipPassed, StopAtFailed
      <4> QED BY <4>1, IndexType DEF WorkerTypeOK
    <3>2. wpc' \in [Workers -> WorkerPC]
      BY <1>1 DEF SkipPassed, StopAtFailed, WorkerTypeOK, WorkerPC
    <3>3. steps' \in [Workers -> [Steps -> GoalStepStatus]]
      BY <1>1 DEF SkipPassed, StopAtFailed, WorkerTypeOK, GoalTypeOK
    <3>4. approved' \in [Workers -> SUBSET Steps] /\ passedAt' \in [Workers -> SUBSET Checks]
      BY <1>1 DEF SkipPassed, StopAtFailed, WorkerTypeOK
    <3> QED BY <3>1, <3>2, <3>3, <3>4 DEF WorkerTypeOK
  <2>3. DeciderTypeOK' BY <1>1 DEF SkipPassed, StopAtFailed, DeciderTypeOK
  <2> QED BY <2>1, <2>2, <2>3
<1>2. CASE OpenReview(w)
  <2> DEFINE new == [step |-> at[w], status |-> "pending"]
  <2>1. new \in GoalReview BY <1>2 DEF OpenReview, GoalReview
  <2>2. reviews \in Seq(GoalReview) BY DEF GoalTypeOK
  <2>3. reviews' = reviews \/ reviews' = Append(reviews, new)
    BY <1>2 DEF OpenReview, CreateGoalReview
  <2>4. /\ reviews' \in Seq(GoalReview)
        /\ DOMAIN reviews \subseteq DOMAIN reviews'
    BY <2>1, <2>2, <2>3
  <2>5. GoalTypeOK' BY <1>2, <2>4 DEF OpenReview, GoalTypeOK
  <2>6. WorkerTypeOK' BY <1>2 DEF OpenReview, WorkerTypeOK, WorkerPC
  <2>7. DeciderTypeOK' BY <1>2, <2>4 DEF OpenReview, DeciderTypeOK
  <2> QED BY <2>5, <2>6, <2>7
<1>3. CASE MarkAwaiting(w) \/ MarkRunning(w) \/ MarkPassed(w) \/ MarkFailed(w)
  <2>1. GoalTypeOK'
    BY <1>3 DEF MarkAwaiting, MarkRunning, MarkPassed, MarkFailed, GoalTypeOK,
                GoalStepStatus
  <2>2. WorkerTypeOK'
    <3>1. at' \in [Workers -> Nat]
      <4>1. at' \in {at, [at EXCEPT ![w] = @ + 1], [at EXCEPT ![w] = 1]}
        BY <1>3 DEF MarkAwaiting, MarkRunning, MarkPassed, MarkFailed
      <4> QED BY <4>1, IndexType DEF WorkerTypeOK
    <3>2. wpc' \in [Workers -> WorkerPC]
      BY <1>3 DEF MarkAwaiting, MarkRunning, MarkPassed, MarkFailed, WorkerTypeOK, WorkerPC
    <3>3. steps' \in [Workers -> [Steps -> GoalStepStatus]]
      BY <1>3 DEF MarkAwaiting, MarkRunning, MarkPassed, MarkFailed, WorkerTypeOK, GoalTypeOK
    <3>4. approved' \in [Workers -> SUBSET Steps] /\ passedAt' \in [Workers -> SUBSET Checks]
      BY <1>3 DEF MarkAwaiting, MarkRunning, MarkPassed, MarkFailed, WorkerTypeOK
    <3> QED BY <3>1, <3>2, <3>3, <3>4 DEF WorkerTypeOK
  <2>3. DeciderTypeOK'
    BY <1>3 DEF MarkAwaiting, MarkRunning, MarkPassed, MarkFailed, DeciderTypeOK
  <2> QED BY <2>1, <2>2, <2>3
<1>4. CASE PauseGoal(w) \/ FailGoal(w)
  <2>1. GoalTypeOK' BY <1>4 DEF PauseGoal, FailGoal, GoalTypeOK, GoalStatus
  <2>2. WorkerTypeOK' BY <1>4 DEF PauseGoal, FailGoal, WorkerTypeOK, WorkerPC
  <2>3. DeciderTypeOK' BY <1>4 DEF PauseGoal, FailGoal, DeciderTypeOK
  <2> QED BY <2>1, <2>2, <2>3
<1>5. CASE ExecuteStepViaCVR(w)
  <2>1. at[w] \in Steps BY <1>5 DEF ExecuteStepViaCVR, WorkersPassTheGate, PastGate
  <2>2. GoalTypeOK' BY <1>5, <2>1 DEF ExecuteStepViaCVR, GoalTypeOK
  <2>3. WorkerTypeOK' BY <1>5 DEF ExecuteStepViaCVR, WorkerTypeOK, WorkerPC
  <2>4. DeciderTypeOK' BY <1>5 DEF ExecuteStepViaCVR, DeciderTypeOK
  <2> QED BY <2>2, <2>3, <2>4
<1> QED BY <1>1, <1>2, <1>3, <1>4, <1>5 DEF ExecuteSteps

(* A step of the verification runner keeps the types. *)
LEMMA FinalizeType ==
  ASSUME NEW w \in Workers, TypeOK, FinalizeAfterExecution(w)
  PROVE  TypeOK'
<1> USE DEF TypeOK, Goto, Logged
<1>1. CASE StepsDone(w) \/ SkipCheck(w) \/ ListChecks(w)
  <2>1. GoalTypeOK' BY <1>1 DEF StepsDone, SkipCheck, ListChecks, GoalTypeOK
  <2>2. WorkerTypeOK'
    <3>1. at' \in [Workers -> Nat]
      <4>1. at' \in {at, [at EXCEPT ![w] = @ + 1], [at EXCEPT ![w] = 1]}
        BY <1>1 DEF StepsDone, SkipCheck, ListChecks
      <4> QED BY <4>1, IndexType DEF WorkerTypeOK
    <3>2. wpc' \in [Workers -> WorkerPC]
      BY <1>1 DEF StepsDone, SkipCheck, ListChecks, WorkerTypeOK, WorkerPC
    <3>3. steps' \in [Workers -> [Steps -> GoalStepStatus]]
      BY <1>1 DEF StepsDone, SkipCheck, ListChecks, WorkerTypeOK, GoalTypeOK
    <3>4. approved' \in [Workers -> SUBSET Steps] /\ passedAt' \in [Workers -> SUBSET Checks]
      BY <1>1 DEF StepsDone, SkipCheck, ListChecks, WorkerTypeOK
    <3> QED BY <3>1, <3>2, <3>3, <3>4 DEF WorkerTypeOK
  <2>3. DeciderTypeOK' BY <1>1 DEF StepsDone, SkipCheck, ListChecks, DeciderTypeOK
  <2> QED BY <2>1, <2>2, <2>3
<1>2. CASE Finalize(w) \/ CompleteGoal(w)
  <2>1. GoalTypeOK' BY <1>2 DEF Finalize, CompleteGoal, GoalTypeOK, GoalStatus
  <2>2. WorkerTypeOK' BY <1>2 DEF Finalize, CompleteGoal, WorkerTypeOK, WorkerPC
  <2>3. DeciderTypeOK' BY <1>2 DEF Finalize, CompleteGoal, DeciderTypeOK
  <2> QED BY <2>1, <2>2, <2>3
<1>3. CASE StartCheck(w) \/ RecordCheck(w)
  <2>1. GoalTypeOK'
    BY <1>3 DEF StartCheck, RecordCheck, GoalTypeOK, GoalVerificationStatus
  <2>2. WorkerTypeOK'
    <3>1. at' \in [Workers -> Nat]
      <4>1. at' \in {at, [at EXCEPT ![w] = @ + 1], [at EXCEPT ![w] = 1]}
        BY <1>3 DEF StartCheck, RecordCheck
      <4> QED BY <4>1, IndexType DEF WorkerTypeOK
    <3>2. wpc' \in [Workers -> WorkerPC]
      BY <1>3 DEF StartCheck, RecordCheck, WorkerTypeOK, WorkerPC
    <3>3. steps' \in [Workers -> [Steps -> GoalStepStatus]]
      BY <1>3 DEF StartCheck, RecordCheck, WorkerTypeOK, GoalTypeOK
    <3>4. approved' \in [Workers -> SUBSET Steps] /\ passedAt' \in [Workers -> SUBSET Checks]
      BY <1>3 DEF StartCheck, RecordCheck, WorkerTypeOK
    <3> QED BY <3>1, <3>2, <3>3, <3>4 DEF WorkerTypeOK
  <2>3. DeciderTypeOK' BY <1>3 DEF StartCheck, RecordCheck, DeciderTypeOK
  <2> QED BY <2>1, <2>2, <2>3
<1> QED BY <1>1, <1>2, <1>3 DEF FinalizeAfterExecution

(* A review handler's step keeps the types. *)
LEMMA DecideType ==
  ASSUME NEW d \in Deciders, TypeOK, Decide(d)
  PROVE  TypeOK'
<1> USE DEF TypeOK
<1>1. CASE RequestDecision(d)
  <2>1. GoalTypeOK' /\ WorkerTypeOK'
    BY <1>1 DEF RequestDecision, GoalTypeOK, WorkerTypeOK
  <2>2. DeciderTypeOK'
    <3>1. PICK r \in DOMAIN reviews, x \in Decisions :
            \/ /\ deciding' = [deciding EXCEPT ![d] = [review |-> r, decision |-> x]]
               /\ dpc' = [dpc EXCEPT ![d] = "update"]
            \/ /\ dpc' = [dpc EXCEPT ![d] = "terminate"]
               /\ UNCHANGED deciding
      BY <1>1 DEF RequestDecision
    <3>2. r \in Nat BY DEF GoalTypeOK
    <3> QED BY <1>1, <3>1, <3>2 DEF RequestDecision, DeciderTypeOK
  <2> QED BY <2>1, <2>2
<1>2. CASE UpdateReview(d)
  <2> DEFINE r == deciding[d].review
             x == deciding[d].decision
  <2>1. r \in DOMAIN reviews /\ x \in Decisions
    BY <1>2 DEF UpdateReview, DeciderTypeOK
  <2>2. reviews \in Seq(GoalReview) BY DEF GoalTypeOK
  <2>3. reviews[r] \in GoalReview BY <2>1, <2>2
  <2>4. [reviews[r] EXCEPT !.status = x] \in GoalReview
    BY <2>1, <2>3 DEF GoalReview, Decisions
  <2>5. reviews' = [reviews EXCEPT ![r] = [reviews[r] EXCEPT !.status = x]]
    BY <1>2 DEF UpdateReview
  <2>6. reviews' \in Seq(GoalReview) /\ DOMAIN reviews' = DOMAIN reviews
    BY <2>1, <2>2, <2>4, <2>5
  <2>7. reviews[r].step \in Steps BY <2>3 DEF GoalReview
  <2>8. GoalTypeOK' BY <1>2, <2>6, <2>7 DEF UpdateReview, GoalTypeOK
  <2>9. WorkerTypeOK' BY <1>2 DEF UpdateReview, WorkerTypeOK
  <2>10. DeciderTypeOK' BY <1>2, <2>6 DEF UpdateReview, DeciderTypeOK
  <2> QED BY <2>8, <2>9, <2>10
<1>3. CASE TerminateGoal(d) \/ DecisionError(d)
  <2>1. GoalTypeOK' /\ WorkerTypeOK'
    BY <1>3 DEF TerminateGoal, DecisionError, GoalTypeOK, WorkerTypeOK, GoalStatus
  <2>2. DeciderTypeOK' BY <1>3 DEF TerminateGoal, DecisionError, DeciderTypeOK
  <2> QED BY <2>1, <2>2
<1> QED BY <1>1, <1>2, <1>3 DEF Decide

(* A restart keeps the types. *)
LEMMA CrashType == TypeOK /\ Crash => TypeOK'
<1> SUFFICES ASSUME TypeOK, Crash PROVE TypeOK' OBVIOUS
<1>1. GoalTypeOK' BY DEF TypeOK, Crash, GoalTypeOK
<1>2. WorkerTypeOK' BY DEF TypeOK, Crash, WorkerTypeOK, WorkerPC
<1>3. DeciderTypeOK' BY GoalAssumption DEF TypeOK, Crash, DeciderTypeOK
<1> QED BY <1>1, <1>2, <1>3 DEF TypeOK

-----------------------------------------------------------------------------
(* The gate. *)

(* A worker's step leaves every other worker where it is. *)
LEMMA OthersStay ==
  ASSUME NEW w \in Workers, TypeOK, Start(w) \/ Work(w), NEW v \in Workers, v # w
  PROVE  wpc'[v] = wpc[v] /\ at'[v] = at[v] /\ approved'[v] = approved[v]
<1> USE DEF TypeOK, WorkerTypeOK, Goto
<1>1. CASE Start(w) \/ Prepare(w)
  BY <1>1 DEF Start, Prepare, RequestExecute, RequestResume, ExecuteGet, ResumeGet,
              ResumeReviews, SetExecuting, ListSteps, ReturnError
<1>2. CASE ExecuteSteps(w)
  BY <1>2 DEF ExecuteSteps, SkipPassed, StopAtFailed, OpenReview, MarkAwaiting,
              PauseGoal, MarkRunning, ExecuteStepViaCVR, MarkPassed, MarkFailed,
              FailGoal
<1>3. CASE FinalizeAfterExecution(w)
  BY <1>3 DEF FinalizeAfterExecution, StepsDone, Finalize, ListChecks, SkipCheck,
              StartCheck, RecordCheck, CompleteGoal
<1> QED BY <1>1, <1>2, <1>3 DEF Work

(* Nobody changes the risk levels a goal was created with. *)
LEMMA WorkKeepsRisk ==
  ASSUME NEW w \in Workers, Start(w) \/ Work(w)
  PROVE  UNCHANGED <<risk, granted>>
<1>1. CASE Start(w) \/ Prepare(w)
  BY <1>1 DEF Start, Prepare, RequestExecute, RequestResume, ExecuteGet, ResumeGet,
              ResumeReviews, SetExecuting, ListSteps, ReturnError
<1>2. CASE ExecuteSteps(w)
  BY <1>2 DEF ExecuteSteps, SkipPassed, StopAtFailed, OpenReview, MarkAwaiting,
              PauseGoal, MarkRunning, ExecuteStepViaCVR, MarkPassed, MarkFailed,
              FailGoal
<1>3. CASE FinalizeAfterExecution(w)
  BY <1>3 DEF FinalizeAfterExecution, StepsDone, Finalize, ListChecks, SkipCheck,
              StartCheck, RecordCheck, CompleteGoal
<1> QED BY <1>1, <1>2, <1>3 DEF Work

(* The worker that takes a step does not get past the gate unapproved. *)
LEMMA WorkerPassesGate ==
  ASSUME NEW w \in Workers, TypeOK, WorkersPassTheGate, Start(w) \/ Work(w)
  PROVE  PastGate(w)'
<1> USE DEF TypeOK, WorkerTypeOK, Goto, PastGate
<1>1. CASE Start(w) \/ Prepare(w)
  BY <1>1 DEF Start, Prepare, RequestExecute, RequestResume, ExecuteGet, ResumeGet,
              ResumeReviews, SetExecuting, ListSteps, ReturnError
<1>2. CASE SkipPassed(w) \/ StopAtFailed(w) \/ PauseGoal(w) \/ MarkPassed(w) \/ FailGoal(w)
  BY <1>2 DEF SkipPassed, StopAtFailed, PauseGoal, MarkPassed, FailGoal
<1>3. CASE OpenReview(w) \/ MarkAwaiting(w) \/ MarkFailed(w)
  BY <1>3 DEF OpenReview, MarkAwaiting, MarkFailed
<1>4. CASE MarkRunning(w)
  BY <1>4 DEF MarkRunning, NeedsReview
<1>5. CASE ExecuteStepViaCVR(w)
  BY <1>5 DEF ExecuteStepViaCVR, WorkersPassTheGate
<1>6. CASE FinalizeAfterExecution(w)
  BY <1>6 DEF FinalizeAfterExecution, StepsDone, Finalize, ListChecks, SkipCheck,
              StartCheck, RecordCheck, CompleteGoal
<1> QED BY <1>1, <1>2, <1>3, <1>4, <1>5, <1>6 DEF Work, ExecuteSteps

(* Every worker stays on its side of the gate. *)
LEMMA GateStep ==
  ASSUME IInv, Next
  PROVE  WorkersPassTheGate'
<1> SUFFICES ASSUME NEW v \in Workers PROVE PastGate(v)' BY DEF WorkersPassTheGate
<1>1. PastGate(v) /\ TypeOK BY DEF IInv, WorkersPassTheGate
<1>2. ASSUME NEW w \in Workers, Start(w) \/ Work(w) PROVE PastGate(v)'
  <2>1. CASE v = w BY <1>2, <2>1, WorkerPassesGate DEF IInv
  <2>2. CASE v # w
    <3>1. wpc'[v] = wpc[v] /\ at'[v] = at[v] /\ approved'[v] = approved[v]
      BY <1>1, <1>2, <2>2, OthersStay
    <3>2. risk' = risk BY <1>2, WorkKeepsRisk
    <3> QED BY <1>1, <3>1, <3>2 DEF PastGate, NeedsReview
  <2> QED BY <2>1, <2>2
<1>3. ASSUME NEW d \in Deciders, Decide(d) PROVE PastGate(v)'
  BY <1>1, <1>3 DEF Decide, RequestDecision, UpdateReview, TerminateGoal,
                    DecisionError, PastGate, NeedsReview
<1>4. CASE Crash
  BY <1>4 DEF Crash, PastGate
<1> QED BY <1>2, <1>3, <1>4 DEF Next

(* A worker counts a step as approved only if a reviewer approved it. *)
LEMMA GrantStep ==
  ASSUME IInv, Next
  PROVE  ApprovalsAreGrants' /\ ReviewsAreForHighRisk'
<1> USE DEF ApprovalsAreGrants, ReviewsAreForHighRisk
<1> DEFINE Quiet == UNCHANGED <<risk, granted, reviews>>
<1>1. ASSUME Quiet, UNCHANGED approved
      PROVE  ApprovalsAreGrants' /\ ReviewsAreForHighRisk'
  BY <1>1 DEF IInv, ApprovedSteps
<1>2. ASSUME NEW w \in Workers, Start(w) \/ Prepare(w)
      PROVE  ApprovalsAreGrants' /\ ReviewsAreForHighRisk'
  <2>1. CASE ExecuteGet(w) \/ ResumeReviews(w)
    <3>1. Quiet BY <2>1 DEF ExecuteGet, ResumeReviews
    <3>2. /\ approved \in [Workers -> SUBSET Steps]
          /\ \/ approved' = [approved EXCEPT ![w] = {}]
             \/ approved' = [approved EXCEPT ![w] = ApprovedSteps]
      BY <2>1 DEF ExecuteGet, ResumeReviews, IInv, TypeOK, WorkerTypeOK
    <3>3. ASSUME NEW v \in Workers PROVE approved'[v] \subseteq granted
      <4>1. approved'[v] \in {approved[v], {}, ApprovedSteps} BY <3>2
      <4> QED BY <4>1 DEF IInv
    <3>4. ApprovedSteps' = ApprovedSteps BY <3>1 DEF ApprovedSteps
    <3> QED BY <3>1, <3>3, <3>4 DEF IInv
  <2>2. CASE ~(ExecuteGet(w) \/ ResumeReviews(w))
    <3>1. Quiet /\ UNCHANGED approved
      BY <1>2, <2>2 DEF Start, Prepare, RequestExecute, RequestResume, ResumeGet,
                        SetExecuting, ListSteps, ReturnError
    <3> QED BY <1>1, <3>1
  <2> QED BY <2>1, <2>2
<1>3. ASSUME NEW w \in Workers, ExecuteSteps(w)
      PROVE  ApprovalsAreGrants' /\ ReviewsAreForHighRisk'
  <2>1. CASE OpenReview(w)
    <3> DEFINE new == [step |-> at[w], status |-> "pending"]
    <3>1. reviews \in Seq(GoalReview) BY DEF IInv, TypeOK, GoalTypeOK
    <3>2. UNCHANGED <<risk, granted, approved>> BY <2>1 DEF OpenReview
    <3>3. CASE reviews' = reviews BY <1>1, <3>2, <3>3
    <3>4. CASE reviews' = Append(reviews, new)
      <4>1. new \in GoalReview BY <2>1 DEF OpenReview, GoalReview
      <4>2. \A r \in DOMAIN reviews' :
              (r \in DOMAIN reviews /\ reviews'[r] = reviews[r]) \/ reviews'[r] = new
        BY <3>1, <3>4, <4>1
      <4>3. risk[new.step] = "high" BY <2>1 DEF OpenReview, NeedsReview
      <4>4. new.status = "pending" OBVIOUS
      <4>5. ApprovedSteps' \subseteq ApprovedSteps
        <5> SUFFICES ASSUME NEW i \in Steps, NEW r \in DOMAIN reviews',
                            reviews'[r].step = i, reviews'[r].status = "approved"
                     PROVE  i \in ApprovedSteps
          BY DEF ApprovedSteps
        <5>1. r \in DOMAIN reviews /\ reviews'[r] = reviews[r]
          BY <4>2, <4>4
        <5> QED BY <5>1 DEF ApprovedSteps
      <4>6. ReviewsAreForHighRisk'
        <5> SUFFICES ASSUME NEW r \in DOMAIN reviews' PROVE risk[reviews'[r].step] = "high"
          BY <3>2
        <5> QED BY <4>2, <4>3 DEF IInv
      <4> QED BY <3>2, <4>5, <4>6 DEF IInv
    <3>5. reviews' = reviews \/ reviews' = Append(reviews, new)
      BY <2>1 DEF OpenReview, CreateGoalReview, Logged
    <3> QED BY <3>3, <3>4, <3>5
  <2>2. CASE ~OpenReview(w)
    <3>1. Quiet /\ UNCHANGED approved
      BY <1>3, <2>2 DEF ExecuteSteps, SkipPassed, StopAtFailed, MarkAwaiting,
                        PauseGoal, MarkRunning, ExecuteStepViaCVR, MarkPassed,
                        MarkFailed, FailGoal
    <3> QED BY <1>1, <3>1
  <2> QED BY <2>1, <2>2
<1>4. ASSUME NEW w \in Workers, FinalizeAfterExecution(w)
      PROVE  ApprovalsAreGrants' /\ ReviewsAreForHighRisk'
  <2>1. Quiet /\ UNCHANGED approved
    BY <1>4 DEF FinalizeAfterExecution, StepsDone, Finalize, ListChecks, SkipCheck,
                StartCheck, RecordCheck, CompleteGoal
  <2> QED BY <1>1, <2>1
<1>5. ASSUME NEW d \in Deciders, UpdateReview(d)
      PROVE  ApprovalsAreGrants' /\ ReviewsAreForHighRisk'
  <2> DEFINE n == deciding[d].review
             x == deciding[d].decision
  <2>1. reviews \in Seq(GoalReview) /\ n \in DOMAIN reviews
    BY <1>5 DEF IInv, TypeOK, GoalTypeOK, DeciderTypeOK, UpdateReview
  <2>2. reviews[n] \in GoalReview BY <2>1
  <2>3. UNCHANGED <<risk, approved>> BY <1>5 DEF UpdateReview
  <2>4. /\ DOMAIN reviews' = DOMAIN reviews
        /\ \A r \in DOMAIN reviews : r # n => reviews'[r] = reviews[r]
        /\ reviews'[n].step = reviews[n].step
        /\ reviews'[n].status = x
    BY <1>5, <2>1, <2>2 DEF UpdateReview, GoalReview
  <2>5. granted \subseteq granted' /\ (x = "approved" => reviews[n].step \in granted')
    BY <1>5 DEF UpdateReview
  <2>6. ApprovedSteps' \subseteq granted'
    <3> SUFFICES ASSUME NEW i \in Steps, NEW r \in DOMAIN reviews,
                        reviews'[r].step = i, reviews'[r].status = "approved"
                 PROVE  i \in granted'
      BY <2>4 DEF ApprovedSteps
    <3>1. CASE r = n BY <3>1, <2>4, <2>5
    <3>2. CASE r # n
      <4>1. i \in ApprovedSteps BY <3>2, <2>4 DEF ApprovedSteps
      <4> QED BY <4>1, <2>5 DEF IInv
    <3> QED BY <3>1, <3>2
  <2>7. ReviewsAreForHighRisk'
    <3> SUFFICES ASSUME NEW r \in DOMAIN reviews PROVE risk[reviews'[r].step] = "high"
      BY <2>3, <2>4
    <3>1. reviews'[r].step = reviews[r].step BY <2>4
    <3> QED BY <3>1 DEF IInv
  <2> QED BY <2>3, <2>5, <2>6, <2>7 DEF IInv
<1>6. ASSUME NEW d \in Deciders, Decide(d), ~UpdateReview(d)
      PROVE  ApprovalsAreGrants' /\ ReviewsAreForHighRisk'
  <2>1. Quiet /\ UNCHANGED approved
    BY <1>6 DEF Decide, RequestDecision, TerminateGoal, DecisionError
  <2> QED BY <1>1, <2>1
<1>7. CASE Crash
  <2>1. Quiet /\ UNCHANGED approved BY <1>7 DEF Crash
  <2> QED BY <1>1, <2>1
<1> QED BY <1>2, <1>3, <1>4, <1>5, <1>6, <1>7 DEF Next, Work

(* Only ExecuteStepViaCVR calls a step, and only past the gate. *)
LEMMA CallStep ==
  ASSUME IInv, Next
  PROVE  /\ risk' = risk
         /\ granted \subseteq granted'
         /\ \/ executed' = executed
            \/ /\ granted' = granted
               /\ \E i \in Steps : /\ executed' = executed \cup {i}
                                   /\ risk[i] = "high" => i \in granted
<1>1. ASSUME NEW w \in Workers, ExecuteStepViaCVR(w)
      PROVE  /\ UNCHANGED <<risk, granted>>
             /\ \E i \in Steps : /\ executed' = executed \cup {i}
                                 /\ risk[i] = "high" => i \in granted
  <2>1. /\ wpc[w] = "call" /\ UNCHANGED <<risk, granted>>
        /\ executed' = executed \cup {at[w]}
    BY <1>1 DEF ExecuteStepViaCVR, Goto
  <2>2. at[w] \in Steps /\ ~NeedsReview(w)
    BY <2>1 DEF IInv, WorkersPassTheGate, PastGate
  <2>3. approved[w] \subseteq granted BY DEF IInv, ApprovalsAreGrants
  <2> QED BY <2>1, <2>2, <2>3 DEF NeedsReview
<1>2. ASSUME NEW w \in Workers, Start(w) \/ Work(w), ~ExecuteStepViaCVR(w)
      PROVE  UNCHANGED <<risk, granted, executed>>
  <2>1. CASE Start(w) \/ Prepare(w)
    BY <2>1 DEF Start, Prepare, RequestExecute, RequestResume, ExecuteGet, ResumeGet,
                ResumeReviews, SetExecuting, ListSteps, ReturnError
  <2>2. CASE ExecuteSteps(w)
    BY <1>2, <2>2 DEF ExecuteSteps, SkipPassed, StopAtFailed, OpenReview,
                MarkAwaiting, PauseGoal, MarkRunning, MarkPassed, MarkFailed, FailGoal
  <2>3. CASE FinalizeAfterExecution(w)
    BY <2>3 DEF FinalizeAfterExecution, StepsDone, Finalize, ListChecks, SkipCheck,
                StartCheck, RecordCheck, CompleteGoal
  <2> QED BY <1>2, <2>1, <2>2, <2>3 DEF Work
<1>3. ASSUME NEW d \in Deciders, Decide(d)
      PROVE  risk' = risk /\ executed' = executed /\ granted \subseteq granted'
  BY <1>3 DEF Decide, RequestDecision, UpdateReview, TerminateGoal, DecisionError
<1>4. CASE Crash BY <1>4 DEF Crash
<1> QED BY <1>1, <1>2, <1>3, <1>4 DEF Next, Work, ExecuteSteps

(* A step keeps the whole inductive invariant. *)
LEMMA NextIInv == IInv /\ [Next]_vars => IInv'
<1> SUFFICES ASSUME IInv, [Next]_vars PROVE IInv' OBVIOUS
<1>1. CASE Next
  <2>1. TypeOK'
    <3>1. ASSUME NEW w \in Workers, Start(w) \/ Work(w) PROVE TypeOK'
      BY <3>1, PrepareType, ExecuteStepsType, FinalizeType DEF Work, IInv
    <3>2. ASSUME NEW d \in Deciders, Decide(d) PROVE TypeOK'
      BY <3>2, DecideType DEF IInv
    <3> QED BY <1>1, <3>1, <3>2, CrashType DEF Next, IInv
  <2>2. GateHolds'
    BY <1>1, CallStep DEF IInv, GateHolds
  <2> QED BY <1>1, <2>1, <2>2, GateStep, GrantStep DEF IInv
<1>2. CASE UNCHANGED vars
  BY <1>2 DEF vars, IInv, TypeOK, GoalTypeOK, WorkerTypeOK, DeciderTypeOK, GateHolds,
              ApprovalsAreGrants, ApprovedSteps, ReviewsAreForHighRisk,
              WorkersPassTheGate, PastGate, NeedsReview
<1> QED BY <1>1, <1>2

-----------------------------------------------------------------------------
(* The inductive invariant holds in every state of every behaviour. *)
THEOREM GoalInvariant == Spec => []IInv
BY InitIInv, NextIInv, PTL DEF Spec

(* Every state of GoalControl is well typed. *)
THEOREM GoalTypesOK == Spec => []TypeOK
<1>1. IInv => TypeOK BY DEF IInv
<1> QED BY <1>1, GoalInvariant, PTL

(* The review gate: with any number of concurrent runs, review handlers,    *)
(* store failures and restarts, no high-risk step is called unapproved.     *)
THEOREM GateIsNeverPassedUnapproved == Spec => []GateHolds
<1>1. IInv => GateHolds BY DEF IInv
<1> QED BY <1>1, GoalInvariant, PTL

(* GoalControl implements ReviewGate: every step of the coordinator, the    *)
(* handlers and the faults is an approval, a permitted call or no step.     *)
THEOREM GoalImplementsGate == Spec => GateSpec
<1>1. Init => GateInit BY DEF Init
<1>2. IInv /\ [Next]_vars => [GateNext]_gateVars
  <2> SUFFICES ASSUME IInv, Next PROVE [GateNext]_gateVars
    BY DEF vars
  <2>1. CASE UNCHANGED <<granted, executed>>
    BY <2>1, CallStep
  <2>2. CASE executed' # executed
    <3>1. PICK i \in Steps : /\ executed' = executed \cup {i}
                             /\ risk[i] = "high" => i \in granted
      BY <2>2, CallStep
    <3>2. Call(i) BY <2>2, <3>1, CallStep DEF Call
    <3> QED BY <3>2 DEF GateNext
  <2>3. CASE executed' = executed /\ granted' # granted
    <3>1. PICK d \in Deciders : UpdateReview(d)
      <4>1. ASSUME NEW w \in Workers, Start(w) \/ Work(w) PROVE FALSE
        BY <2>3, <4>1, WorkKeepsRisk
      <4>2. ~Crash BY <2>3 DEF Crash
      <4>3. PICK d \in Deciders : Decide(d) BY <4>1, <4>2 DEF Next
      <4>4. UpdateReview(d)
        BY <2>3, <4>3 DEF Decide, RequestDecision, TerminateGoal, DecisionError
      <4> QED BY <4>4
    <3> DEFINE n == deciding[d].review
    <3>2. n \in DOMAIN reviews /\ reviews \in Seq(GoalReview)
      BY <3>1 DEF IInv, TypeOK, GoalTypeOK, DeciderTypeOK, UpdateReview
    <3>3. reviews[n].step \in Steps
      <4>1. reviews[n] \in GoalReview BY <3>2
      <4> QED BY <4>1 DEF GoalReview
    <3>4. risk[reviews[n].step] = "high" BY <3>2 DEF IInv, ReviewsAreForHighRisk
    <3>5. granted' = granted \cup {reviews[n].step} /\ UNCHANGED <<risk, executed>>
      BY <2>3, <3>1 DEF UpdateReview
    <3>6. Grant(reviews[n].step) BY <3>4, <3>5 DEF Grant
    <3> QED BY <3>3, <3>6 DEF GateNext
  <2> QED BY <2>1, <2>2, <2>3
<1> QED BY <1>1, <1>2, GoalInvariant, PTL DEF Spec, GateSpec

-----------------------------------------------------------------------------
(* Decisions that arrive one at a time. *)

(* A review, once stored, stays for its step, and unless its decider updates *)
(* it, as it is; a new review is pending.                                    *)
LEMMA ReviewsGrow ==
  ASSUME IInv, Next
  PROVE  /\ DOMAIN reviews \subseteq DOMAIN reviews'
         /\ \A r \in DOMAIN reviews : reviews'[r].step = reviews[r].step
         /\ \A r \in DOMAIN reviews :
              \/ reviews'[r] = reviews[r]
              \/ \E d \in Deciders : UpdateReview(d) /\ deciding[d].review = r
<1>1. CASE reviews' = reviews BY <1>1
<1>2. ASSUME NEW w \in Workers, OpenReview(w)
      PROVE  /\ DOMAIN reviews \subseteq DOMAIN reviews'
             /\ \A r \in DOMAIN reviews : reviews'[r] = reviews[r]
  <2> DEFINE new == [step |-> at[w], status |-> "pending"]
  <2>1. new \in GoalReview BY <1>2 DEF OpenReview, GoalReview
  <2>2. reviews \in Seq(GoalReview) BY DEF IInv, TypeOK, GoalTypeOK
  <2>3. reviews' = reviews \/ reviews' = Append(reviews, new)
    BY <1>2 DEF OpenReview, CreateGoalReview, Logged
  <2> HIDE DEF new
  <2> QED BY <2>1, <2>2, <2>3
<1>3. ASSUME NEW d \in Deciders, UpdateReview(d)
      PROVE  /\ DOMAIN reviews \subseteq DOMAIN reviews'
             /\ \A r \in DOMAIN reviews : reviews'[r].step = reviews[r].step
             /\ \A r \in DOMAIN reviews :
                  reviews'[r] = reviews[r] \/ deciding[d].review = r
  <2>1. reviews \in Seq(GoalReview) BY DEF IInv, TypeOK, GoalTypeOK
  <2>2. \A r \in DOMAIN reviews : reviews[r] \in GoalReview BY <2>1
  <2> QED BY <1>3, <2>1, <2>2 DEF UpdateReview, GoalReview
<1>4. ASSUME NEW w \in Workers, Start(w) \/ Work(w)
      PROVE  reviews' = reviews \/ OpenReview(w)
  <2>1. CASE Start(w) \/ Prepare(w)
    BY <2>1 DEF Start, Prepare, RequestExecute, RequestResume, ExecuteGet, ResumeGet,
                ResumeReviews, SetExecuting, ListSteps, ReturnError
  <2>2. CASE ExecuteSteps(w)
    BY <2>2 DEF ExecuteSteps, SkipPassed, StopAtFailed, MarkAwaiting, PauseGoal,
                MarkRunning, ExecuteStepViaCVR, MarkPassed, MarkFailed, FailGoal
  <2>3. CASE FinalizeAfterExecution(w)
    BY <2>3 DEF FinalizeAfterExecution, StepsDone, Finalize, ListChecks, SkipCheck,
                StartCheck, RecordCheck, CompleteGoal
  <2> QED BY <1>4, <2>1, <2>2, <2>3 DEF Work
<1>5. ASSUME NEW d \in Deciders, Decide(d)
      PROVE  reviews' = reviews \/ UpdateReview(d)
  BY <1>5 DEF Decide, RequestDecision, TerminateGoal, DecisionError
<1>6. CASE Crash BY <1>1, <1>6 DEF Crash
<1> QED BY <1>1, <1>2, <1>3, <1>4, <1>5, <1>6 DEF Next

(* A worker counts a step as approved when a review says so, or it already   *)
(* did; it calls a step only past the gate.                                  *)
LEMMA ApprovedStep ==
  ASSUME IInv, Next
  PROVE  /\ risk' = risk
         /\ \A w \in Workers :
              \/ approved'[w] \subseteq approved[w]
              \/ approved'[w] = ApprovedSteps
         /\ \A i \in executed' :
              \/ i \in executed
              \/ risk[i] = "high" => \E w \in Workers : i \in approved[w]
<1> USE DEF IInv, TypeOK, WorkerTypeOK
<1>1. ASSUME NEW w \in Workers, Start(w) \/ Prepare(w)
      PROVE  /\ UNCHANGED <<risk, executed>>
             /\ \/ approved' = approved
                \/ approved' = [approved EXCEPT ![w] = {}]
                \/ approved' = [approved EXCEPT ![w] = ApprovedSteps]
  BY <1>1 DEF Start, Prepare, RequestExecute, RequestResume, ExecuteGet, ResumeGet,
              ResumeReviews, SetExecuting, ListSteps, ReturnError
<1>2. ASSUME NEW w \in Workers, ExecuteSteps(w), ~ExecuteStepViaCVR(w)
      PROVE  UNCHANGED <<risk, executed, approved>>
  BY <1>2 DEF ExecuteSteps, SkipPassed, StopAtFailed, OpenReview, MarkAwaiting,
              PauseGoal, MarkRunning, MarkPassed, MarkFailed, FailGoal
<1>3. ASSUME NEW w \in Workers, ExecuteStepViaCVR(w)
      PROVE  /\ UNCHANGED <<risk, approved>>
             /\ executed' = executed \cup {at[w]}
             /\ risk[at[w]] = "high" => at[w] \in approved[w]
  BY <1>3 DEF ExecuteStepViaCVR, Goto, WorkersPassTheGate, PastGate, NeedsReview
<1>4. ASSUME NEW w \in Workers, FinalizeAfterExecution(w)
      PROVE  UNCHANGED <<risk, executed, approved>>
  BY <1>4 DEF FinalizeAfterExecution, StepsDone, Finalize, ListChecks, SkipCheck,
              StartCheck, RecordCheck, CompleteGoal
<1>5. ASSUME NEW d \in Deciders, Decide(d) PROVE UNCHANGED <<risk, executed, approved>>
  BY <1>5 DEF Decide, RequestDecision, UpdateReview, TerminateGoal, DecisionError
<1>6. CASE Crash BY <1>6 DEF Crash
<1>7. ASSUME NEW w \in Workers, Start(w) \/ Prepare(w), NEW v \in Workers
      PROVE  approved'[v] \subseteq approved[v] \/ approved'[v] = ApprovedSteps
  BY <1>1, <1>7
<1> QED BY <1>1, <1>2, <1>3, <1>4, <1>5, <1>6, <1>7 DEF Next, Work

(* With a sole decider a step keeps DecisionsStand. *)
LEMMA DecisionsStandStep ==
  ASSUME IInv, DecisionsStand, [Next]_vars
  PROVE  DecisionsStand'
<1> SUFFICES ASSUME SoleDecider
             PROVE  /\ \A d \in Deciders :
                         dpc'[d] = "update" => reviews'[deciding'[d].review].status = "pending"
                    /\ \A w \in Workers : approved'[w] \subseteq ApprovedSteps'
                    /\ \A i \in executed' : risk'[i] = "high" => i \in ApprovedSteps'
  BY DEF DecisionsStand, SoleDecider
<1>0. /\ \A d \in Deciders :
           dpc[d] = "update" => reviews[deciding[d].review].status = "pending"
      /\ \A w \in Workers : approved[w] \subseteq ApprovedSteps
      /\ \A i \in executed : risk[i] = "high" => i \in ApprovedSteps
  BY DEF DecisionsStand
<1>1. CASE UNCHANGED vars BY <1>0, <1>1 DEF vars, ApprovedSteps
<1>2. CASE Next
  <2>1. ApprovedSteps \subseteq ApprovedSteps'
    <3> SUFFICES ASSUME NEW i \in Steps, NEW r \in DOMAIN reviews,
                        reviews[r].step = i, reviews[r].status = "approved"
                 PROVE  /\ r \in DOMAIN reviews' /\ reviews'[r].step = i
                        /\ reviews'[r].status = "approved"
      BY DEF ApprovedSteps
    <3>1. r \in DOMAIN reviews' /\ reviews'[r].step = i BY <1>2, ReviewsGrow
    <3>2. ASSUME NEW d \in Deciders, UpdateReview(d) PROVE deciding[d].review # r
      BY <1>0, <3>2 DEF UpdateReview
    <3>3. reviews'[r] = reviews[r] BY <1>2, <3>2, ReviewsGrow
    <3> QED BY <3>1, <3>3
  <2>2. \A w \in Workers : approved'[w] \subseteq ApprovedSteps'
    BY <1>0, <1>2, <2>1, ApprovedStep
  <2>3. \A i \in executed' : risk'[i] = "high" => i \in ApprovedSteps'
    BY <1>0, <1>2, <2>1, ApprovedStep
  <2>4. ASSUME NEW d \in Deciders, dpc'[d] = "update"
        PROVE  reviews'[deciding'[d].review].status = "pending"
    <3>1. CASE Decide(d)
      <4>1. RequestDecision(d)
        BY <2>4, <3>1 DEF Decide, UpdateReview, TerminateGoal, DecisionError, IInv,
                          TypeOK, DeciderTypeOK
      <4>2. PICK r \in DOMAIN reviews, x \in Decisions :
              \/ /\ reviews[r].status = "pending"
                 /\ deciding' = [deciding EXCEPT ![d] = [review |-> r, decision |-> x]]
              \/ dpc' = [dpc EXCEPT ![d] = "terminate"]
        BY <4>1 DEF RequestDecision
      <4>3. dpc \in [Deciders -> {"idle", "update", "terminate"}]
            /\ deciding \in [Deciders -> [review : Nat, decision : Decisions]]
        BY DEF IInv, TypeOK, DeciderTypeOK
      <4>4. reviews[r].status = "pending" /\ deciding'[d].review = r
        BY <2>4, <4>2, <4>3
      <4>5. reviews' = reviews BY <4>1 DEF RequestDecision
      <4> QED BY <4>4, <4>5
    <3>2. CASE ~Decide(d)
      <4>1. \A e \in Deciders : ~Decide(e) BY <3>2 DEF SoleDecider
      <4>2. ~Crash BY <2>4 DEF Crash
      <4>3. PICK w \in Workers : Start(w) \/ Work(w) BY <1>2, <4>1, <4>2 DEF Next
      <4>4. UNCHANGED deciderVars
        BY <4>3 DEF Work, Start, Prepare, RequestExecute, RequestResume, ExecuteGet,
                    ResumeGet, ResumeReviews, SetExecuting, ListSteps, ReturnError,
                    ExecuteSteps, SkipPassed, StopAtFailed, OpenReview, MarkAwaiting,
                    PauseGoal, MarkRunning, ExecuteStepViaCVR, MarkPassed, MarkFailed,
                    FailGoal, FinalizeAfterExecution, StepsDone, Finalize, ListChecks,
                    SkipCheck, StartCheck, RecordCheck, CompleteGoal
      <4>5. dpc[d] = "update" /\ deciding'[d] = deciding[d] BY <2>4, <4>4
      <4>6. deciding[d].review \in DOMAIN reviews
        BY <4>5 DEF IInv, TypeOK, DeciderTypeOK
      <4>7. reviews'[deciding[d].review] = reviews[deciding[d].review]
        BY <1>2, <4>1, <4>6, ReviewsGrow DEF Decide
      <4> QED BY <1>0, <4>5, <4>7
    <3> QED BY <3>1, <3>2
  <2> QED BY <2>2, <2>3, <2>4
<1> QED BY <1>1, <1>2

(* DecideGoalReview with decisions one at a time: a high-risk step that was  *)
(* called has an approved review on record, for any number of runs, store    *)
(* failures and restarts.                                                    *)
THEOREM ApprovalStandsOnRecord == Spec => []ApprovalStands
<1>1. Init => DecisionsStand
  BY DEF Init, GateInit, DecisionsStand
<1>2. DecisionsStand => ApprovalStands
  BY DEF DecisionsStand, ApprovalStands
<1> QED BY <1>1, <1>2, DecisionsStandStep, GoalInvariant, PTL DEF Spec

-----------------------------------------------------------------------------
(* A sole worker, and a store that answers. *)

(* A step that has a review keeps one. *)
LEMMA ReviewsStay ==
  ASSUME IInv, Next, NEW i, HasReview(i)
  PROVE  HasReview(i)'
BY ReviewsGrow DEF HasReview

(* While the tables of steps, verifications and calls stay, what they say of *)
(* each other stays, provided the goal's new status agrees with them.        *)
LEMMA TablesStay ==
  ASSUME IInv, Next, StoreInOrder, UNCHANGED <<step, check, executed>>,
         goal' = goal \/ goal' \notin {"completed", "paused"}
  PROVE  StoreInOrder'
<1>1. AllPassed' = AllPassed /\ AllVerified' = AllVerified
  BY DEF AllPassed, AllVerified
<1>2. ASSUME NEW i \in Steps, step'[i] = "awaiting_review" PROVE HasReview(i)'
  <2>1. HasReview(i) BY <1>2 DEF StoreInOrder
  <2> QED BY <2>1, ReviewsStay
<1>3. goal' = "completed" => AllPassed' /\ AllVerified'
  BY <1>1 DEF StoreInOrder
<1> QED BY <1>2, <1>3 DEF StoreInOrder

(* The steps before the loop. *)
LEMMA PrepareInStep ==
  ASSUME IInv, Next, ~StoreMayFail, StoreInOrder, NEW w \in Workers, RunInStep(w),
         Start(w) \/ Prepare(w)
  PROVE  StoreInOrder' /\ RunInStep(w)'
<1> USE DEF Goto
<1>0. wpc \in [Workers -> WorkerPC] /\ at \in [Workers -> Nat]
      /\ steps \in [Workers -> [Steps -> GoalStepStatus]]
  BY DEF IInv, TypeOK, WorkerTypeOK
<1>1. UNCHANGED <<step, check, executed>>
  BY DEF Start, Prepare, RequestExecute, RequestResume, ExecuteGet, ResumeGet,
         ResumeReviews, SetExecuting, ListSteps, ReturnError
<1>2. goal' \in {goal, "executing"}
  BY DEF Start, Prepare, RequestExecute, RequestResume, ExecuteGet, ResumeGet,
         ResumeReviews, SetExecuting, ListSteps, ReturnError
<1>3. StoreInOrder' BY <1>1, <1>2, TablesStay
<1>4. CASE ~ListSteps(w)
  <2>1. wpc'[w] \in {"idle", "get", "set", "getPaused", "reviews", "list"}
    BY <1>0, <1>4 DEF Start, Prepare, RequestExecute, RequestResume, ExecuteGet,
                      ResumeGet, ResumeReviews, SetExecuting, ReturnError
  <2>2. GoalWhileAt(w)'
    BY <1>0, <1>4 DEF RunInStep, GoalWhileAt, Start, Prepare, RequestExecute,
                      RequestResume, ExecuteGet, ResumeGet, ResumeReviews,
                      SetExecuting, ReturnError
  <2>3. ListIsFresh(w)' /\ StepWhileAt(w)' /\ ChecksWhileAt(w)'
    BY <2>1 DEF ListIsFresh, StepWhileAt, ChecksWhileAt
  <2> QED BY <1>3, <2>2, <2>3 DEF RunInStep
<1>5. CASE ListSteps(w)
  <2>1. /\ wpc[w] = "list" /\ wpc'[w] = "loop" /\ at'[w] = 1 /\ steps'[w] = step
        /\ goal' = goal
    BY <1>0, <1>5 DEF ListSteps
  <2>2. GoalWhileAt(w)' BY <2>1 DEF RunInStep, GoalWhileAt
  <2>3. ListIsFresh(w)' BY <1>1, <2>1 DEF ListIsFresh, Steps
  <2>4. StepWhileAt(w)' /\ ChecksWhileAt(w)'
    BY <2>1 DEF StepWhileAt, ChecksWhileAt
  <2> QED BY <1>3, <2>2, <2>3, <2>4 DEF RunInStep
<1> QED BY <1>4, <1>5

(* The steps of the loop that write no step. *)
LEMMA LoopInStep ==
  ASSUME IInv, Next, ~StoreMayFail, StoreInOrder, NEW w \in Workers, RunInStep(w),
         \/ SkipPassed(w) \/ StopAtFailed(w) \/ OpenReview(w) \/ PauseGoal(w)
         \/ ExecuteStepViaCVR(w) \/ FailGoal(w)
  PROVE  StoreInOrder' /\ RunInStep(w)'
<1> USE DEF Goto
<1>0. /\ wpc \in [Workers -> WorkerPC] /\ at \in [Workers -> Nat]
      /\ WorkersPassTheGate
  BY DEF IInv, TypeOK, WorkerTypeOK
<1>1. CASE SkipPassed(w) \/ StopAtFailed(w)
  <2>1. /\ UNCHANGED <<step, check, executed, goal, steps>>
        /\ wpc[w] = "loop" /\ at[w] \in Steps
        /\ \/ /\ wpc'[w] = "loop" /\ at'[w] = at[w] + 1 /\ steps[w][at[w]] = "passed"
           \/ wpc'[w] = "fail"
    BY <1>0, <1>1 DEF SkipPassed, StopAtFailed
  <2>2. StoreInOrder' BY <2>1, TablesStay
  <2>3. GoalWhileAt(w)' BY <2>1 DEF RunInStep, GoalWhileAt
  <2>4. ListIsFresh(w)' BY <1>0, <2>1 DEF RunInStep, ListIsFresh, Steps
  <2>5. StepWhileAt(w)' /\ ChecksWhileAt(w)' BY <2>1 DEF StepWhileAt, ChecksWhileAt
  <2> QED BY <2>2, <2>3, <2>4, <2>5 DEF RunInStep
<1>2. CASE OpenReview(w)
  <2>1. /\ UNCHANGED <<step, check, executed, goal, steps, at>>
        /\ wpc[w] = "loop" /\ at[w] \in Steps /\ wpc'[w] = "awaiting"
        /\ steps[w][at[w]] # "passed"
    BY <1>0, <1>2 DEF OpenReview
  <2>2. StoreInOrder' BY <2>1, TablesStay
  <2>3. GoalWhileAt(w)' BY <2>1 DEF RunInStep, GoalWhileAt
  <2>4. ListIsFresh(w)' BY <1>0, <2>1 DEF RunInStep, ListIsFresh
  <2>5. HasReview(at[w])'
    <3> DEFINE new == [step |-> at[w], status |-> "pending"]
    <3>1. new \in GoalReview /\ new.step = at[w] BY <2>1 DEF GoalReview
    <3>2. reviews \in Seq(GoalReview) BY DEF IInv, TypeOK, GoalTypeOK
    <3>3. \/ reviews' = reviews /\ \E r \in DOMAIN reviews : reviews[r] = new
          \/ reviews' = Append(reviews, new)
      BY <1>2 DEF OpenReview, CreateGoalReview, Logged
    <3> HIDE DEF new
    <3>4. \E r \in DOMAIN reviews' : reviews'[r] = new
      <4>1. CASE reviews' = Append(reviews, new)
        <5>1. Len(reviews) + 1 \in DOMAIN reviews' /\ reviews'[Len(reviews) + 1] = new
          BY <3>1, <3>2, <4>1
        <5> QED BY <5>1
      <4> QED BY <3>3, <4>1
    <3> QED BY <2>1, <3>1, <3>4 DEF HasReview
  <2>6. StepWhileAt(w)' BY <2>1, <2>5 DEF RunInStep, ListIsFresh, StepWhileAt, HasReview
  <2>7. ChecksWhileAt(w)' BY <2>1 DEF ChecksWhileAt
  <2> QED BY <2>2, <2>3, <2>4, <2>6, <2>7 DEF RunInStep
<1>3. CASE PauseGoal(w)
  <2>1. /\ UNCHANGED <<step, check, executed>>
        /\ wpc[w] = "pause" /\ wpc'[w] = "idle" /\ goal' = "paused"
    BY <1>0, <1>3 DEF PauseGoal, Logged
  <2>2. \E i \in Steps : step[i] = "awaiting_review"
    BY <2>1 DEF RunInStep, StepWhileAt
  <2>3. \A i \in Steps : step'[i] = "awaiting_review" => HasReview(i)'
    BY <2>1, ReviewsStay DEF StoreInOrder
  <2>4. StoreInOrder' BY <2>1, <2>2, <2>3 DEF StoreInOrder
  <2>5. RunInStep(w)'
    BY <2>1 DEF RunInStep, GoalWhileAt, ListIsFresh, StepWhileAt, ChecksWhileAt
  <2> QED BY <2>4, <2>5
<1>4. CASE ExecuteStepViaCVR(w)
  <2>1. /\ UNCHANGED <<step, check, goal, steps, at>>
        /\ executed' = executed \cup {at[w]}
        /\ wpc[w] = "call" /\ wpc'[w] \in {"markPassed", "markFailed"}
    BY <1>0, <1>4 DEF ExecuteStepViaCVR
  <2>2. \A i \in Steps : step'[i] = "awaiting_review" => HasReview(i)'
    BY <2>1, ReviewsStay DEF StoreInOrder
  <2>3. AllPassed' = AllPassed /\ AllVerified' = AllVerified
    BY <2>1 DEF AllPassed, AllVerified
  <2>4. goal' = "completed" => AllPassed' /\ AllVerified'
    BY <2>1, <2>3 DEF StoreInOrder
  <2>5. StoreInOrder' BY <2>1, <2>2, <2>4 DEF StoreInOrder
  <2>6. GoalWhileAt(w)' BY <2>1 DEF RunInStep, GoalWhileAt
  <2>7. ListIsFresh(w)' /\ StepWhileAt(w)'
    BY <2>1 DEF RunInStep, ListIsFresh, StepWhileAt
  <2>8. ChecksWhileAt(w)' BY <2>1 DEF ChecksWhileAt
  <2> QED BY <2>5, <2>6, <2>7, <2>8 DEF RunInStep
<1>5. CASE FailGoal(w)
  <2>1. /\ UNCHANGED <<step, check, executed>>
        /\ wpc'[w] = "idle" /\ goal' = "failed"
    BY <1>0, <1>5 DEF FailGoal, Logged
  <2>2. StoreInOrder' BY <2>1, TablesStay
  <2>3. RunInStep(w)'
    BY <2>1 DEF RunInStep, GoalWhileAt, ListIsFresh, StepWhileAt, ChecksWhileAt
  <2> QED BY <2>2, <2>3
<1> QED BY <1>1, <1>2, <1>3, <1>4, <1>5

(* The steps of the loop that write the status of the step they are at. *)
LEMMA MarkInStep ==
  ASSUME IInv, Next, ~StoreMayFail, StoreInOrder, NEW w \in Workers, RunInStep(w),
         MarkAwaiting(w) \/ MarkRunning(w) \/ MarkPassed(w) \/ MarkFailed(w)
  PROVE  StoreInOrder' /\ RunInStep(w)'
<1> USE DEF Goto
<1>0. /\ wpc \in [Workers -> WorkerPC] /\ at \in [Workers -> Nat]
      /\ step \in [Steps -> GoalStepStatus]
  BY DEF IInv, TypeOK, WorkerTypeOK, GoalTypeOK
<1>1. /\ UNCHANGED <<check, executed, goal, steps>>
      /\ wpc[w] \in {"loop", "awaiting", "markPassed", "markFailed"}
  BY DEF MarkAwaiting, MarkRunning, MarkPassed, MarkFailed
<1>2. at[w] \in Steps
  BY DEF IInv, WorkersPassTheGate, PastGate, MarkAwaiting, MarkRunning, MarkPassed,
         MarkFailed
<1>3. step[at[w]] # "passed"
  BY <1>2 DEF RunInStep, ListIsFresh, StepWhileAt, MarkAwaiting, MarkRunning,
              MarkPassed, MarkFailed
<1>4. PICK x \in {"awaiting_review", "running", "passed", "failed"} :
        step' = [step EXCEPT ![at[w]] = x]
  BY DEF MarkAwaiting, MarkRunning, MarkPassed, MarkFailed, Logged
<1>5. step'[at[w]] = x /\ \A i \in Steps : i # at[w] => step'[i] = step[i]
  BY <1>0, <1>2, <1>4
<1>6. goal' \notin {"paused", "completed"}
  BY <1>1 DEF RunInStep, GoalWhileAt
<1>7. \A j \in Steps : j < at[w] => step[j] = "passed"
  BY <1>1 DEF RunInStep, ListIsFresh
<1>8. \A i \in Steps : i > at[w] => step[i] = "pending"
  BY <1>2, <1>3 DEF StoreInOrder
<1>9. StoreInOrder'
  <2>1. ASSUME NEW i \in Steps, NEW j \in Steps, j < i, step'[i] # "pending"
        PROVE  step'[j] = "passed"
    <3>1. CASE i = at[w] BY <2>1, <3>1, <1>5, <1>7 DEF Steps
    <3>2. CASE i < at[w]
      <4>1. j # at[w] /\ j < at[w] BY <2>1, <3>2, <1>2 DEF Steps
      <4> QED BY <4>1, <1>5, <1>7
    <3>3. CASE i > at[w]
      <4>1. step'[i] = "pending" BY <3>3, <1>2, <1>5, <1>8 DEF Steps
      <4> QED BY <2>1, <4>1
    <3> QED BY <3>1, <3>2, <3>3, <1>2 DEF Steps
  <2>2. x = "passed" => at[w] \in executed
    BY <1>2, <1>5, <1>0 DEF RunInStep, StepWhileAt, MarkAwaiting, MarkRunning,
                            MarkPassed, MarkFailed, Logged
  <2>3. \A i \in Steps : step'[i] = "passed" => i \in executed'
    BY <1>1, <1>5, <2>2 DEF StoreInOrder
  <2>4. x = "awaiting_review" => HasReview(at[w])
    BY <1>2, <1>5, <1>0 DEF RunInStep, StepWhileAt, MarkAwaiting, MarkRunning,
                            MarkPassed, MarkFailed, Logged
  <2>5. ASSUME NEW i \in Steps, step'[i] = "awaiting_review" PROVE HasReview(i)'
    <3>1. HasReview(i) BY <1>5, <2>4, <2>5 DEF StoreInOrder
    <3> QED BY <3>1, ReviewsStay
  <2> QED BY <1>6, <2>1, <2>3, <2>5 DEF StoreInOrder
<1>10. GoalWhileAt(w)'
  BY <1>0, <1>6 DEF GoalWhileAt, MarkAwaiting, MarkRunning, MarkPassed, MarkFailed
<1>11. ListIsFresh(w)'
  <2>1. CASE MarkAwaiting(w) \/ MarkFailed(w)
    <3>1. wpc'[w] \in {"pause", "fail"} BY <1>0, <2>1 DEF MarkAwaiting, MarkFailed
    <3> QED BY <3>1 DEF ListIsFresh
  <2>2. CASE MarkRunning(w) \/ MarkPassed(w)
    <3>1. /\ at[w] >= 1
          /\ \A j \in Steps : j > at[w] => steps'[w][j] = step'[j]
          /\ \A j \in Steps : j < at[w] => step'[j] = "passed"
      BY <1>0, <1>1, <1>2, <1>5, <2>2 DEF RunInStep, ListIsFresh, MarkRunning,
                                          MarkPassed, Steps
    <3>2. \/ wpc'[w] = "call" /\ at'[w] = at[w]
          \/ wpc'[w] = "loop" /\ at'[w] = at[w] + 1 /\ step'[at[w]] = "passed"
      BY <1>0, <1>2, <2>2 DEF MarkRunning, MarkPassed, Logged
    <3>3. CASE wpc'[w] = "call" /\ at'[w] = at[w] BY <3>1, <3>3 DEF ListIsFresh
    <3>4. CASE wpc'[w] = "loop" /\ at'[w] = at[w] + 1 /\ step'[at[w]] = "passed"
      <4>1. \A j \in Steps : j < at[w] + 1 => step'[j] = "passed"
        BY <1>2, <3>1, <3>4 DEF Steps
      <4>2. \A j \in Steps : j >= at[w] + 1 => steps'[w][j] = step'[j]
        BY <1>2, <3>1 DEF Steps
      <4> QED BY <1>0, <1>2, <3>1, <3>4, <4>1, <4>2 DEF ListIsFresh, Steps
    <3> QED BY <3>2, <3>3, <3>4
  <2> QED BY <2>1, <2>2
<1>12. StepWhileAt(w)'
  BY <1>0, <1>2, <1>4, <1>5 DEF StepWhileAt, MarkAwaiting, MarkRunning, MarkPassed,
                                MarkFailed, Logged
<1>13. ChecksWhileAt(w)'
  BY <1>0 DEF ChecksWhileAt, MarkAwaiting, MarkRunning, MarkPassed, MarkFailed
<1> QED BY <1>9, <1>10, <1>11, <1>12, <1>13 DEF RunInStep

(* The verification runner. *)
LEMMA FinalizeInStep ==
  ASSUME IInv, Next, ~StoreMayFail, StoreInOrder, NEW w \in Workers, RunInStep(w),
         FinalizeAfterExecution(w)
  PROVE  StoreInOrder' /\ RunInStep(w)'
<1> USE DEF Goto
<1>0. /\ wpc \in [Workers -> WorkerPC] /\ at \in [Workers -> Nat]
      /\ check \in [Checks -> GoalVerificationStatus]
      /\ passedAt \in [Workers -> SUBSET Checks]
      /\ NumSteps \in Nat /\ NumChecks \in Nat
  BY GoalAssumption, NumStepsAssumption DEF IInv, TypeOK, WorkerTypeOK, GoalTypeOK
<1>1. UNCHANGED <<step, executed>>
  BY DEF FinalizeAfterExecution, StepsDone, Finalize, ListChecks, SkipCheck,
         StartCheck, RecordCheck, CompleteGoal
<1>2. AllPassed' = AllPassed BY <1>1 DEF AllPassed
<1>3. CASE StepsDone(w)
  <2>1. /\ UNCHANGED <<goal, check>> /\ wpc[w] = "loop" /\ wpc'[w] = "verifying"
        /\ at[w] \notin Steps
    BY <1>0, <1>3 DEF StepsDone
  <2>2. \A j \in Steps : j < at[w]
    BY <1>0, <2>1 DEF RunInStep, ListIsFresh, Steps
  <2>3. AllPassed BY <2>1, <2>2 DEF RunInStep, ListIsFresh, AllPassed
  <2>4. StoreInOrder' BY <1>1, <2>1, TablesStay
  <2>5. GoalWhileAt(w)' BY <2>1 DEF RunInStep, GoalWhileAt
  <2>6. ListIsFresh(w)' /\ StepWhileAt(w)' BY <2>1 DEF ListIsFresh, StepWhileAt
  <2>7. ChecksWhileAt(w)' BY <1>2, <2>1, <2>3 DEF ChecksWhileAt
  <2> QED BY <2>4, <2>5, <2>6, <2>7 DEF RunInStep
<1>4. ASSUME wpc'[w] = "idle", goal' = "completed", check' = check, AllPassed, AllVerified
      PROVE  StoreInOrder' /\ RunInStep(w)'
  <2>1. AllVerified' BY <1>4 DEF AllVerified
  <2>2. \A i \in Steps : step'[i] = "awaiting_review" => HasReview(i)'
    BY <1>1, ReviewsStay DEF StoreInOrder
  <2>3. StoreInOrder' BY <1>1, <1>2, <1>4, <2>1, <2>2 DEF StoreInOrder
  <2>4. RunInStep(w)'
    BY <1>4 DEF RunInStep, GoalWhileAt, ListIsFresh, StepWhileAt, ChecksWhileAt
  <2> QED BY <2>3, <2>4
<1>5. CASE Finalize(w)
  <2>1. wpc[w] = "verifying" /\ check' = check BY <1>5 DEF Finalize
  <2>2. AllPassed BY <2>1 DEF RunInStep, ChecksWhileAt
  <2>3. CASE NumChecks = 0
    <3>1. wpc'[w] = "idle" /\ goal' = "completed" BY <1>0, <1>5, <2>3 DEF Finalize
    <3>2. AllVerified BY <2>3 DEF AllVerified, Checks
    <3> QED BY <1>4, <2>1, <2>2, <3>1, <3>2
  <2>4. CASE NumChecks # 0
    <3>1. wpc'[w] = "listChecks" /\ goal' = "verifying"
      BY <1>0, <1>5, <2>4 DEF Finalize
    <3>2. StoreInOrder' BY <1>1, <2>1, <3>1, TablesStay
    <3>3. RunInStep(w)'
      BY <1>2, <2>2, <3>1 DEF RunInStep, GoalWhileAt, ListIsFresh, StepWhileAt,
                              ChecksWhileAt
    <3> QED BY <3>2, <3>3
  <2> QED BY <2>3, <2>4
<1>6. CASE ListChecks(w) \/ SkipCheck(w)
  <2>1. /\ UNCHANGED <<goal, check>> /\ wpc[w] \in {"listChecks", "verify"}
        /\ wpc'[w] = "verify"
    BY <1>0, <1>6 DEF ListChecks, SkipCheck
  <2>2. AllPassed BY <2>1 DEF RunInStep, ChecksWhileAt
  <2>3. StoreInOrder' BY <1>1, <2>1, TablesStay
  <2>4. GoalWhileAt(w)' BY <2>1 DEF RunInStep, GoalWhileAt
  <2>5. ListIsFresh(w)' /\ StepWhileAt(w)' BY <2>1 DEF ListIsFresh, StepWhileAt
  <2>6. /\ at'[w] >= 1
        /\ \A c \in Checks : c < at'[w] \/ c \in passedAt'[w] => check[c] = "passed"
    <3>1. CASE ListChecks(w)
      <4>1. at'[w] = 1 /\ passedAt'[w] = {c \in Checks : check[c] = "passed"}
        BY <1>0, <3>1 DEF ListChecks
      <4> QED BY <4>1 DEF Checks
    <3>2. CASE SkipCheck(w)
      <4>1. /\ at'[w] = at[w] + 1 /\ passedAt'[w] = passedAt[w] /\ at[w] \in passedAt[w]
            /\ wpc[w] = "verify"
        BY <1>0, <3>2 DEF SkipCheck
      <4>2. /\ at[w] >= 1
            /\ \A c \in Checks : c < at[w] \/ c \in passedAt[w] => check[c] = "passed"
        BY <4>1 DEF RunInStep, ChecksWhileAt
      <4>3. \A c \in Checks : c < at[w] + 1 => c < at[w] \/ c = at[w]
        BY <1>0 DEF Checks
      <4> QED BY <1>0, <4>1, <4>2, <4>3
    <3> QED BY <1>6, <3>1, <3>2
  <2>7. ChecksWhileAt(w)' BY <1>2, <2>1, <2>2, <2>6 DEF ChecksWhileAt
  <2> QED BY <2>3, <2>4, <2>5, <2>7 DEF RunInStep
<1>7. CASE StartCheck(w) \/ RecordCheck(w)
  <2>1. /\ wpc[w] \in {"verify", "check"} /\ goal' = goal /\ passedAt' = passedAt
        /\ wpc'[w] \in {"verify", "check", "fail"}
    BY <1>0, <1>7 DEF StartCheck, RecordCheck
  <2>2. AllPassed BY <2>1 DEF RunInStep, ChecksWhileAt
  <2>3. goal' \notin {"paused", "completed"} BY <2>1 DEF RunInStep, GoalWhileAt
  <2>4. \A i \in Steps : step'[i] = "awaiting_review" => HasReview(i)'
    BY <1>1, ReviewsStay DEF StoreInOrder
  <2>5. StoreInOrder' BY <1>1, <2>3, <2>4 DEF StoreInOrder
  <2>6. GoalWhileAt(w)' /\ ListIsFresh(w)' /\ StepWhileAt(w)'
    BY <2>1, <2>3 DEF GoalWhileAt, ListIsFresh, StepWhileAt
  <2>7. /\ at[w] \in Checks /\ at[w] \notin passedAt[w] /\ at[w] >= 1
        /\ \A c \in Checks : c < at[w] \/ c \in passedAt[w] => check[c] = "passed"
    BY <1>7, <2>1 DEF RunInStep, ChecksWhileAt, IInv, WorkersPassTheGate, PastGate,
                      StartCheck, RecordCheck
  <2>8. \/ /\ wpc'[w] = "check" /\ at' = at
           /\ check' = [check EXCEPT ![at[w]] = "running"]
        \/ /\ wpc'[w] = "verify" /\ at'[w] = at[w] + 1
           /\ check' = [check EXCEPT ![at[w]] = "passed"]
        \/ wpc'[w] = "fail"
    BY <1>0, <1>7 DEF StartCheck, RecordCheck
  <2>9. CASE wpc'[w] = "check" /\ at' = at /\ check' = [check EXCEPT ![at[w]] = "running"]
    <3>1. \A c \in Checks : c # at[w] => check'[c] = check[c] BY <1>0, <2>9
    <3>2. \A c \in Checks : c < at[w] \/ c \in passedAt[w] => c # at[w]
      BY <1>0, <2>7 DEF Checks
    <3>3. \A c \in Checks : c < at[w] \/ c \in passedAt[w] => check'[c] = "passed"
      BY <3>1, <3>2, <2>7
    <3> QED BY <1>2, <2>1, <2>2, <2>5, <2>6, <2>7, <2>9, <3>3 DEF ChecksWhileAt, RunInStep
  <2>10. CASE wpc'[w] = "verify" /\ at'[w] = at[w] + 1
              /\ check' = [check EXCEPT ![at[w]] = "passed"]
    <3>1. \A c \in Checks : check'[c] = check[c] \/ check'[c] = "passed"
      BY <1>0, <2>10
    <3>2. check'[at[w]] = "passed" BY <1>0, <2>7, <2>10
    <3>3. \A c \in Checks : c < at[w] + 1 => c < at[w] \/ c = at[w]
      BY <1>0 DEF Checks
    <3>4. \A c \in Checks : c < at'[w] \/ c \in passedAt'[w] => check'[c] = "passed"
      BY <2>1, <2>7, <2>10, <3>1, <3>2, <3>3
    <3>5. at'[w] >= 1 BY <1>0, <2>10
    <3>6. ChecksWhileAt(w)' BY <1>2, <2>2, <2>10, <3>4, <3>5 DEF ChecksWhileAt
    <3> QED BY <2>5, <2>6, <3>6 DEF RunInStep
  <2>11. CASE wpc'[w] = "fail"
    BY <2>5, <2>6, <2>11 DEF ChecksWhileAt, RunInStep
  <2> QED BY <2>8, <2>9, <2>10, <2>11
<1>8. CASE CompleteGoal(w)
  <2>1. /\ wpc[w] = "verify" /\ wpc'[w] = "idle" /\ goal' = "completed" /\ check' = check
        /\ at[w] \notin Checks
    BY <1>0, <1>8 DEF CompleteGoal, Logged
  <2>2. AllPassed BY <2>1 DEF RunInStep, ChecksWhileAt
  <2>3. \A c \in Checks : c < at[w]
    BY <1>0, <2>1 DEF RunInStep, ChecksWhileAt, Checks
  <2>4. AllVerified BY <2>1, <2>3 DEF RunInStep, ChecksWhileAt, AllVerified
  <2> QED BY <1>4, <2>1, <2>2, <2>4
<1> QED BY <1>3, <1>5, <1>6, <1>7, <1>8 DEF FinalizeAfterExecution

(* A decider, a restart or an idle step. *)
LEMMA OutsideInStep ==
  ASSUME IInv, StoreInOrder, NEW w \in Workers, RunInStep(w),
         \/ Next /\ (Crash \/ \E d \in Deciders : Decide(d))
         \/ UNCHANGED vars
  PROVE  StoreInOrder' /\ RunInStep(w)'
<1>1. CASE UNCHANGED vars
  BY <1>1 DEF vars, StoreInOrder, RunInStep, GoalWhileAt, ListIsFresh, StepWhileAt,
              ChecksWhileAt, AllPassed, AllVerified, HasReview
<1>2. CASE Next /\ Crash
  <2>1. UNCHANGED <<step, check, executed, goal>> /\ wpc'[w] = "idle"
    BY <1>2 DEF Crash
  <2>2. StoreInOrder' BY <1>2, <2>1, TablesStay
  <2>3. RunInStep(w)'
    BY <2>1 DEF RunInStep, GoalWhileAt, ListIsFresh, StepWhileAt, ChecksWhileAt
  <2> QED BY <2>2, <2>3
<1>3. ASSUME Next, NEW d \in Deciders, Decide(d) PROVE StoreInOrder' /\ RunInStep(w)'
  <2>1. /\ UNCHANGED <<step, check, executed, wpc, steps, at, passedAt>>
        /\ goal' \in {goal, "failed"}
    BY <1>3 DEF Decide, RequestDecision, UpdateReview, TerminateGoal, DecisionError
  <2>2. StoreInOrder' BY <1>3, <2>1, TablesStay
  <2>3. GoalWhileAt(w)' BY <2>1 DEF RunInStep, GoalWhileAt
  <2>4. ListIsFresh(w)' BY <2>1 DEF RunInStep, ListIsFresh
  <2>5. HasReview(at[w]) => HasReview(at[w])' BY <1>3, ReviewsGrow, <2>1 DEF HasReview
  <2>6. StepWhileAt(w)' BY <2>1, <2>5 DEF RunInStep, StepWhileAt
  <2>7. ChecksWhileAt(w)' BY <2>1 DEF RunInStep, ChecksWhileAt, AllPassed
  <2> QED BY <2>2, <2>3, <2>4, <2>6, <2>7 DEF RunInStep
<1> QED BY <1>1, <1>2, <1>3

(* A step keeps the invariant of the sole worker. *)
LEMMA SoleRunStep ==
  ASSUME IInv, SoleRunInStep, [Next]_vars
  PROVE  SoleRunInStep'
<1> SUFFICES ASSUME SoleWorker, ~StoreMayFail
             PROVE  StoreInOrder' /\ \A v \in Workers : RunInStep(v)'
  BY DEF SoleRunInStep, SoleWorker
<1>1. StoreInOrder /\ \A v \in Workers : RunInStep(v) BY DEF SoleRunInStep
<1>2. ASSUME NEW w \in Workers, Next, Start(w) \/ Work(w)
      PROVE  StoreInOrder' /\ \A v \in Workers : RunInStep(v)'
  <2>1. StoreInOrder' /\ RunInStep(w)'
    BY <1>1, <1>2, PrepareInStep, LoopInStep, MarkInStep, FinalizeInStep
    DEF Work, ExecuteSteps
  <2>2. \A v \in Workers : v = w BY DEF SoleWorker
  <2> QED BY <2>1, <2>2
<1>3. CASE UNCHANGED vars \/ (Next /\ (Crash \/ \E d \in Deciders : Decide(d)))
  <2>1. \A v \in Workers : StoreInOrder' /\ RunInStep(v)'
    BY <1>1, <1>3, OutsideInStep
  <2>2. StoreInOrder'
    <3>1. CASE UNCHANGED vars
      BY <1>1, <3>1 DEF vars, StoreInOrder, AllPassed, AllVerified, HasReview
    <3>2. CASE Next /\ (Crash \/ \E d \in Deciders : Decide(d))
      <4>1. UNCHANGED <<step, check, executed>> /\ goal' \in {goal, "failed"}
        BY <3>2 DEF Crash, Decide, RequestDecision, UpdateReview, TerminateGoal,
                    DecisionError
      <4> QED BY <1>1, <3>2, <4>1, TablesStay
    <3> QED BY <1>3, <3>1, <3>2
  <2> QED BY <2>1, <2>2
<1> QED BY <1>2, <1>3 DEF Next

(* With one run at a time, and a store that answers, the goal's tables agree *)
(* with each other and with the worker at every place of its code.           *)
THEOREM SoleRunInvariant == Spec => []SoleRunInStep
<1>1. Init => SoleRunInStep
  <2> SUFFICES ASSUME Init PROVE StoreInOrder /\ \A w \in Workers : RunInStep(w)
    BY DEF SoleRunInStep
  <2>1. StoreInOrder BY DEF Init, StoreInOrder
  <2>2. \A w \in Workers : RunInStep(w)
    BY DEF Init, RunInStep, GoalWhileAt, ListIsFresh, StepWhileAt, ChecksWhileAt
  <2> QED BY <2>1, <2>2
<1> QED BY <1>1, SoleRunStep, GoalInvariant, PTL DEF Spec

(* ListGoalSteps does not go stale under a sole run: steps leave "pending"   *)
(* in order, through pauses, rejections, repeated executions and restarts.   *)
THEOREM StepsRunInOrder == Spec => []StepsInOrder
<1>1. SoleRunInStep => StepsInOrder
  BY DEF SoleRunInStep, StoreInOrder, StepsInOrder
<1> QED BY <1>1, SoleRunInvariant, PTL

(* finalizeAfterExecution under a sole run completes a goal only when every  *)
(* step was called and passed and every verification passed.                 *)
THEOREM CompletedGoalIsDone == Spec => []CompletedMeansDone
<1>1. IInv /\ SoleRunInStep => CompletedMeansDone
  BY DEF IInv, TypeOK, GoalTypeOK, SoleRunInStep, StoreInOrder, CompletedMeansDone,
         AllPassed, AllVerified
<1> QED BY <1>1, GoalInvariant, SoleRunInvariant, PTL

(* The writes of the gate under a sole run: a paused goal has a step that    *)
(* waits, with a review to decide.                                           *)
THEOREM PausedGoalHasReview == Spec => []PausedHasReview
<1>1. SoleRunInStep => PausedHasReview
  BY DEF SoleRunInStep, StoreInOrder, PausedHasReview, HasReview
<1> QED BY <1>1, SoleRunInvariant, PTL

-----------------------------------------------------------------------------
(* How far a run has come: its stage, and its place at one step or check.    *)
(* A run that is over is idle.                                               *)
Stage(pc) == CASE pc \in {"get", "getPaused"} -> 1 [] pc = "reviews" -> 2 [] pc = "set" -> 3
               [] pc = "list" -> 4 [] pc = "verifying" -> 6 [] pc = "listChecks" -> 7
               [] pc \in {"verify", "check"} -> 8 [] pc = "fail" -> 9 [] pc = "idle" -> 10
               [] OTHER -> 5
Place(pc) == CASE pc \in {"awaiting", "call", "check"} -> 1
               [] pc \in {"pause", "markPassed", "markFailed"} -> 2
               [] OTHER -> 0

(* A run goes on to a later stage, to the next step or check of the list, or *)
(* to a later place at the one it is at.                                     *)
Advances(w) ==
  \/ Stage(wpc'[w]) > Stage(wpc[w])
  \/ /\ Stage(wpc'[w]) = Stage(wpc[w])
     /\ at[w] \in (IF Stage(wpc[w]) = 5 THEN Steps ELSE Checks) /\ at'[w] = at[w] + 1
  \/ /\ Stage(wpc'[w]) = Stage(wpc[w]) /\ at'[w] = at[w]
     /\ Place(wpc'[w]) > Place(wpc[w])

(* The stages of all places in the code.                                     *)
LEMMA StageValues ==
  /\ Stage("get") = 1 /\ Stage("getPaused") = 1 /\ Stage("reviews") = 2 /\ Stage("set") = 3
  /\ Stage("list") = 4 /\ Stage("loop") = 5 /\ Stage("awaiting") = 5 /\ Stage("pause") = 5
  /\ Stage("call") = 5 /\ Stage("markPassed") = 5 /\ Stage("markFailed") = 5
  /\ Stage("verifying") = 6 /\ Stage("listChecks") = 7 /\ Stage("verify") = 8
  /\ Stage("check") = 8 /\ Stage("fail") = 9 /\ Stage("idle") = 10
  BY DEF Stage

(* A step of a run takes it forward.                                         *)
LEMMA WorkAdvances ==
  ASSUME IInv, NEW w \in Workers, Work(w)
  PROVE  Advances(w)
<1>0. /\ wpc \in [Workers -> WorkerPC] /\ at \in [Workers -> Nat]
      /\ wpc[w] \in {"awaiting", "call", "markPassed", "markFailed"} => at[w] \in Steps
      /\ wpc[w] = "check" => at[w] \in Checks
      /\ passedAt[w] \subseteq Checks
  BY DEF IInv, TypeOK, WorkerTypeOK, WorkersPassTheGate, PastGate
<1>1. \A from, to : Goto(w, from, to) => wpc[w] = from /\ wpc'[w] = to
  BY <1>0 DEF Goto
<1>2. CASE Prepare(w)
  <2>1. CASE ExecuteGet(w) \/ ResumeGet(w) \/ ResumeReviews(w) \/ SetExecuting(w) \/ ListSteps(w)
    BY <1>1, <2>1, StageValues
       DEF ExecuteGet, ResumeGet, ResumeReviews, SetExecuting, ListSteps, Advances
  <2>2. CASE ReturnError(w)
    BY <1>0, <2>2, StageValues DEF ReturnError, Advances
  <2> QED BY <1>2, <2>1, <2>2 DEF Prepare
<1>3. CASE ExecuteSteps(w)
  <2>1. CASE SkipPassed(w)
    BY <1>0, <1>1, <2>1, StageValues DEF SkipPassed, Advances
  <2>2. CASE StopAtFailed(w) \/ PauseGoal(w) \/ MarkFailed(w) \/ FailGoal(w)
    BY <1>1, <2>2, StageValues DEF StopAtFailed, PauseGoal, MarkFailed, FailGoal, Advances
  <2>3. CASE OpenReview(w) \/ MarkRunning(w)
    BY <1>1, <2>3, StageValues DEF OpenReview, MarkRunning, Advances, Place
  <2>4. CASE MarkAwaiting(w) \/ ExecuteStepViaCVR(w)
    BY <1>1, <2>4, StageValues DEF MarkAwaiting, ExecuteStepViaCVR, Advances, Place
  <2>5. CASE MarkPassed(w)
    BY <1>0, <1>1, <2>5, StageValues DEF MarkPassed, Advances
  <2> QED BY <1>3, <2>1, <2>2, <2>3, <2>4, <2>5 DEF ExecuteSteps
<1>4. CASE FinalizeAfterExecution(w)
  <2>1. CASE StepsDone(w) \/ Finalize(w) \/ ListChecks(w) \/ CompleteGoal(w)
    BY <1>1, <2>1, StageValues DEF StepsDone, Finalize, ListChecks, CompleteGoal, Advances
  <2>2. CASE SkipCheck(w)
    BY <1>0, <1>1, <2>2, StageValues DEF SkipCheck, Advances
  <2>3. CASE StartCheck(w)
    BY <1>1, <2>3, StageValues DEF StartCheck, Advances, Place
  <2>4. CASE RecordCheck(w)
    BY <1>0, <1>1, <2>4, StageValues DEF RecordCheck, Advances
  <2> QED BY <1>4, <2>1, <2>2, <2>3, <2>4 DEF FinalizeAfterExecution
<1> QED BY <1>2, <1>3, <1>4 DEF Work

(* executeSteps, finalizeAfterExecution and VerificationRunner.Run: between  *)
(* a request and the next, or a restart, every step of a run takes it        *)
(* forward and leaves the other runs where they are, and no decision moves a *)
(* run. Stages, places and the two lists are bounded, so no run goes round   *)
(* for ever, with a failing store and with any number of deciders.           *)
THEOREM EveryRunAdvances ==
  Spec => [][\/ requests' > requests \/ crashes' > crashes
             \/ UNCHANGED workerVars
             \/ \E w \in Workers : /\ Advances(w)
                                   /\ \A v \in Workers \ {w} : wpc'[v] = wpc[v] /\ at'[v] = at[v]]_vars
<1> DEFINE Forward ==
             \/ requests' > requests \/ crashes' > crashes
             \/ UNCHANGED workerVars
             \/ \E w \in Workers : /\ Advances(w)
                                   /\ \A v \in Workers \ {w} : wpc'[v] = wpc[v] /\ at'[v] = at[v]
<1>1. ASSUME IInv, Next PROVE Forward
  <2>0. requests \in Nat /\ crashes \in Nat
    BY <1>1, GoalAssumption DEF IInv, TypeOK, DeciderTypeOK
  <2>1. ASSUME NEW w \in Workers, Start(w) PROVE Forward
    BY <2>0, <2>1 DEF Start, RequestExecute, RequestResume
  <2>2. ASSUME NEW w \in Workers, Work(w) PROVE Forward
    <3>1. Advances(w)
      BY <1>1, <2>2, WorkAdvances
    <3>2. \A v \in Workers \ {w} : wpc'[v] = wpc[v] /\ at'[v] = at[v]
      BY <1>1, <2>2, OthersStay DEF IInv
    <3> QED BY <3>1, <3>2
  <2>3. ASSUME NEW d \in Deciders, Decide(d) PROVE Forward
    BY <2>3 DEF Decide, RequestDecision, UpdateReview, TerminateGoal, DecisionError
  <2>4. CASE Crash
    BY <2>0, <2>4 DEF Crash
  <2> QED BY <1>1, <2>1, <2>2, <2>3, <2>4 DEF Next
<1>2. IInv /\ [Next]_vars => [Forward]_vars
  BY <1>1
<1> QED BY <1>2, GoalInvariant, PTL DEF Spec
===============================================================================
