----------------------------- MODULE GoalControl ------------------------------
(***************************************************************************)
(* The life of one goal: GoalCoordinator.Execute and Resume                 *)
(* (internal/goal/coordinator.go), the verification runner                  *)
(* (internal/goal/verification_runner.go), and the HTTP handlers that start *)
(* them and decide reviews (internal/rpc/goal_handlers.go), over the goal   *)
(* tables of internal/control/goal_store.go.                                *)
(*                                                                          *)
(* Every store call is one SQL statement on its own: nothing holds two of   *)
(* them together, so every store call is one action.  A worker is the       *)
(* goroutine a handler starts, a decider is a handler serving an approve or *)
(* reject request.  All operations are keyed by the goal, so one goal is    *)
(* modelled.                                                                *)
(***************************************************************************)
EXTENDS ReviewGate, Sequences

CONSTANTS Workers,      \* Execute and Resume goroutines that may coexist
          Deciders,     \* approve and reject requests that may coexist
          NumChecks,    \* the goal's verifications
          MaxRequests,  \* bound: Execute and Resume requests accepted
          MaxCrashes,   \* bound: restarts of the server process
          StoreMayFail  \* whether a store call may answer an error

ASSUME GoalAssumption ==
  /\ NumChecks \in Nat
  /\ MaxRequests \in Nat
  /\ MaxCrashes \in Nat
  /\ StoreMayFail \in BOOLEAN

Checks == 1..NumChecks

GoalStatus == {"created", "executing", "verifying", "paused", "completed", "failed"}
GoalStepStatus == {"pending", "running", "awaiting_review", "passed", "failed"}
GoalVerificationStatus == {"pending", "running", "passed", "failed"}
GoalReview == [step : Steps, status : {"pending", "approved", "rejected"}]
Decisions == {"approved", "rejected"}

VARIABLES
  goal,       \* goals.status
  step,       \* goal_steps.status
  check,      \* goal_verifications.status
  reviews,    \* goal_reviews in creation order
  wpc,        \* where a worker is
  steps,      \* a worker's result of ListGoalSteps: statuses when it listed
  approved,   \* a worker's approvedStepIDs
  at,         \* a worker's loop index, over the steps, then over the checks
  passedAt,   \* a worker's result of ListGoalVerifications: those passed
  dpc,        \* where a decider is
  deciding,   \* the decider's review and decision
  requests, crashes \* used up so far, of MaxRequests and MaxCrashes

storeVars == <<goal, step, check, reviews>>
workerVars == <<wpc, steps, approved, at, passedAt>>
deciderVars == <<dpc, deciding>>
bounds == <<requests, crashes>>
vars == <<gateVars, storeVars, workerVars, deciderVars, bounds>>

-----------------------------------------------------------------------------
WorkerPC == {"idle", "get", "set", "getPaused", "reviews", "list", "loop",
             "awaiting", "pause", "call", "markPassed", "markFailed", "fail",
             "verifying", "listChecks", "verify", "check"}

NoDecision == [review |-> 0, decision |-> "approved"]

GoalTypeOK ==
  /\ risk \in [Steps -> {"low", "high"}]
  /\ granted \subseteq Steps
  /\ executed \subseteq Steps
  /\ goal \in GoalStatus
  /\ step \in [Steps -> GoalStepStatus]
  /\ check \in [Checks -> GoalVerificationStatus]
  /\ reviews \in Seq(GoalReview)

WorkerTypeOK ==
  /\ wpc \in [Workers -> WorkerPC]
  /\ steps \in [Workers -> [Steps -> GoalStepStatus]]
  /\ approved \in [Workers -> SUBSET Steps]
  /\ at \in [Workers -> Nat]
  /\ passedAt \in [Workers -> SUBSET Checks]

DeciderTypeOK ==
  /\ dpc \in [Deciders -> {"idle", "update", "terminate"}]
  /\ deciding \in [Deciders -> [review : Nat, decision : Decisions]]
  /\ \A d \in Deciders : dpc[d] = "update" => deciding[d].review \in DOMAIN reviews
  /\ requests \in 0..MaxRequests
  /\ crashes \in 0..MaxCrashes

(* The type invariant. *)
TypeOK == GoalTypeOK /\ WorkerTypeOK /\ DeciderTypeOK

(* The goal as the create handler stores it, and no request under way. *)
Init ==
  /\ GateInit
  /\ goal = "created"
  /\ step = [i \in Steps |-> "pending"]
  /\ check = [c \in Checks |-> "pending"]
  /\ reviews = <<>>
  /\ wpc = [w \in Workers |-> "idle"]
  /\ steps = [w \in Workers |-> step]
  /\ approved = [w \in Workers |-> {}]
  /\ at = [w \in Workers |-> 1]
  /\ passedAt = [w \in Workers |-> {}]
  /\ dpc = [d \in Deciders |-> "idle"]
  /\ deciding = [d \in Deciders |-> NoDecision]
  /\ requests = 0
  /\ crashes = 0

-----------------------------------------------------------------------------
(* Building blocks. *)

Goto(w, from, to) == wpc[w] = from /\ wpc' = [wpc EXCEPT ![w] = to]

(* A store call that fails changes nothing. Where the caller only logs the  *)
(* error it goes on all the same.                                           *)
Logged(old, new) == IF StoreMayFail THEN {old, new} ELSE {new}

PendingReview == \E r \in DOMAIN reviews : reviews[r].status = "pending"
ApprovedSteps == {i \in Steps : \E r \in DOMAIN reviews :
                    reviews[r].step = i /\ reviews[r].status = "approved"}

(* The store call a worker is at fails and its function returns the error:  *)
(* the goroutine ends and the goal keeps the status it has.                 *)
ReturnError(w) ==
  /\ StoreMayFail
  /\ wpc[w] \in {"get", "set", "getPaused", "reviews", "list", "verifying"}
  /\ wpc' = [wpc EXCEPT ![w] = "idle"]
  /\ UNCHANGED <<gateVars, storeVars, steps, approved, at, passedAt, deciderVars, bounds>>

-----------------------------------------------------------------------------
(* Execute and Resume up to their common loop. *)

(* handleAPIGoalExecute checks the status and starts the goroutine. *)
RequestExecute(w) ==
  /\ requests < MaxRequests
  /\ goal \notin {"executing", "completed"}
  /\ Goto(w, "idle", "get")
  /\ requests' = requests + 1
  /\ UNCHANGED <<gateVars, storeVars, steps, approved, at, passedAt, deciderVars, crashes>>

(* handleAPIGoalResume also refuses while a review is pending. *)
RequestResume(w) ==
  /\ requests < MaxRequests
  /\ goal = "paused" /\ ~PendingReview
  /\ Goto(w, "idle", "getPaused")
  /\ requests' = requests + 1
  /\ UNCHANGED <<gateVars, storeVars, steps, approved, at, passedAt, deciderVars, crashes>>

(* Execute reads the status again; it approves no step. *)
ExecuteGet(w) ==
  /\ Goto(w, "get", IF goal \in {"executing", "completed"} THEN "idle" ELSE "set")
  /\ approved' = [approved EXCEPT ![w] = {}]
  /\ UNCHANGED <<gateVars, storeVars, steps, at, passedAt, deciderVars, bounds>>

ResumeGet(w) ==
  /\ Goto(w, "getPaused", IF goal = "paused" THEN "reviews" ELSE "idle")
  /\ UNCHANGED <<gateVars, storeVars, steps, approved, at, passedAt, deciderVars, bounds>>

(* Mutant: any decided review counts as an approval. *)
ResumeReviewsAnyDecision(w) ==
  /\ Goto(w, "reviews", IF PendingReview THEN "idle" ELSE "set")
  /\ approved' = [approved EXCEPT ![w] = {reviews[r].step : r \in DOMAIN reviews}]
  /\ UNCHANGED <<gateVars, storeVars, steps, at, passedAt, deciderVars, bounds>>

(* Resume lists the reviews: a pending one refuses, approved ones count. *)
ResumeReviews(w) ==
  /\ Goto(w, "reviews", IF PendingReview THEN "idle" ELSE "set")
  /\ approved' = [approved EXCEPT ![w] = ApprovedSteps]
  /\ UNCHANGED <<gateVars, storeVars, steps, at, passedAt, deciderVars, bounds>>

SetExecuting(w) ==
  /\ Goto(w, "set", "list")
  /\ goal' = "executing"
  /\ UNCHANGED <<gateVars, step, check, reviews, steps, approved, at,
                 passedAt, deciderVars, bounds>>

ListSteps(w) ==
  /\ Goto(w, "list", "loop")
  /\ steps' = [steps EXCEPT ![w] = step]
  /\ at' = [at EXCEPT ![w] = 1]
  /\ UNCHANGED <<gateVars, storeVars, approved, passedAt, deciderVars, bounds>>

-----------------------------------------------------------------------------
(* executeSteps. *)

(* A step that is "skipped" or "rolled_back" would be passed over too; no   *)
(* code ever gives a goal step one of these statuses.                       *)
SkipPassed(w) ==
  /\ at[w] \in Steps /\ steps[w][at[w]] = "passed"
  /\ Goto(w, "loop", "loop")
  /\ at' = [at EXCEPT ![w] = @ + 1]
  /\ UNCHANGED <<gateVars, storeVars, steps, approved, passedAt, deciderVars, bounds>>

(* Mutant: a failed step is passed over. *)
StopAtFailedSkips(w) ==
  /\ at[w] \in Steps /\ steps[w][at[w]] = "failed"
  /\ Goto(w, "loop", "loop")
  /\ at' = [at EXCEPT ![w] = @ + 1]
  /\ UNCHANGED <<gateVars, storeVars, steps, approved, passedAt, deciderVars, bounds>>

StopAtFailed(w) ==
  /\ at[w] \in Steps /\ steps[w][at[w]] = "failed"
  /\ Goto(w, "loop", "fail")
  /\ UNCHANGED <<gateVars, storeVars, steps, approved, at, passedAt, deciderVars, bounds>>

(* Mutant: a step that waited for a review counts as reviewed. *)
NeedsReviewOnce(w) ==
  risk[at[w]] = "high" /\ at[w] \notin approved[w]
    /\ steps[w][at[w]] # "awaiting_review"

NeedsReview(w) == risk[at[w]] = "high" /\ at[w] \notin approved[w]

(* The insert of a review. A unique index over the pending reviews of a     *)
(* step makes it fail while the step has one.                               *)
CreateGoalReview(i) ==
  LET new == [step |-> i, status |-> "pending"]
  IN  IF \E r \in DOMAIN reviews : reviews[r] = new
      THEN {reviews}
      ELSE Logged(reviews, Append(reviews, new))

(* Mutant: the goal is paused first. *)
OpenReviewPausesFirst(w) ==
  /\ at[w] \in Steps /\ steps[w][at[w]] \notin {"passed", "failed"}
  /\ NeedsReview(w)
  /\ Goto(w, "loop", "awaiting")
  /\ reviews' \in CreateGoalReview(at[w])
  /\ goal' = "paused"
  /\ UNCHANGED <<gateVars, step, check, steps, approved, at, passedAt, deciderVars,
                 bounds>>

(* The gate: a review is created, then the step and then the goal are       *)
(* marked, three writes whose errors are only logged.                       *)
OpenReview(w) ==
  /\ at[w] \in Steps /\ steps[w][at[w]] \notin {"passed", "failed"}
  /\ NeedsReview(w)
  /\ Goto(w, "loop", "awaiting")
  /\ reviews' \in CreateGoalReview(at[w])
  /\ UNCHANGED <<gateVars, goal, step, check, steps, approved, at,
                 passedAt, deciderVars, bounds>>

MarkAwaiting(w) ==
  /\ Goto(w, "awaiting", "pause")
  /\ step' \in Logged(step, [step EXCEPT ![at[w]] = "awaiting_review"])
  /\ UNCHANGED <<gateVars, goal, check, reviews, steps, approved, at,
                 passedAt, deciderVars, bounds>>


PauseGoal(w) ==
  /\ Goto(w, "pause", "idle")
  /\ goal' \in Logged(goal, "paused")
  /\ UNCHANGED <<gateVars, step, check, reviews, steps, approved, at,
                 passedAt, deciderVars, bounds>>

MarkRunning(w) ==
  /\ at[w] \in Steps /\ steps[w][at[w]] \notin {"passed", "failed"}
  /\ ~NeedsReview(w)
  /\ Goto(w, "loop", "call")
  /\ step' \in Logged(step, [step EXCEPT ![at[w]] = "running"])
  /\ UNCHANGED <<gateVars, goal, check, reviews, steps, approved, at,
                 passedAt, deciderVars, bounds>>

(* Engine.ExecuteStepViaCVR (see CVREngine) answers a result or an error. *)
ExecuteStepViaCVR(w) ==
  /\ \E next \in {"markPassed", "markFailed"} : Goto(w, "call", next)
  /\ executed' = executed \cup {at[w]}
  /\ UNCHANGED <<risk, granted, storeVars, steps, approved, at, passedAt,
                 deciderVars, bounds>>

MarkPassed(w) ==
  /\ Goto(w, "markPassed", "loop")
  /\ step' \in Logged(step, [step EXCEPT ![at[w]] = "passed"])
  /\ at' = [at EXCEPT ![w] = @ + 1]
  /\ UNCHANGED <<gateVars, goal, check, reviews, steps, approved,
                 passedAt, deciderVars, bounds>>

MarkFailed(w) ==
  /\ Goto(w, "markFailed", "fail")
  /\ step' \in Logged(step, [step EXCEPT ![at[w]] = "failed"])
  /\ UNCHANGED <<gateVars, goal, check, reviews, steps, approved, at,
                 passedAt, deciderVars, bounds>>

(* Execute, Resume or finalizeAfterExecution gives the goal up. *)
FailGoal(w) ==
  /\ Goto(w, "fail", "idle")
  /\ goal' \in Logged(goal, "failed")
  /\ UNCHANGED <<gateVars, step, check, reviews, steps, approved, at,
                 passedAt, deciderVars, bounds>>

-----------------------------------------------------------------------------
(* finalizeAfterExecution and VerificationRunner.Run. *)

StepsDone(w) ==
  /\ at[w] \notin Steps
  /\ Goto(w, "loop", "verifying")
  /\ UNCHANGED <<gateVars, storeVars, steps, approved, at, passedAt, deciderVars, bounds>>

(* Without verifications the goal is completed at once. *)
Finalize(w) ==
  /\ IF NumChecks = 0
     THEN Goto(w, "verifying", "idle") /\ goal' = "completed"
     ELSE Goto(w, "verifying", "listChecks") /\ goal' = "verifying"
  /\ UNCHANGED <<gateVars, step, check, reviews, steps, approved, at,
                 passedAt, deciderVars, bounds>>

ListChecks(w) ==
  /\ \/ Goto(w, "listChecks", "verify")
     \/ StoreMayFail /\ Goto(w, "listChecks", "fail")
  /\ passedAt' = [passedAt EXCEPT ![w] = {c \in Checks : check[c] = "passed"}]
  /\ at' = [at EXCEPT ![w] = 1]
  /\ UNCHANGED <<gateVars, storeVars, steps, approved, deciderVars, bounds>>

SkipCheck(w) ==
  /\ at[w] \in passedAt[w]
  /\ Goto(w, "verify", "verify")
  /\ at' = [at EXCEPT ![w] = @ + 1]
  /\ UNCHANGED <<gateVars, storeVars, steps, approved, passedAt, deciderVars, bounds>>

StartCheck(w) ==
  /\ at[w] \in Checks \ passedAt[w]
  /\ \/ /\ Goto(w, "verify", "check")
        /\ check' = [check EXCEPT ![at[w]] = "running"]
     \/ /\ StoreMayFail
        /\ Goto(w, "verify", "fail")
        /\ check' \in {check, [check EXCEPT ![at[w]] = "running"]}
  /\ UNCHANGED <<gateVars, goal, step, reviews, steps, approved, at,
                 passedAt, deciderVars, bounds>>

(* Mutant: a failed verification does not stop the run. *)
RecordCheckGoesOn(w) ==
  /\ \E s \in {"passed", "failed"} : check' = [check EXCEPT ![at[w]] = s]
  /\ Goto(w, "check", "verify")
  /\ at' = [at EXCEPT ![w] = @ + 1]
  /\ UNCHANGED <<gateVars, goal, step, reviews, steps, approved, passedAt,
                 deciderVars, bounds>>

(* executeVerification answers passed or failed, and the answer is stored. *)
RecordCheck(w) ==
  /\ \/ /\ check' = [check EXCEPT ![at[w]] = "passed"]
        /\ Goto(w, "check", "verify")
        /\ at' = [at EXCEPT ![w] = @ + 1]
     \/ /\ check' = [check EXCEPT ![at[w]] = "failed"]
        /\ Goto(w, "check", "fail")
        /\ UNCHANGED at
     \/ /\ StoreMayFail
        /\ check' \in {check, [check EXCEPT ![at[w]] = "passed"],
                              [check EXCEPT ![at[w]] = "failed"]}
        /\ Goto(w, "check", "fail")
        /\ UNCHANGED at
  /\ UNCHANGED <<gateVars, goal, step, reviews, steps, approved,
                 passedAt, deciderVars, bounds>>

CompleteGoal(w) ==
  /\ at[w] \notin Checks
  /\ Goto(w, "verify", "idle")
  /\ goal' \in Logged(goal, "completed")
  /\ UNCHANGED <<gateVars, step, check, reviews, steps, approved, at,
                 passedAt, deciderVars, bounds>>

-----------------------------------------------------------------------------
(* handleAPIGoalApprove, handleAPIGoalReject and DecideGoalReview. *)

(* Mutant: the conflict is not detected. *)
RequestDecisionNoConflict(d) ==
  /\ dpc[d] = "idle"
  /\ \E r \in DOMAIN reviews, x \in Decisions :
       /\ deciding' = [deciding EXCEPT ![d] = [review |-> r, decision |-> x]]
       /\ dpc' = [dpc EXCEPT ![d] = "update"]
  /\ UNCHANGED <<gateVars, storeVars, workerVars, bounds>>

(* DecideGoalReview reads the review. A pending one is to be updated; a     *)
(* repeated decision is accepted without a write, and a repeated reject     *)
(* still goes on to fail the goal. A repeated approve and the opposite of   *)
(* the stored decision (ErrReviewConflict) change nothing.                  *)
RequestDecision(d) ==
  /\ dpc[d] = "idle"
  /\ \E r \in DOMAIN reviews, x \in Decisions :
       \/ /\ reviews[r].status = "pending"
          /\ deciding' = [deciding EXCEPT ![d] = [review |-> r, decision |-> x]]
          /\ dpc' = [dpc EXCEPT ![d] = "update"]
       \/ /\ reviews[r].status = "rejected" /\ x = "rejected"
          /\ dpc' = [dpc EXCEPT ![d] = "terminate"]
          /\ UNCHANGED deciding
  /\ UNCHANGED <<gateVars, storeVars, workerVars, bounds>>

(* The UPDATE names the review only, not the status that was read. *)
UpdateReview(d) ==
  /\ dpc[d] = "update"
  /\ LET r == deciding[d].review
         x == deciding[d].decision
     IN  /\ reviews' = [reviews EXCEPT ![r].status = x]
         /\ granted' = IF x = "approved" THEN granted \cup {reviews[r].step}
                                         ELSE granted
         /\ dpc' = [dpc EXCEPT ![d] = IF x = "rejected" THEN "terminate" ELSE "idle"]
  /\ UNCHANGED <<risk, executed, goal, step, check, workerVars,
                 deciding, bounds>>

(* The reject handler then fails the goal, whatever its status is by now. *)
TerminateGoal(d) ==
  /\ dpc[d] = "terminate"
  /\ goal' = "failed"
  /\ dpc' = [dpc EXCEPT ![d] = "idle"]
  /\ UNCHANGED <<gateVars, step, check, reviews, workerVars, deciding,
                 bounds>>

DecisionError(d) ==
  /\ StoreMayFail
  /\ dpc[d] \in {"update", "terminate"}
  /\ dpc' = [dpc EXCEPT ![d] = "idle"]
  /\ UNCHANGED <<gateVars, storeVars, workerVars, deciding, bounds>>

(* The server process stops and starts again: the store stays, everything   *)
(* under way is gone, and no code looks for the goals it left.              *)
Crash ==
  /\ crashes < MaxCrashes
  /\ crashes' = crashes + 1
  /\ wpc' = [w \in Workers |-> "idle"]
  /\ dpc' = [d \in Deciders |-> "idle"]
  /\ UNCHANGED <<gateVars, storeVars, steps, approved, at, passedAt, deciding, requests>>

-----------------------------------------------------------------------------
Start(w) == RequestExecute(w) \/ RequestResume(w)

Prepare(w) ==
  \/ ExecuteGet(w) \/ ResumeGet(w) \/ ResumeReviews(w)
  \/ SetExecuting(w) \/ ListSteps(w) \/ ReturnError(w)

ExecuteSteps(w) ==
  \/ SkipPassed(w) \/ StopAtFailed(w)
  \/ OpenReview(w) \/ MarkAwaiting(w) \/ PauseGoal(w)
  \/ MarkRunning(w) \/ ExecuteStepViaCVR(w) \/ MarkPassed(w) \/ MarkFailed(w)
  \/ FailGoal(w)

FinalizeAfterExecution(w) ==
  \/ StepsDone(w) \/ Finalize(w) \/ ListChecks(w)
  \/ SkipCheck(w) \/ StartCheck(w) \/ RecordCheck(w) \/ CompleteGoal(w)

Work(w) == Prepare(w) \/ ExecuteSteps(w) \/ FinalizeAfterExecution(w)

Decide(d) ==
  RequestDecision(d) \/ UpdateReview(d) \/ TerminateGoal(d) \/ DecisionError(d)

Next ==
  \/ \E w \in Workers : Start(w) \/ Work(w)
  \/ \E d \in Deciders : Decide(d)
  \/ Crash

Spec == Init /\ [][Next]_vars

(* A goroutine that was started runs on, and every call it makes returns;   *)
(* nobody is obliged to send a request.                                     *)
FairSpec == Spec /\ \A w \in Workers : WF_vars(Work(w))

-----------------------------------------------------------------------------
(* Properties. *)

SoleWorker == \A v, w \in Workers : v = w
SoleDecider == \A d, e \in Deciders : d = e

(***************************************************************************)
(* The review gate of executeSteps: however many Execute and Resume         *)
(* goroutines and review handlers interleave, whatever store calls fail and *)
(* wherever the server restarts, a step of risk level "high" is called only *)
(* after a review of that step was approved.                                *)
(***************************************************************************)
GateHolds == \A i \in executed : risk[i] = "high" => i \in granted

(***************************************************************************)
(* The same gate with decisions that arrive one at a time: DecideGoalReview *)
(* then keeps the decision it stored, and a high-risk step that was called  *)
(* still has an approved review on record.                                  *)
(***************************************************************************)
ApprovalStands ==
  SoleDecider => \A i \in executed : risk[i] = "high" => i \in ApprovedSteps

(***************************************************************************)
(* ListGoalSteps is read once per run and never again: with one run at a    *)
(* time it cannot go stale, so a step leaves "pending" only when every      *)
(* earlier step has passed, also across pauses, rejections, failed goals    *)
(* that are executed again, and restarts.                                   *)
(***************************************************************************)
StepsInOrder ==
  SoleWorker /\ ~StoreMayFail =>
    \A i, j \in Steps : j < i /\ step[i] # "pending" => step[j] = "passed"

(***************************************************************************)
(* finalizeAfterExecution with one run at a time: a completed goal has      *)
(* called and passed every step and passed every verification.              *)
(***************************************************************************)
CompletedMeansDone ==
  SoleWorker /\ ~StoreMayFail /\ goal = "completed" =>
    /\ executed = Steps
    /\ \A i \in Steps : step[i] = "passed"
    /\ \A c \in Checks : check[c] = "passed"

(***************************************************************************)
(* The three writes of the gate, in the order they have: a goal is never    *)
(* seen paused without a step that waits and a review a human can decide.   *)
(***************************************************************************)
PausedHasReview ==
  SoleWorker /\ ~StoreMayFail /\ goal = "paused" =>
    \E i \in Steps : /\ step[i] = "awaiting_review"
                     /\ \E r \in DOMAIN reviews : reviews[r].step = i


-----------------------------------------------------------------------------
(* The inductive invariant behind the proofs. *)

(* What a decider or a worker has seen approved, somebody did approve. *)
ApprovalsAreGrants ==
  /\ ApprovedSteps \subseteq granted
  /\ \A w \in Workers : approved[w] \subseteq granted

(* Reviews are opened for high-risk steps only. *)
ReviewsAreForHighRisk == \A r \in DOMAIN reviews : risk[reviews[r].step] = "high"

(* A worker at a step is within the list, and past the gate when it calls. *)
PastGate(w) ==
  /\ wpc[w] \in {"awaiting", "call", "markPassed", "markFailed"} => at[w] \in Steps
  /\ wpc[w] = "check" => at[w] \in Checks
  /\ wpc[w] = "call" => ~NeedsReview(w)

WorkersPassTheGate == \A w \in Workers : PastGate(w)

IInv ==
  /\ TypeOK
  /\ GateHolds
  /\ ApprovalsAreGrants
  /\ ReviewsAreForHighRisk
  /\ WorkersPassTheGate

-----------------------------------------------------------------------------
(* The inductive invariant for decisions that arrive one at a time: the     *)
(* review a decider has read is still pending when it is updated, so no     *)
(* approval on record is taken back, and what a worker counts as approved   *)
(* stays approved.                                                          *)
DecisionsStand ==
  SoleDecider =>
    /\ \A d \in Deciders :
         dpc[d] = "update" => reviews[deciding[d].review].status = "pending"
    /\ \A w \in Workers : approved[w] \subseteq ApprovedSteps
    /\ \A i \in executed : risk[i] = "high" => i \in ApprovedSteps

-----------------------------------------------------------------------------
(* The inductive invariant for a sole worker and a store that answers. *)

AllPassed == \A i \in Steps : step[i] = "passed"
AllVerified == \A c \in Checks : check[c] = "passed"
HasReview(i) == \E r \in DOMAIN reviews : reviews[r].step = i

(* What the goal's tables say of each other, wherever the worker is. *)
StoreInOrder ==
  /\ \A i, j \in Steps : j < i /\ step[i] # "pending" => step[j] = "passed"
  /\ \A i \in Steps : step[i] = "passed" => i \in executed
  /\ \A i \in Steps : step[i] = "awaiting_review" => HasReview(i)
  /\ goal = "completed" => AllPassed /\ AllVerified
  /\ goal = "paused" => \E i \in Steps : step[i] = "awaiting_review"

(* From "set" on nobody but a decider writes the goal behind the worker. *)
GoalWhileAt(w) ==
  /\ wpc[w] \in {"getPaused", "reviews"} => goal \in {"paused", "failed"}
  /\ wpc[w] = "set" => goal # "completed"
  /\ wpc[w] \notin {"idle", "get", "set", "getPaused", "reviews"} =>
       goal \notin {"paused", "completed"}

(* The worker's list is the table from its index on: what lies before has   *)
(* passed, what lies behind has not changed since it was listed.            *)
ListIsFresh(w) ==
  wpc[w] \in {"loop", "awaiting", "call", "markPassed", "markFailed"} =>
    /\ at[w] >= 1
    /\ \A j \in Steps : j < at[w] => step[j] = "passed"
    /\ \A j \in Steps : j > at[w] => steps[w][j] = step[j]
    /\ wpc[w] = "loop" /\ at[w] \in Steps => steps[w][at[w]] = step[at[w]]

(* The step the worker is at has the status of the place in the code. *)
StepWhileAt(w) ==
  /\ wpc[w] = "awaiting" => step[at[w]] # "passed" /\ HasReview(at[w])
  /\ wpc[w] = "pause" => \E i \in Steps : step[i] = "awaiting_review"
  /\ wpc[w] \in {"call", "markPassed", "markFailed"} => step[at[w]] = "running"
  /\ wpc[w] = "markPassed" => at[w] \in executed

(* The verifications run after the steps, and those before the index passed. *)
ChecksWhileAt(w) ==
  /\ wpc[w] \in {"verifying", "listChecks", "verify", "check"} => AllPassed
  /\ wpc[w] \in {"verify", "check"} =>
       /\ at[w] >= 1
       /\ \A c \in Checks : c < at[w] \/ c \in passedAt[w] => check[c] = "passed"
  /\ wpc[w] = "check" => at[w] \notin passedAt[w]

RunInStep(w) == GoalWhileAt(w) /\ ListIsFresh(w) /\ StepWhileAt(w) /\ ChecksWhileAt(w)

SoleRunInStep ==
  SoleWorker /\ ~StoreMayFail =>
    StoreInOrder /\ \A w \in Workers : RunInStep(w)

===============================================================================
