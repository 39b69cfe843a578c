-------------------------- MODULE SerialRuntimeProofs --------------------------
(* Proofs about SerialRuntime, for any set of calls and any schemas. *)
EXTENDS SerialRuntime, TLAPS

(* A fresh runtime satisfies the invariant. *)
LEMMA InitIInv == Init => IInv
<1> SUFFICES ASSUME Init PROVE IInv
  OBVIOUS
<1>1. TypeOK
  BY DEF Init, TypeOK
<1>2. UnstartedIsClean /\ JobIsCurrent /\ CheckpointIsBelow
  BY DEF Init, UnstartedIsClean, JobIsCurrent, CheckpointIsBelow
<1>3. OkStands /\ RestoredIsUndone /\ late \subseteq abandoned
  BY DEF Init, OkStands, RestoredIsUndone
<1> QED
  BY <1>1, <1>2, <1>3 DEF IInv

(* A call affects the workspace in at most one way: its own. *)
LEMMA EffectsOwn ==
  ASSUME NEW c \in Calls
  PROVE  Effects(c) \in {{}, {c}} /\ Tracked(Effects(c)) \subseteq Effects(c)
  BY DEF Effects, Tracked

(* What callers do leaves jobs and workspace alone. *)
LEMMA CallersPreserve ==
  ASSUME IInv, NEW c \in Calls, Submit(c) \/ GiveUp(c) \/ Receive(c)
  PROVE  IInv'
<1> USE DEF Up, jobVars, wsVars
<1>1. UNCHANGED <<result, jobVars, wsVars, phase>>
  BY DEF Submit, GiveUp, Receive
<1>2. /\ caller' \in [Calls -> {"idle", "sending", "waiting", "answered", "gaveup", "lost"}]
      /\ ticket' \in [Calls -> Nat] /\ served' \in Nat
  BY DEF IInv, TypeOK, Submit, GiveUp, Receive
<1>3. \A d \in Calls : caller'[d] \in {"idle", "sending"} => caller[d] \in {"idle", "sending"}
  BY DEF IInv, TypeOK, Submit, GiveUp, Receive
<1>4. TypeOK'
  BY <1>1, <1>2 DEF IInv, TypeOK
<1>5. UnstartedIsClean'
  BY <1>1, <1>3 DEF IInv, UnstartedIsClean
<1>6. JobIsCurrent'
  BY <1>1, <1>3 DEF IInv, TypeOK, JobIsCurrent, Effects
<1>7. /\ CheckpointIsBelow' /\ OkStands' /\ RestoredIsUndone' /\ (late \subseteq abandoned)'
  BY <1>1 DEF IInv, CheckpointIsBelow, OkStands, RestoredIsUndone, Effects, Tracked
<1> QED
  BY <1>4, <1>5, <1>6, <1>7 DEF IInv

(* The worker takes a job that has done nothing yet. *)
LEMMA AcceptPreserves ==
  ASSUME IInv, NEW c \in Calls, Accept(c)
  PROVE  IInv'
<1> USE DEF wsVars
<1>1. /\ caller[c] = "sending" /\ result[c] = "none" /\ c \notin files \cup late \cup undone
  BY DEF IInv, UnstartedIsClean, Accept, NextInLine
<1>2. TypeOK'
  BY DEF IInv, TypeOK, Accept
<1>3. UnstartedIsClean'
  BY DEF IInv, TypeOK, UnstartedIsClean, Accept
<1>4. JobIsCurrent'
  BY <1>1 DEF IInv, TypeOK, JobIsCurrent, Accept
<1>5. /\ CheckpointIsBelow' /\ OkStands' /\ RestoredIsUndone' /\ (late \subseteq abandoned)'
  BY DEF IInv, CheckpointIsBelow, OkStands, RestoredIsUndone, Effects, Tracked, Accept
<1> QED
  BY <1>2, <1>3, <1>4, <1>5 DEF IInv

(* The checkpoint holds what all finished calls did, and nothing of the job.*)
LEMMA CheckpointPreserves ==
  ASSUME IInv, Checkpoint \/ CheckpointFails
  PROVE  IInv'
<1> USE DEF callVars, wsVars
<1>1. wpc = "checkpoint" /\ cur \notin files
  BY DEF IInv, JobIsCurrent, Checkpoint, CheckpointFails
<1>2. /\ Tracked(files) \subseteq files
      /\ \A c \in Calls : Tracked(Effects(c)) \subseteq files =>
                            Tracked(Effects(c)) \subseteq Tracked(files)
  BY DEF Tracked
<1>3. ckpt' \in {ckpt, {Tracked(files)}}
  BY DEF Checkpoint, CheckpointFails
<1>4. TypeOK'
  BY ZenonT(60), <1>2, <1>3 DEF IInv, TypeOK, Checkpoint, CheckpointFails
<1>5. UnstartedIsClean' /\ JobIsCurrent'
  BY DEF IInv, TypeOK, UnstartedIsClean, JobIsCurrent, Effects, Checkpoint, CheckpointFails
<1>6. UNCHANGED <<result, files, late, abandoned, undone, cur>>
  BY DEF Checkpoint, CheckpointFails
<1>7. CheckpointIsBelow'
  <2>1. \A c \in Calls : Tracked(Effects(c))' = Tracked(Effects(c))
    BY DEF Tracked, Effects
  <2> QED
    BY <1>1, <1>2, <1>3, <1>6, <2>1 DEF IInv, CheckpointIsBelow, OkStands
<1>8. OkStands' /\ RestoredIsUndone' /\ (late \subseteq abandoned)'
  BY <1>6 DEF IInv, OkStands, RestoredIsUndone, Effects, Tracked
<1> QED
  BY <1>4, <1>5, <1>7, <1>8 DEF IInv

(* A primitive adds its own effect to the workspace, now or later. *)
LEMMA ExecutePreserves ==
  ASSUME IInv, Execute
  PROVE  IInv'
<1> USE DEF callVars, wsVars, AfterFailure, GoesOn
<1>1. /\ wpc = "exec" /\ cur \in Calls /\ result[cur] = "none"
      /\ caller[cur] \notin {"idle", "sending"}
      /\ cur \notin files \cup undone \cup late /\ ~failed
  BY DEF IInv, TypeOK, JobIsCurrent, Execute, ExecuteOK, ExecuteDenied, ExecuteFails,
         ExecuteAbandoned
<1>2. Effects(cur) \in {{}, {cur}}
  BY <1>1, EffectsOwn
<1>3. /\ UNCHANGED <<callVars, result, cur, ckpt, undone, phase>>
      /\ wpc' \in {"verify", "restore", "reply"} /\ failed' \in BOOLEAN /\ held' \in BOOLEAN
      /\ files' \in {files, files \cup Effects(cur)}
      /\ late' \in {late, late \cup Effects(cur)}
      /\ abandoned' \in {abandoned, abandoned \cup Effects(cur)} /\ late' \subseteq abandoned'
      /\ (~failed' => files' = files \cup Effects(cur))
      /\ (wpc' = "verify" => ~failed')
      /\ (wpc' = "restore" => failed')
  <2>0. failed = FALSE /\ late \subseteq abandoned /\ held \in BOOLEAN
    BY <1>1 DEF IInv, TypeOK
  <2>1. CASE ExecuteOK
    BY <2>0, <2>1 DEF ExecuteOK
  <2>2. CASE ExecuteDenied
    BY <2>0, <2>2 DEF ExecuteDenied
  <2>3. CASE ExecuteFails
    BY <2>0, <2>3 DEF ExecuteFails
  <2>4. CASE ExecuteAbandoned
    BY <2>0, <2>4 DEF ExecuteAbandoned
  <2> QED
    BY <2>1, <2>2, <2>3, <2>4 DEF Execute
<1>4. TypeOK'
  BY <1>1, <1>2, <1>3 DEF IInv, TypeOK
<1>5. UnstartedIsClean'
  BY <1>1, <1>2, <1>3 DEF IInv, UnstartedIsClean
<1>6. JobIsCurrent'
  BY <1>1, <1>2, <1>3 DEF IInv, JobIsCurrent, Effects
<1>7. CheckpointIsBelow'
  BY <1>1, <1>2, <1>3 DEF IInv, CheckpointIsBelow, Effects, Tracked
<1>8. OkStands' /\ RestoredIsUndone' /\ (late \subseteq abandoned)'
  BY <1>1, <1>2, <1>3 DEF IInv, OkStands, RestoredIsUndone, Effects, Tracked
<1> QED
  BY <1>4, <1>5, <1>6, <1>7, <1>8 DEF IInv

(* The verifier changes nothing but the verdict. *)
LEMMA VerifyPreserves ==
  ASSUME IInv, Verify
  PROVE  IInv'
<1> USE DEF callVars, wsVars, AfterFailure
<1>1. TypeOK'
  BY DEF IInv, TypeOK, Verify
<1>2. UnstartedIsClean' /\ JobIsCurrent'
  BY DEF IInv, TypeOK, UnstartedIsClean, JobIsCurrent, Effects, Verify
<1>3. CheckpointIsBelow' /\ OkStands' /\ RestoredIsUndone' /\ (late \subseteq abandoned)'
  BY DEF IInv, CheckpointIsBelow, OkStands, RestoredIsUndone, Effects, Tracked, Verify
<1> QED
  BY <1>1, <1>2, <1>3 DEF IInv

(* A restore goes back to a workspace below the present one that has the    *)
(* effects of all calls that came to a good end and not that of the job.    *)
LEMMA RestorePreserves ==
  ASSUME IInv, Restore \/ RestoreFails
  PROVE  IInv'
<1> USE DEF callVars, wsVars
<1>1. PICK snap \in ckpt :
        /\ snap \subseteq files' /\ files' \subseteq files
        /\ Restore => files' = snap
  BY DEF IInv, CheckpointIsBelow, Restore, RestoreFails
<1>2. /\ wpc = "restore" /\ wpc' = "reply" /\ cur \in Calls
      /\ ckpt = {snap} /\ snap \subseteq files /\ cur \notin snap
      /\ \A c \in Calls : result[c] = "ok" => Tracked(Effects(c)) \subseteq snap
      /\ UNCHANGED <<callVars, result, cur, held, failed, ckpt, late, abandoned, phase>>
      /\ undone' \subseteq undone \cup {cur}
      /\ (cur \in undone' => Restore)
  BY DEF IInv, TypeOK, JobIsCurrent, CheckpointIsBelow, Restore, RestoreFails
<1>3. failed
  BY DEF IInv, JobIsCurrent, Restore, RestoreFails
<1>4. TypeOK'
  BY <1>1, <1>2 DEF IInv, TypeOK
<1>5. UnstartedIsClean' /\ JobIsCurrent'
  BY <1>1, <1>2, <1>3 DEF IInv, UnstartedIsClean, JobIsCurrent, Effects
<1>6. CheckpointIsBelow'
  BY <1>1, <1>2 DEF IInv, CheckpointIsBelow, Effects, Tracked
<1>7. OkStands' /\ RestoredIsUndone' /\ (late \subseteq abandoned)'
  BY <1>1, <1>2 DEF IInv, OkStands, RestoredIsUndone, Effects, Tracked
<1> QED
  BY <1>4, <1>5, <1>6, <1>7 DEF IInv

(* Reporting the result: a good one has its effect in place. *)
LEMMA ReplyPreserves ==
  ASSUME IInv, Reply
  PROVE  IInv'
<1> USE DEF callVars, wsVars
<1>1. /\ cur \in Calls /\ caller[cur] \notin {"idle", "sending"} /\ failed \in BOOLEAN
      /\ ~failed => Effects(cur) \subseteq files
  BY DEF IInv, TypeOK, JobIsCurrent, Reply
<1>2. TypeOK'
  BY <1>1 DEF IInv, TypeOK, Reply
<1>3. UnstartedIsClean' /\ JobIsCurrent' /\ CheckpointIsBelow'
  BY <1>1 DEF IInv, TypeOK, UnstartedIsClean, JobIsCurrent, CheckpointIsBelow, Reply
<1>4. OkStands'
  BY <1>1 DEF IInv, TypeOK, OkStands, Effects, Tracked, Reply
<1>5. RestoredIsUndone' /\ (late \subseteq abandoned)'
  BY DEF IInv, RestoredIsUndone, Reply
<1> QED
  BY <1>2, <1>3, <1>4, <1>5 DEF IInv

(* An abandoned request that lands late adds to the workspace only. *)
LEMMA LatePreserves ==
  ASSUME IInv, NEW c \in Calls, LateLands(c)
  PROVE  IInv'
<1> USE DEF callVars, jobVars
<1>1. /\ c \in late /\ c \in abandoned /\ late' = late \ {c}
      /\ files' \in {files, files \cup {c}}
      /\ UNCHANGED <<callVars, result, jobVars, abandoned, undone, phase>>
  BY DEF IInv, LateLands
<1>2. TypeOK'
  BY <1>1 DEF IInv, TypeOK
<1>3. UnstartedIsClean' /\ JobIsCurrent'
  BY <1>1 DEF IInv, UnstartedIsClean, JobIsCurrent, Effects
<1>4. CheckpointIsBelow'
  BY <1>1 DEF IInv, CheckpointIsBelow, Effects, Tracked
<1>5. OkStands' /\ RestoredIsUndone' /\ (late \subseteq abandoned)'
  BY <1>1 DEF IInv, OkStands, RestoredIsUndone, Effects, Tracked
<1> QED
  BY <1>2, <1>3, <1>4, <1>5 DEF IInv

(* Held pipes keep the worker where it is. *)
LEMMA HoldPreserves ==
  ASSUME IInv, Hold
  PROVE  IInv'
<1> USE DEF callVars, wsVars
<1>1. held' = TRUE /\ UNCHANGED <<callVars, result, wpc, cur, failed, ckpt, wsVars, phase>>
  BY DEF Hold
<1>2. TypeOK' /\ UnstartedIsClean' /\ JobIsCurrent'
  BY <1>1 DEF IInv, TypeOK, UnstartedIsClean, JobIsCurrent, Effects
<1>3. CheckpointIsBelow' /\ OkStands' /\ RestoredIsUndone' /\ (late \subseteq abandoned)'
  BY <1>1 DEF IInv, CheckpointIsBelow, OkStands, RestoredIsUndone, Effects, Tracked
<1> QED
  BY <1>2, <1>3 DEF IInv

(* The end of the process stops callers and the job and touches no file. *)
LEMMA EndPreserves ==
  ASSUME IInv, KillAdapters \/ CloseJobs \/ Exit
  PROVE  IInv'
<1> USE DEF callVars, jobVars, wsVars
<1>1. /\ UNCHANGED <<ticket, served, result, cur, failed, ckpt, files, abandoned, undone>>
      /\ wpc' \in {wpc, "idle"} /\ held' \in {held, FALSE} /\ late' \subseteq late
      /\ phase' \in {"killed", "closed", "exited"}
  BY DEF KillAdapters, CloseJobs, Exit
<1>2. /\ caller' \in [Calls -> {"idle", "sending", "waiting", "answered", "gaveup", "lost"}]
      /\ \A d \in Calls : caller'[d] \in {"idle", "sending"} => caller[d] \in {"idle", "sending"}
  BY DEF IInv, TypeOK, KillAdapters, CloseJobs, Exit
<1>3. TypeOK'
  BY <1>1, <1>2 DEF IInv, TypeOK
<1>4. UnstartedIsClean' /\ JobIsCurrent'
  BY <1>1, <1>2 DEF IInv, TypeOK, UnstartedIsClean, JobIsCurrent, Effects
<1>5. CheckpointIsBelow' /\ OkStands' /\ RestoredIsUndone' /\ (late \subseteq abandoned)'
  BY <1>1 DEF IInv, CheckpointIsBelow, OkStands, RestoredIsUndone, Effects, Tracked
<1> QED
  BY <1>3, <1>4, <1>5 DEF IInv

(***************************************************************************)
(* Every step of callers, worker, adapters and shutdown preserves the       *)
(* invariant, so that it holds throughout.                                  *)
(***************************************************************************)
THEOREM Invariance == Spec => []IInv
<1>1. IInv /\ [Next]_vars => IInv'
  <2> SUFFICES ASSUME IInv, [Next]_vars PROVE IInv'
    OBVIOUS
  <2>1. CASE \E c \in Calls : Submit(c) \/ GiveUp(c) \/ Receive(c) \/ LateLands(c)
    BY <2>1, CallersPreserve, LatePreserves
  <2>2. CASE Worker
    BY <2>2, AcceptPreserves, CheckpointPreserves, ExecutePreserves, VerifyPreserves,
       RestorePreserves, ReplyPreserves DEF Worker
  <2>3. CASE KillAdapters \/ CloseJobs \/ Exit
    BY <2>3, EndPreserves
  <2>4. CASE Hold
    BY <2>4, HoldPreserves
  <2>5. CASE UNCHANGED vars
    BY <2>5 DEF vars, callVars, jobVars, wsVars, IInv, TypeOK, UnstartedIsClean, JobIsCurrent,
                CheckpointIsBelow, OkStands, RestoredIsUndone, Effects, Tracked
  <2> QED
    BY <2>1, <2>2, <2>3, <2>4, <2>5 DEF Next
<1> QED
  BY InitIInv, <1>1, PTL DEF Spec

(***************************************************************************)
(* SerialExecutor with Runtime.execute: a call that came to a good result   *)
(* keeps its effect, whatever other calls, adapters and the end of the      *)
(* process do.                                                              *)
(***************************************************************************)
THEOREM OkWorkStands == Spec => []OkStands
<1>1. IInv => OkStands
  BY DEF IInv
<1> QED
  BY Invariance, <1>1, PTL

(***************************************************************************)
(* A call whose checkpoint was brought back leaves nothing in the           *)
(* workspace, unless an adapter or a process its command left behind        *)
(* carries it out unattended.                                               *)
(***************************************************************************)
THEOREM RestoreIsFinal == Spec => []RestoredIsUndone
<1>1. IInv => RestoredIsUndone
  BY DEF IInv
<1> QED
  BY Invariance, <1>1, PTL
-----------------------------------------------------------------------------
(* The queue of the jobs channel.                                           *)

(* A job that was taken off the channel: it has a result or is under way.   *)
Taken(c) == result[c] # "none" \/ (wpc # "idle" /\ cur = c)

(* Who has come to the channel has a place in line of his own.              *)
TicketsDiffer ==
  \A c \in Calls : caller[c] # "idle" =>
    /\ ticket[c] < served
    /\ \A d \in Calls \ {c} : caller[d] # "idle" => ticket[c] # ticket[d]

(* Nobody waits for a result that no worker will send.                      *)
WaitingIsTaken == \A c \in Calls : caller[c] = "waiting" => Taken(c)

(* Whoever still stands in line came after all whose jobs were taken.       *)
NoOvertaking ==
  \A c, d \in Calls : Taken(c) /\ caller[d] = "sending" => ticket[c] < ticket[d]

QueueInv == TicketsDiffer /\ WaitingIsTaken /\ NoOvertaking

(* Taken jobs had come to the channel before.                               *)
LEMMA TakenHasCome ==
  ASSUME IInv, NEW c \in Calls, Taken(c)
  PROVE  caller[c] \notin {"idle", "sending"}
  BY DEF IInv, UnstartedIsClean, JobIsCurrent, Taken

(* A step that moves no caller into or within the line and takes no job     *)
(* keeps the queue.                                                         *)
LEMMA QueueFrame ==
  ASSUME QueueInv, UNCHANGED <<ticket, served>>,
         \A c \in Calls : /\ caller'[c] = "idle" <=> caller[c] = "idle"
                          /\ caller'[c] = "sending" => caller[c] = "sending"
                          /\ caller'[c] = "waiting" => caller[c] = "waiting" /\ Taken(c)'
                          /\ Taken(c)' => Taken(c)
  PROVE  QueueInv'
<1>1. TicketsDiffer'
  BY DEF QueueInv, TicketsDiffer
<1>2. WaitingIsTaken'
  BY DEF QueueInv, WaitingIsTaken
<1>3. NoOvertaking'
  BY DEF QueueInv, NoOvertaking
<1> QED
  BY <1>1, <1>2, <1>3 DEF QueueInv

(* A new caller goes to the end of the line.                                *)
LEMMA SubmitQueue ==
  ASSUME IInv, QueueInv, NEW c \in Calls, Submit(c)
  PROVE  QueueInv'
<1> USE DEF jobVars
<1>1. /\ caller[c] = "idle" /\ caller'[c] \in {"sending", "lost"}
      /\ \A d \in Calls \ {c} : caller'[d] = caller[d] /\ ticket'[d] = ticket[d]
      /\ ticket'[c] = served /\ served' = served + 1 /\ served \in Nat
      /\ ticket \in [Calls -> Nat]
  BY DEF IInv, TypeOK, Submit
<1>2. \A d \in Calls : Taken(d)' <=> Taken(d)
  BY DEF Submit, Taken
<1>3. ~Taken(c)
  BY <1>1, TakenHasCome
<1>4. TicketsDiffer'
  BY <1>1 DEF QueueInv, TicketsDiffer
<1>5. WaitingIsTaken'
  BY <1>1, <1>2 DEF QueueInv, WaitingIsTaken
<1>6. NoOvertaking'
  <2> SUFFICES ASSUME NEW b \in Calls, NEW d \in Calls, Taken(b), caller'[d] = "sending"
               PROVE  ticket'[b] < ticket'[d]
    BY <1>2 DEF NoOvertaking
  <2>1. b # c /\ ticket'[b] = ticket[b] /\ ticket[b] < served
    BY <1>1, <1>3, TakenHasCome DEF QueueInv, TicketsDiffer
  <2> QED
    BY <1>1, <2>1 DEF QueueInv, NoOvertaking
<1> QED
  BY <1>4, <1>5, <1>6 DEF QueueInv

(* The worker takes the first in line.                                      *)
LEMMA AcceptQueue ==
  ASSUME IInv, QueueInv, NEW c \in Calls, Accept(c)
  PROVE  QueueInv'
<1>1. /\ caller[c] = "sending" /\ caller'[c] = "waiting"
      /\ \A d \in Calls \ {c} : caller'[d] = caller[d]
      /\ UNCHANGED <<ticket, served, result>>
      /\ wpc = "idle" /\ wpc' # "idle" /\ cur' = c
      /\ ticket \in [Calls -> Nat]
      /\ \A d \in Calls : caller[d] = "sending" => ticket[c] <= ticket[d]
  BY DEF IInv, TypeOK, Accept, NextInLine
<1>2. \A d \in Calls : Taken(d)' <=> Taken(d) \/ d = c
  BY <1>1 DEF Taken
<1>3. TicketsDiffer'
  BY <1>1 DEF QueueInv, TicketsDiffer
<1>4. WaitingIsTaken'
  BY <1>1, <1>2 DEF QueueInv, WaitingIsTaken
<1>5. NoOvertaking'
  <2> SUFFICES ASSUME NEW b \in Calls, NEW d \in Calls, Taken(b) \/ b = c, caller'[d] = "sending"
               PROVE  ticket[b] < ticket[d]
    BY <1>1, <1>2 DEF NoOvertaking
  <2>1. d # c /\ caller[d] = "sending"
    BY <1>1
  <2>2. CASE Taken(b)
    BY <2>1, <2>2 DEF QueueInv, NoOvertaking
  <2>3. CASE b = c
    BY <1>1, <2>1, <2>3 DEF QueueInv, TicketsDiffer
  <2> QED
    BY <2>2, <2>3
<1> QED
  BY <1>3, <1>4, <1>5 DEF QueueInv

(* All other steps leave the line, or take callers out of it.               *)
LEMMA OtherQueue ==
  ASSUME IInv, QueueInv, Next,
         \A c \in Calls : ~Submit(c) /\ ~Accept(c)
  PROVE  QueueInv'
<1> USE DEF callVars, jobVars, wsVars
<1>0. /\ caller \in [Calls -> {"idle", "sending", "waiting", "answered", "gaveup", "lost"}]
      /\ result \in [Calls -> {"none", "ok", "error"}] /\ cur \in Calls
      /\ \A c \in Calls : caller[c] = "waiting" => Taken(c)
  BY DEF IInv, TypeOK, QueueInv, WaitingIsTaken
<1>1. ASSUME NEW c \in Calls, GiveUp(c) \/ Receive(c) PROVE QueueInv'
  BY <1>0, <1>1, QueueFrame DEF GiveUp, Receive, Taken
<1>2. ASSUME NEW c \in Calls, LateLands(c) PROVE QueueInv'
  BY <1>0, <1>2, QueueFrame DEF LateLands, Taken
<1>3. CASE Checkpoint \/ CheckpointFails \/ Execute \/ Verify \/ Restore \/ RestoreFails
  <2>1. UNCHANGED <<callVars, result, cur>> /\ wpc # "idle" /\ wpc' # "idle"
    BY <1>3 DEF Checkpoint, CheckpointFails, Execute, ExecuteOK, ExecuteDenied, ExecuteFails,
                ExecuteAbandoned, Verify, Restore, RestoreFails, AfterFailure
  <2> QED
    BY <1>0, <2>1, QueueFrame DEF Taken
<1>4. CASE Reply
  <2>1. /\ UNCHANGED <<callVars, cur>> /\ wpc = "reply" /\ wpc' = "idle"
        /\ result'[cur] # "none" /\ \A c \in Calls \ {cur} : result'[c] = result[c]
    BY <1>0, <1>4 DEF Reply
  <2>2. \A c \in Calls : Taken(c)' <=> Taken(c)
    BY <2>1 DEF Taken
  <2> QED
    BY <1>0, <2>1, <2>2, QueueFrame
<1>5. CASE KillAdapters \/ CloseJobs
  BY <1>0, <1>5, QueueFrame DEF KillAdapters, CloseJobs, Taken
<1>6. CASE Exit
  BY <1>0, <1>6, QueueFrame DEF Exit, Taken
<1>7. CASE Hold
  BY <1>0, <1>7, QueueFrame DEF Hold, Taken
<1> QED
  BY <1>1, <1>2, <1>3, <1>4, <1>5, <1>6, <1>7 DEF Next, Worker

(* The queue is in order throughout.                                        *)
LEMMA SpecQueue == Spec => []QueueInv
<1>1. Init => QueueInv
  BY DEF Init, QueueInv, TicketsDiffer, WaitingIsTaken, NoOvertaking
<1>2. IInv /\ QueueInv /\ [Next]_vars => QueueInv'
  <2> SUFFICES ASSUME IInv, QueueInv, [Next]_vars PROVE QueueInv'
    OBVIOUS
  <2>1. CASE UNCHANGED vars
    BY <2>1 DEF vars, callVars, jobVars, QueueInv, TicketsDiffer, WaitingIsTaken, NoOvertaking, Taken
  <2>2. CASE Next
    BY <2>2, SubmitQueue, AcceptQueue, OtherQueue
  <2> QED
    BY <2>1, <2>2
<1> QED
  BY <1>1, <1>2, Invariance, PTL DEF Spec

(***************************************************************************)
(* SerialExecutor.Do: a caller past the first select has a result waiting   *)
(* or is the one whose job the worker is at. No job falls between the       *)
(* channel and the worker, so that the second select is never hopeless,     *)
(* also when others gave up, the adapters were killed or the channel closed.*)
(***************************************************************************)
THEOREM WaitingCallIsServed == Spec => []WaitingIsTaken
<1>1. QueueInv => WaitingIsTaken
  BY DEF QueueInv
<1> QED
  BY SpecQueue, <1>1, PTL

(***************************************************************************)
(* SerialExecutor serves in the order callers came: a call that has a       *)
(* result, or is being executed, came before all that are still blocked.    *)
(***************************************************************************)
THEOREM ServedInOrder == Spec => []NoOvertaking
<1>1. QueueInv => NoOvertaking
  BY DEF QueueInv
<1> QED
  BY SpecQueue, <1>1, PTL

-----------------------------------------------------------------------------
(* Ranks of the places of a caller, of a job and of the process.            *)
CallerRank(at) == CASE at = "idle" -> 0 [] at = "sending" -> 1 [] at = "waiting" -> 2 [] OTHER -> 3
JobRank(at) == CASE at = "idle" -> 0 [] at = "checkpoint" -> 1 [] at = "exec" -> 2
                 [] at = "verify" -> 3 [] at = "restore" -> 4 [] OTHER -> 5
PhaseRank(p) == CASE p = "serving" -> 0 [] p = "killed" -> 1 [] p = "closed" -> 2 [] OTHER -> 3

(* A caller goes forward.                                                   *)
CallerAdvances ==
  \E c \in Calls : /\ CallerRank(caller'[c]) > CallerRank(caller[c])
                   /\ \A d \in Calls \ {c} : caller'[d] = caller[d]

(* A job that had no result gets one.                                       *)
ResultArrives ==
  \E c \in Calls : /\ result[c] = "none" /\ result'[c] # "none"
                   /\ \A d \in Calls \ {c} : result'[d] = result[d]

(* A step takes the process, a caller, a job or unattended work forward, or *)
(* a command's pipes come to be held, and of what comes before in this list *)
(* it changes nothing.                                                      *)
Advances ==
  \/ PhaseRank(phase') > PhaseRank(phase)
  \/ phase' = phase /\ CallerAdvances
  \/ UNCHANGED <<phase, caller>> /\ ResultArrives
  \/ UNCHANGED <<phase, caller, result>> /\ JobRank(wpc') > JobRank(wpc)
  \/ UNCHANGED <<phase, caller, result, wpc>> /\ \E c \in late : late' = late \ {c}
  \/ UNCHANGED <<phase, caller, result, wpc, late>> /\ ~held /\ held'

(***************************************************************************)
(* Every step of the runtime advances in that order, so that with finitely  *)
(* many calls Runtime.execute, restores and late work included, cannot      *)
(* go round for ever.                                                       *)
(***************************************************************************)
THEOREM EveryStepAdvances == Spec => [][Advances]_vars
<1> USE DEF callVars, jobVars, wsVars
<1>1. ASSUME IInv, Next PROVE Advances
  <2>0. /\ caller \in [Calls -> {"idle", "sending", "waiting", "answered", "gaveup", "lost"}]
        /\ result \in [Calls -> {"none", "ok", "error"}] /\ cur \in Calls
    BY <1>1 DEF IInv, TypeOK
  <2>1. ASSUME NEW c \in Calls, Submit(c) \/ GiveUp(c) \/ Receive(c) \/ Accept(c) PROVE Advances
    <3>1. phase' = phase /\ CallerRank(caller'[c]) > CallerRank(caller[c])
      BY <2>0, <2>1 DEF Submit, GiveUp, Receive, Accept, NextInLine, CallerRank
    <3>2. \A d \in Calls \ {c} : caller'[d] = caller[d]
      BY <2>0, <2>1 DEF Submit, GiveUp, Receive, Accept
    <3> QED
      BY <3>1, <3>2 DEF Advances, CallerAdvances
  <2>2. ASSUME NEW c \in Calls, LateLands(c) PROVE Advances
    BY <2>2 DEF LateLands, Advances
  <2>3. CASE Checkpoint \/ CheckpointFails \/ Execute \/ Verify \/ Restore \/ RestoreFails
    <3>1. UNCHANGED <<phase, caller, result>>
      BY <2>3 DEF Checkpoint, CheckpointFails, Execute, ExecuteOK, ExecuteDenied, ExecuteFails,
                  ExecuteAbandoned, Verify, Restore, RestoreFails
    <3>2. JobRank(wpc') > JobRank(wpc)
      BY <2>3 DEF Checkpoint, CheckpointFails, Execute, ExecuteOK, ExecuteDenied, ExecuteFails,
                  ExecuteAbandoned, Verify, Restore, RestoreFails, AfterFailure, JobRank
    <3> QED
      BY <3>1, <3>2 DEF Advances
  <2>4. CASE Reply
    <3>1. result[cur] = "none"
      BY <1>1, <2>4 DEF IInv, JobIsCurrent, Reply
    <3>2. /\ UNCHANGED <<phase, caller>> /\ result'[cur] # "none"
          /\ \A d \in Calls \ {cur} : result'[d] = result[d]
      BY <2>0, <2>4 DEF Reply
    <3> QED
      BY <2>0, <3>1, <3>2 DEF Advances, ResultArrives
  <2>5. CASE KillAdapters \/ CloseJobs \/ Exit
    <3>1. PhaseRank(phase') > PhaseRank(phase)
      BY <1>1, <2>5 DEF IInv, TypeOK, KillAdapters, CloseJobs, Exit, Up, PhaseRank
    <3> QED
      BY <3>1 DEF Advances
  <2>6. CASE Hold
    BY <2>6 DEF Hold, Advances
  <2> QED
    BY <1>1, <2>1, <2>2, <2>3, <2>4, <2>5, <2>6 DEF Next, Worker
<1>2. IInv /\ [Next]_vars => [Advances]_vars
  BY <1>1
<1> QED
  BY <1>2, Invariance, PTL DEF Spec
================================================================================
