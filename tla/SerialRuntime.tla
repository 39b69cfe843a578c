----------------------------- MODULE SerialRuntime -----------------------------
(***************************************************************************)
(* The runtime inside a sandbox (internal/runtime/runtime.go, adapter.go,   *)
(* cmd/pb-runtimed/main.go): every primitive goes through the one worker of *)
(* SerialExecutor, which takes a checkpoint of the workspace, executes the  *)
(* primitive in process or through an adapter's RPC port, runs the verifier *)
(* the schema names, and restores the checkpoint after a failure.           *)
(*                                                                          *)
(* A call is one JSON-RPC request.  Its caller waits, first to hand the job *)
(* over and then for the result, and may give up at both places while the   *)
(* job goes on.  The workspace is the set of calls whose effects are in it; *)
(* effects of different calls are taken to be on different files.           *)
(***************************************************************************)
EXTENDS Naturals

CONSTANTS Calls,      \* requests
          prim        \* the schema of the primitive each of them asks for

(* A schema, up to what execute asks of it: remote tells whether an adapter *)
(* process executes it, checkpoint is what the schema itself declares.      *)
(* command, that the runtime itself runs a command for it, as for shell.exec *)
(* and verify.test.  ignored says of the call that it writes where           *)
(* .gitignore points, as shell.exec does with npm install.                   *)
Schema == [side : {"none", "read", "write", "exec"}, remote : BOOLEAN, command : BOOLEAN,
           checkpoint : BOOLEAN, verifier : BOOLEAN, ignored : BOOLEAN]

ASSUME RuntimeAssumption == prim \in [Calls -> Schema]

VARIABLES
  caller,    \* where the caller of a call is
  ticket,    \* the order in which callers came to the jobs channel
  served,    \* tickets given out
  result,    \* what the job of a call came to
  wpc,       \* where the worker is
  cur,       \* the call whose job it runs
  held,      \* a process its command left behind keeps the pipes open
  failed,    \* err of that job
  ckpt,      \* checkpointID of that job: the one workspace it stands for, or none
  files,     \* the workspace: calls whose effects are there
  late,      \* calls an adapter or a child process still works on unattended
  abandoned, \* all calls that ever were in late
  undone,    \* calls after which the checkpoint was brought back
  phase      \* of the process

callVars == <<caller, ticket, served>>
jobVars == <<wpc, cur, held, failed, ckpt>>
wsVars == <<files, late, abandoned, undone>>
vars == <<callVars, result, jobVars, wsVars, phase>>

Up == phase # "exited"

(* EnrichSchema: whoever writes to the workspace gets a checkpoint. *)
CheckpointRequired(p) == p.checkpoint \/ p.side = "write"

Effects(c) == IF prim[c].side \in {"write", "exec"} THEN {c} ELSE {}

(* What git add -A finds in a workspace, all but the ignored files. *)
Tracked(ws) == {c \in ws : ~prim[c].ignored}

(* The type invariant. *)
TypeOK ==
  /\ caller \in [Calls -> {"idle", "sending", "waiting", "answered", "gaveup", "lost"}]
  /\ ticket \in [Calls -> Nat]
  /\ served \in Nat
  /\ result \in [Calls -> {"none", "ok", "error"}]
  /\ wpc \in {"idle", "checkpoint", "exec", "verify", "restore", "reply"}
  /\ cur \in Calls
  /\ held \in BOOLEAN
  /\ failed \in BOOLEAN
  /\ ckpt \subseteq SUBSET Calls
  /\ files \subseteq Calls
  /\ late \subseteq Calls
  /\ abandoned \subseteq Calls
  /\ undone \subseteq Calls
  /\ phase \in {"serving", "killed", "closed", "exited"}

Init ==
  /\ caller = [c \in Calls |-> "idle"]
  /\ ticket = [c \in Calls |-> 0]
  /\ served = 0
  /\ result = [c \in Calls |-> "none"]
  /\ wpc = "idle"
  /\ cur \in Calls
  /\ held = FALSE
  /\ failed = FALSE
  /\ ckpt = {}
  /\ files = {}
  /\ late = {}
  /\ abandoned = {}
  /\ undone = {}
  /\ phase = "serving"

-----------------------------------------------------------------------------
(* SerialExecutor.Do, run by the handler of a call. *)

(* The handler reaches the first select.  A channel that is closed already  *)
(* makes the send panic; the handler recovers and answers an internal error.*)
Submit(c) ==
  /\ Up
  /\ caller[c] = "idle"
  /\ caller' = [caller EXCEPT ![c] = IF phase = "closed" THEN "lost" ELSE "sending"]
  /\ ticket' = [ticket EXCEPT ![c] = served]
  /\ served' = served + 1
  /\ UNCHANGED <<result, jobVars, wsVars, phase>>

(* ctx.Done in either select; the job, once handed over, goes on. *)
GiveUp(c) ==
  /\ Up
  /\ caller[c] \in {"sending", "waiting"}
  /\ caller' = [caller EXCEPT ![c] = "gaveup"]
  /\ UNCHANGED <<ticket, served, result, jobVars, wsVars, phase>>

Receive(c) ==
  /\ Up
  /\ caller[c] = "waiting"
  /\ result[c] # "none"
  /\ caller' = [caller EXCEPT ![c] = "answered"]
  /\ UNCHANGED <<ticket, served, result, jobVars, wsVars, phase>>

-----------------------------------------------------------------------------
(* The worker of SerialExecutor, and Runtime.execute for its job. *)

(* Senders blocked on a channel are received from in the order they came. *)
NextInLine(c) ==
  /\ caller[c] = "sending"
  /\ \A d \in Calls : caller[d] = "sending" => ticket[c] <= ticket[d]

(* Mutant: the checkpoint id is kept in the Runtime and not reset. *)
AcceptKeepsCheckpoint(c) ==
  /\ phase \in {"serving", "killed"}
  /\ wpc = "idle"
  /\ NextInLine(c)
  /\ caller' = [caller EXCEPT ![c] = "waiting"]
  /\ cur' = c
  /\ failed' = FALSE
  /\ wpc' = IF CheckpointRequired(prim[c]) THEN "checkpoint" ELSE "exec"
  /\ UNCHANGED <<ticket, served, result, held, ckpt, wsVars, phase>>

Accept(c) ==
  /\ phase \in {"serving", "killed"}
  /\ wpc = "idle"
  /\ NextInLine(c)
  /\ caller' = [caller EXCEPT ![c] = "waiting"]
  /\ cur' = c
  /\ failed' = FALSE
  /\ ckpt' = {}
  /\ wpc' = IF CheckpointRequired(prim[c]) THEN "checkpoint" ELSE "exec"
  /\ UNCHANGED <<ticket, served, result, held, wsVars, phase>>

(* git add -A and git commit. *)
Checkpoint ==
  /\ Up /\ wpc = "checkpoint"
  /\ ckpt' = {Tracked(files)}
  /\ wpc' = "exec"
  /\ UNCHANGED <<callVars, result, cur, held, failed, wsVars, phase>>

CheckpointFails ==
  /\ Up /\ wpc = "checkpoint"
  /\ failed' = TRUE
  /\ wpc' = "reply"
  /\ UNCHANGED <<callVars, result, cur, held, ckpt, wsVars, phase>>

(* shouldRestoreAfterFailure, for a job that failed otherwise than by being *)
(* denied.                                                                  *)
AfterFailure ==
  IF ckpt # {} /\ prim[cur].side \in {"write", "exec"} THEN "restore" ELSE "reply"

(* A command, the primitive's or the verifier's, leaves a process behind    *)
(* that has its pipes.  shell.exec reads them to their end before it waits  *)
(* for the command, and the deadline kills only sh: nothing but the end of  *)
(* that process ends the call.                                              *)
Hold ==
  /\ Up /\ ~held
  /\ wpc = "verify" \/ (wpc = "exec" /\ prim[cur].command)
  /\ held' = TRUE
  /\ UNCHANGED <<callVars, result, wpc, cur, failed, ckpt, wsVars, phase>>

(* Work on a call that goes on after the runtime is through with it. *)
GoesOn(c) ==
  /\ late' = late \cup Effects(c)
  /\ abandoned' = abandoned \cup Effects(c)

(* The primitive answers without an error. An adapter that was killed does  *)
(* not answer. shell.exec answers so when its deadline killed sh, too, and  *)
(* what sh started may be at work still.                                    *)
ExecuteOK ==
  /\ Up /\ wpc = "exec"
  /\ prim[cur].remote => phase = "serving"
  /\ files' = files \cup Effects(cur)
  /\ \/ UNCHANGED <<late, abandoned>>
     \/ prim[cur].command /\ GoesOn(cur)
  /\ held' = FALSE
  /\ wpc' = IF prim[cur].verifier THEN "verify" ELSE "reply"
  /\ UNCHANGED <<callVars, result, cur, failed, ckpt, undone, phase>>

(* PERMISSION_DENIED of a primitive in process, before it does anything: no *)
(* restore. An adapter's denial arrives as an execution error.              *)
ExecuteDenied ==
  /\ Up /\ wpc = "exec"
  /\ ~prim[cur].remote /\ ~held
  /\ failed' = TRUE
  /\ wpc' = "reply"
  /\ UNCHANGED <<callVars, result, cur, held, ckpt, wsVars, phase>>

(* Any other error, the deadline included; the effect may be there or not. *)
ExecuteFails ==
  /\ Up /\ wpc = "exec"
  /\ files' \in {files, files \cup Effects(cur)}
  /\ held' = FALSE
  /\ failed' = TRUE
  /\ wpc' = AfterFailure
  /\ UNCHANGED <<callVars, result, cur, ckpt, late, abandoned, undone, phase>>

(* The deadline or a caller who left cancels the HTTP request to an adapter.*)
(* The adapter may be at work on it still.                                  *)
ExecuteAbandoned ==
  /\ Up /\ wpc = "exec"
  /\ prim[cur].remote /\ phase = "serving"
  /\ GoesOn(cur)
  /\ failed' = TRUE
  /\ wpc' = AfterFailure
  /\ UNCHANGED <<callVars, result, cur, held, ckpt, files, undone, phase>>

(* The verifier runs inside the same job, without a checkpoint of its own. *)
Verify ==
  /\ Up /\ wpc = "verify"
  /\ \/ /\ wpc' = "reply"
        /\ failed' = FALSE
     \/ /\ wpc' = AfterFailure
        /\ failed' = TRUE
  /\ held' = FALSE
  /\ UNCHANGED <<callVars, result, cur, ckpt, wsVars, phase>>

(* Mutant: git restore without git clean, so that new files stay. *)
RestoreTrackedOnly ==
  /\ Up /\ wpc = "restore"
  /\ \E snap \in ckpt : files' \in {f \in SUBSET files : snap \subseteq f}
  /\ undone' = undone \cup {cur}
  /\ wpc' = "reply"
  /\ UNCHANGED <<callVars, result, cur, held, failed, ckpt, late, abandoned, phase>>

(* git restore, and git clean -fdx, which removes the ignored files too. *)
Restore ==
  /\ Up /\ wpc = "restore"
  /\ files' \in ckpt
  /\ undone' = undone \cup {cur}
  /\ wpc' = "reply"
  /\ UNCHANGED <<callVars, result, cur, held, failed, ckpt, late, abandoned, phase>>

(* The error of the restore is dropped; git may have stopped half way. *)
RestoreFails ==
  /\ Up /\ wpc = "restore"
  /\ \E snap \in ckpt : files' \in {f \in SUBSET files : snap \subseteq f}
  /\ wpc' = "reply"
  /\ UNCHANGED <<callVars, result, cur, held, failed, ckpt, late, abandoned, undone, phase>>

(* Mutant: a result channel without a buffer needs a receiver. *)
ReplyUnbuffered ==
  /\ Up /\ wpc = "reply"
  /\ caller[cur] = "waiting"
  /\ result' = [result EXCEPT ![cur] = IF failed THEN "error" ELSE "ok"]
  /\ wpc' = "idle"
  /\ UNCHANGED <<callVars, cur, held, failed, ckpt, wsVars, phase>>

(* The result goes into a channel with room for it, whoever still waits. *)
Reply ==
  /\ Up /\ wpc = "reply"
  /\ result' = [result EXCEPT ![cur] = IF failed THEN "error" ELSE "ok"]
  /\ wpc' = "idle"
  /\ UNCHANGED <<callVars, cur, held, failed, ckpt, wsVars, phase>>

-----------------------------------------------------------------------------
(* Adapters, and the end of the process. *)

(* What an adapter does with a request whose client is gone, or a process a *)
(* command left behind: carry it out, or drop it.                           *)
LateLands(c) ==
  /\ c \in late
  /\ files' \in {files, files \cup {c}}
  /\ late' = late \ {c}
  /\ UNCHANGED <<callVars, result, jobVars, abandoned, undone, phase>>

(* Runtime.Close, called when Serve returns, which does not wait for the    *)
(* handlers: it kills the adapters ...                                      *)
KillAdapters ==
  /\ phase = "serving"
  /\ phase' = "killed"
  /\ late' = {c \in late : ~prim[c].remote}
  /\ UNCHANGED <<callVars, result, jobVars, files, abandoned, undone>>

(* ... and closes the channel, at which every blocked send panics. *)
CloseJobs ==
  /\ phase = "killed"
  /\ phase' = "closed"
  /\ caller' = [c \in Calls |-> IF caller[c] = "sending" THEN "lost" ELSE caller[c]]
  /\ UNCHANGED <<ticket, served, result, jobVars, wsVars>>

(* main returns, or the sandbox is killed: a job ends where it is, and      *)
(* nobody restores its checkpoint.                                          *)
Exit ==
  /\ Up
  /\ phase' = "exited"
  /\ wpc' = "idle"
  /\ held' = FALSE
  /\ late' = {}
  /\ caller' = [c \in Calls |->
                  IF caller[c] \in {"sending", "waiting"} THEN "lost" ELSE caller[c]]
  /\ UNCHANGED <<ticket, served, result, cur, failed, ckpt, files, abandoned, undone>>

-----------------------------------------------------------------------------
Execute == ExecuteOK \/ ExecuteDenied \/ ExecuteFails \/ ExecuteAbandoned

Worker ==
  \/ \E c \in Calls : Accept(c)
  \/ Checkpoint \/ CheckpointFails
  \/ Execute
  \/ Verify
  \/ Restore \/ RestoreFails
  \/ Reply

Next ==
  \/ \E c \in Calls : Submit(c) \/ GiveUp(c) \/ Receive(c) \/ LateLands(c)
  \/ Worker \/ Hold
  \/ KillAdapters \/ CloseJobs \/ Exit

Spec == Init /\ [][Next]_vars

(* The worker is a goroutine and each call it makes returns, primitives by  *)
(* their deadline, unless a command's pipes are held; a caller who waits    *)
(* takes the result; a Close goes on.  ctx need not end: nobody has to give *)
(* up.                                                                      *)
FairSpec ==
  /\ Spec
  /\ WF_vars(~held /\ Worker)
  /\ \A c \in Calls : WF_vars(Receive(c))
  /\ WF_vars(CloseJobs)
  /\ WF_vars(phase = "closed" /\ Exit)

-----------------------------------------------------------------------------
(***************************************************************************)
(* What SerialExecutor is for: a call that came to a result without an      *)
(* error keeps its effect, on files git does not ignore. No restore after   *)
(* another call's failure, no late answer of an adapter and no end of the   *)
(* process takes it away.                                                   *)
(***************************************************************************)
OkStands == \A c \in Calls : result[c] = "ok" => Tracked(Effects(c)) \subseteq files

(***************************************************************************)
(* The restore after a failure, where it succeeds, is for good: the effect  *)
(* of that call does not come back, with a later restore or otherwise. The  *)
(* exception is a call that an adapter, or a process its command left       *)
(* behind, carries out after the runtime stopped waiting for it.            *)
(***************************************************************************)
RestoredIsUndone == undone \cap files \subseteq abandoned

(***************************************************************************)
(* Do returns: whoever came to the channel gets a result, gives up, or is   *)
(* told that the server went away, also when others give up on their jobs.  *)
(* Only a command whose pipes are held for ever takes that away, from its   *)
(* own caller and from all behind it: there is one worker, and the deadline *)
(* of a call behind starts with its job.                                    *)
(***************************************************************************)
EveryCallEnds ==
  \A c \in Calls :
    \/ caller[c] \in {"sending", "waiting"} ~> caller[c] \in {"answered", "gaveup", "lost"}
    \/ <>[]held

-----------------------------------------------------------------------------
(* The inductive invariant behind the proofs. *)

(* A call that has not been accepted has done nothing. *)
UnstartedIsClean ==
  \A c \in Calls : caller[c] \in {"idle", "sending"} =>
    result[c] = "none" /\ c \notin files \cup late \cup undone

(* The job under way has no result yet, and its effect is in place when it  *)
(* is about to report success.                                              *)
JobIsCurrent ==
  wpc # "idle" =>
    /\ result[cur] = "none"
    /\ caller[cur] \notin {"idle", "sending"}
    /\ wpc \in {"checkpoint", "exec"} => cur \notin files \cup undone
    /\ wpc \in {"checkpoint", "exec"} => cur \notin late
    /\ wpc \in {"checkpoint", "exec", "verify"} => ~failed
    /\ wpc \in {"verify", "restore"} => cur \notin undone
    /\ wpc = "restore" => failed
    /\ wpc \in {"verify", "reply"} /\ ~failed => Effects(cur) \subseteq files

(* The checkpoint was taken before the job's effect, and nothing that was   *)
(* there then is lost.                                                      *)
CheckpointIsBelow ==
  wpc # "idle" =>
    \A snap \in ckpt :
      /\ ckpt = {snap}
      /\ snap \subseteq files
      /\ cur \notin snap
      /\ \A c \in Calls : result[c] = "ok" => Tracked(Effects(c)) \subseteq snap

IInv ==
  /\ TypeOK
  /\ late \subseteq abandoned
  /\ UnstartedIsClean
  /\ JobIsCurrent
  /\ CheckpointIsBelow
  /\ OkStands
  /\ RestoredIsUndone
================================================================================
