---------------------------- MODULE ProcessTable ----------------------------
(***************************************************************************)
(* The process primitives of pb-os-adapter.  Every connection carries one  *)
(* request; spawn puts a record into the table, a reaper per process waits *)
(* for it and writes the record's end under the record's lock.             *)
(***************************************************************************)
EXTENDS Naturals

CONSTANTS Conns,       \* connections to the adapter's socket
          MaxProcs     \* bound: processes that are spawned

ASSUME TableAssumption == MaxProcs \in Nat

Procs == 1..MaxProcs           \* process_ids, in the order of the counter
Signals == {"SIGTERM", "SIGKILL"}
Ops == {"list", "spawn", "wait", "wait_forever"} \cup Signals

VARIABLES
  os,        \* process -> what the operating system has of it
  how,       \* process -> what ended it
  pending,   \* process -> signals sent to it
  rec,       \* process -> its record in the table
  conn,      \* connection -> its request
  adapter    \* the adapter itself: serving, told to stop, gone

tableVars == <<os, how, pending, rec, conn, adapter>>

NoRecord == [state |-> "absent", exit |-> "none", done |-> FALSE]
NoCall == [pc |-> "idle", op |-> "none", proc |-> 0, known |-> {}, over |-> {}, todo |-> {},
           ans |-> <<>>]

TableInit ==
  /\ os = [p \in Procs |-> "none"] /\ how = [p \in Procs |-> "none"]
  /\ pending = [p \in Procs |-> {}]
  /\ rec = [p \in Procs |-> NoRecord]
  /\ conn = [c \in Conns |-> NoCall]
  /\ adapter = "serving"

At(c, pc) == conn[c].pc = pc /\ adapter # "gone"
Go(c, pc) == conn' = [conn EXCEPT ![c].pc = pc]
Answer(c, ans) == conn' = [conn EXCEPT ![c].pc = "answered", ![c].ans = ans]

(* Mutant: the result asks the child's own state, ahead of the record's.   *)
WaitResultOfChild(p, late) ==
  [is |-> "wait", exited |-> os[p] = "reaped", exit |-> how[p], timed_out |-> late]

(* Answers: an error, the process spawned, the result of a wait, whether a *)
(* signal was sent, the processes listed.                                  *)
Invalid == [is |-> "invalid"]
Internal == [is |-> "error"]
WaitResult(p, late) == [is |-> "wait", exited |-> rec[p].state = "exited", exit |-> rec[p].exit,
                        timed_out |-> late]
Sent(b) == [is |-> "signal", sent |-> b]

(* The processes whose spawn has been answered.                            *)
Answered == {conn[c].ans.proc : c \in {d \in Conns : /\ conn[d].pc = "answered"
                                                      /\ conn[d].ans.is = "spawn"}}

(* The processes that an answer has told to have ended.                    *)
ToldOver == {p \in Procs : \E c \in Conns :
               /\ conn[c].pc = "answered"
               /\ \/ conn[c].ans.is = "wait" /\ conn[c].proc = p /\ conn[c].ans.exited
                  \/ conn[c].ans.is = "list" /\ p \in conn[c].ans.exited}

-----------------------------------------------------------------------------
(* Requests.                                                               *)

(* A request is read and dispatched, also while the adapter is told to     *)
(* stop; or it is none, or its parameters are refused.  known and over are *)
(* history: the processes a client can know of by now, and those it can    *)
(* know to have ended.                                                     *)
HandleConn(c) ==
  /\ conn[c].pc = "idle" /\ adapter # "gone"
  /\ \E op \in Ops, p \in Procs :
       conn' = [conn EXCEPT ![c] = [NoCall EXCEPT !.pc = "dispatch", !.op = op,
                                                  !.known = Answered, !.over = ToldOver,
                                                  !.proc = IF op \in {"list", "spawn"} THEN 0 ELSE p]]
  /\ UNCHANGED <<os, how, pending, rec, adapter>>

BadRequest(c) ==
  /\ At(c, "dispatch")
  /\ Answer(c, Invalid)
  /\ UNCHANGED <<os, how, pending, rec, adapter>>

(* Mutant: the answer goes out before the record is in the table.          *)
SpawnAnswersFirst(c) ==
  /\ At(c, "dispatch") /\ conn[c].op = "spawn"
  /\ \E p \in Procs :
       /\ os[p] = "none" /\ \A q \in 1..(p - 1) : os[q] # "none"
       /\ os' = [os EXCEPT ![p] = "alive"]
       /\ Answer(c, [is |-> "spawn", proc |-> p])
  /\ UNCHANGED <<how, pending, rec, adapter>>

(* cmd.Start, and the counter's next id ...                                *)
Spawn(c) ==
  /\ At(c, "dispatch") /\ conn[c].op = "spawn"
  /\ \E p \in Procs :
       /\ os[p] = "none" /\ \A q \in 1..(p - 1) : os[q] # "none"
       /\ os' = [os EXCEPT ![p] = "alive"]
       /\ conn' = [conn EXCEPT ![c].pc = "spawned", ![c].proc = p]
  /\ UNCHANGED <<how, pending, rec, adapter>>

(* ... then the record enters the table, its reaper starts.                *)
Insert(c) ==
  /\ At(c, "spawned")
  /\ rec' = [rec EXCEPT ![conn[c].proc].state = "running"]
  /\ Answer(c, [is |-> "spawn", proc |-> conn[c].proc])
  /\ UNCHANGED <<os, how, pending, adapter>>

(* process.wait: the record, and whether it still runs.                    *)
WaitGet(c) ==
  /\ At(c, "dispatch") /\ conn[c].op \in {"wait", "wait_forever"}
  /\ LET p == conn[c].proc IN
       CASE rec[p].state = "absent" -> Answer(c, Invalid)
         [] rec[p].state = "exited" -> Answer(c, WaitResult(p, FALSE))
         [] OTHER -> Go(c, "waiting")
  /\ UNCHANGED <<os, how, pending, rec, adapter>>

WaitDone(c) ==
  /\ At(c, "waiting") /\ rec[conn[c].proc].done
  /\ Answer(c, WaitResult(conn[c].proc, FALSE))
  /\ UNCHANGED <<os, how, pending, rec, adapter>>

(* Mutant: the timer runs only for a wait that has none.                   *)
WaitTimerSwapped(c) ==
  /\ At(c, "waiting") /\ conn[c].op = "wait_forever"
  /\ Go(c, "late")
  /\ UNCHANGED <<os, how, pending, rec, adapter>>

(* The timer fires; the record is read after that, and may have changed.   *)
WaitTimer(c) ==
  /\ At(c, "waiting") /\ conn[c].op = "wait"
  /\ Go(c, "late")
  /\ UNCHANGED <<os, how, pending, rec, adapter>>

WaitLate(c) ==
  /\ At(c, "late")
  /\ Answer(c, WaitResult(conn[c].proc, TRUE))
  /\ UNCHANGED <<os, how, pending, rec, adapter>>

WaitCancelled(c) ==
  /\ At(c, "waiting") /\ adapter = "stopping"
  /\ Answer(c, Internal)
  /\ UNCHANGED <<os, how, pending, rec, adapter>>

(* process.terminate, process.kill: the state is read under the lock ...   *)
SignalGet(c) ==
  /\ At(c, "dispatch") /\ conn[c].op \in Signals
  /\ CASE rec[conn[c].proc].state = "absent" -> Answer(c, Invalid)
       [] rec[conn[c].proc].state = "exited" -> Answer(c, Sent(FALSE))
       [] OTHER -> Go(c, "signal")
  /\ UNCHANGED <<os, how, pending, rec, adapter>>

(* ... and the signal sent without it: os.Process knows whether it has     *)
(* been waited for ...                                                     *)
SendSignal(c) ==
  /\ At(c, "signal")
  /\ IF os[conn[c].proc] = "reaped"
       THEN Answer(c, Sent(FALSE)) /\ UNCHANGED pending
       ELSE /\ pending' = [pending EXCEPT ![conn[c].proc] = @ \cup {conn[c].op}]
            /\ Answer(c, Sent(TRUE))
  /\ UNCHANGED <<os, how, rec, adapter>>

(* ... or the system refuses it.                                           *)
SignalRefused(c) ==
  /\ At(c, "signal")
  /\ Answer(c, Internal)
  /\ UNCHANGED <<os, how, pending, rec, adapter>>

(* process.list: the records of one moment ...                             *)
ListRecords(c) ==
  /\ At(c, "dispatch") /\ conn[c].op = "list"
  /\ conn' = [conn EXCEPT ![c].pc = "list", ![c].todo = {p \in Procs : rec[p].state # "absent"},
                          ![c].ans = [is |-> "list", running |-> {}, exited |-> {}]]
  /\ UNCHANGED <<os, how, pending, rec, adapter>>

(* ... each summarised on its own.                                         *)
Summarize(c) ==
  /\ At(c, "list")
  /\ \E p \in conn[c].todo :
       conn' = [conn EXCEPT ![c].todo = @ \ {p},
                            ![c].ans.running = IF rec[p].state = "running" THEN @ \cup {p} ELSE @,
                            ![c].ans.exited = IF rec[p].state = "exited" THEN @ \cup {p} ELSE @]
  /\ UNCHANGED <<os, how, pending, rec, adapter>>

ListAnswer(c) ==
  /\ At(c, "list") /\ conn[c].todo = {}
  /\ Go(c, "answered")
  /\ UNCHANGED <<os, how, pending, rec, adapter>>

-----------------------------------------------------------------------------
(* Processes.                                                              *)

(* A process ends by itself or by a signal it was sent (it may ignore      *)
(* SIGTERM).                                                               *)
Ends(p, by) ==
  /\ os[p] = "alive" /\ (by = "exit" \/ by \in pending[p])
  /\ os' = [os EXCEPT ![p] = "zombie"]
  /\ how' = [how EXCEPT ![p] = by]
  /\ UNCHANGED <<pending, rec, conn, adapter>>

(* The reaper's cmd.Wait returns ...                                       *)
WaitReturns(p) ==
  /\ os[p] = "zombie" /\ rec[p].state = "running" /\ adapter # "gone"
  /\ os' = [os EXCEPT ![p] = "reaped"]
  /\ UNCHANGED <<how, pending, rec, conn, adapter>>

(* Mutant: the waiters are woken before the record is written.             *)
ReapWakesFirst(p) ==
  /\ os[p] = "reaped" /\ rec[p].state = "running" /\ adapter # "gone"
  /\ rec' = [rec EXCEPT ![p] = IF @.done THEN [@ EXCEPT !.state = "exited", !.exit = how[p]]
                               ELSE [@ EXCEPT !.done = TRUE]]
  /\ UNCHANGED <<os, how, pending, conn, adapter>>

(* ... and the record's end is written, and the waiters woken, in one hold *)
(* of its lock.                                                            *)
Reap(p) ==
  /\ os[p] = "reaped" /\ rec[p].state = "running" /\ adapter # "gone"
  /\ rec' = [rec EXCEPT ![p] = [state |-> "exited", exit |-> how[p], done |-> TRUE]]
  /\ UNCHANGED <<os, how, pending, conn, adapter>>

(* SIGTERM to the adapter: ctx is done; run returns, and with the adapter  *)
(* go its table and its connections, not the processes.                    *)
Stop ==
  /\ adapter = "serving" /\ adapter' = "stopping"
  /\ UNCHANGED <<os, how, pending, rec, conn>>

RunReturns ==
  /\ adapter = "stopping" /\ adapter' = "gone"
  /\ rec' = [p \in Procs |-> NoRecord]
  /\ conn' = [c \in Conns |-> IF conn[c].pc \in {"idle", "answered"} THEN conn[c]
                              ELSE [conn[c] EXCEPT !.pc = "cut"]]
  /\ UNCHANGED <<os, how, pending>>

-----------------------------------------------------------------------------
Serve(c) == \/ BadRequest(c) \/ Spawn(c) \/ Insert(c)
            \/ WaitGet(c) \/ WaitDone(c) \/ WaitTimer(c) \/ WaitLate(c) \/ WaitCancelled(c)
            \/ SignalGet(c) \/ SendSignal(c) \/ SignalRefused(c)
            \/ ListRecords(c) \/ Summarize(c) \/ ListAnswer(c)

TableNext == \/ \E c \in Conns : HandleConn(c) \/ Serve(c)
             \/ \E p \in Procs : \/ WaitReturns(p) \/ Reap(p)
                                 \/ \E by \in Signals \cup {"exit"} : Ends(p, by)
             \/ Stop \/ RunReturns

(* Handlers and reapers run, and the operating system kills what is sent   *)
(* SIGKILL.  Nobody promises that a process ends otherwise.                *)
TableFairness == /\ \A c \in Conns : WF_tableVars(Serve(c))
                 /\ \A p \in Procs : /\ WF_tableVars(Ends(p, "SIGKILL"))
                                     /\ WF_tableVars(WaitReturns(p)) /\ WF_tableVars(Reap(p))

-----------------------------------------------------------------------------
(* Properties.                                                             *)

(* Type invariant; a record has its end only of a process waited for.      *)
TableTypeOK ==
  /\ os \in [Procs -> {"none", "alive", "zombie", "reaped"}]
  /\ how \in [Procs -> {"none", "exit"} \cup Signals]
  /\ pending \in [Procs -> SUBSET Signals]
  /\ \A p \in Procs : /\ rec[p].state \in {"absent", "running", "exited"}
                      /\ rec[p].state = "exited" => os[p] = "reaped"
  /\ \A c \in Conns : conn[c].pc \in {"idle", "dispatch", "spawned", "waiting", "late", "signal",
                                      "list", "answered", "cut"}
  /\ adapter \in {"serving", "stopping", "gone"}

(* A wait that did not time out tells how its process really ended: no     *)
(* waiter is woken into a half-written record.                             *)
WaitTellsExit ==
  \A c \in Conns : conn[c].pc = "answered" /\ conn[c].ans.is = "wait" =>
    /\ conn[c].ans.timed_out \/ conn[c].ans.exited
    /\ conn[c].ans.exited => conn[c].ans.exit = how[conn[c].proc] /\ how[conn[c].proc] # "none"

(* A process whose spawn was answered before a request began is in the     *)
(* listing that request gets.                                              *)
SpawnedIsListed ==
  \A c \in Conns : conn[c].pc = "answered" /\ conn[c].ans.is = "list" =>
    conn[c].known \subseteq conn[c].ans.running \cup conn[c].ans.exited

(* An end that was told stands: once a wait or a listing has told one      *)
(* client that a process ended, no request that begins after it finds the  *)
(* process running or sends it a signal, while reapers, waiters and timers *)
(* interleave.  (already_exited of a signal is told from the child's own   *)
(* state, ahead of the record, and is not such an answer.)                 *)
EndIsFinal ==
  \A c \in Conns : conn[c].pc = "answered" => \A p \in conn[c].over :
    /\ conn[c].ans.is = "list" => p \notin conn[c].ans.running
    /\ conn[c].ans.is = "wait" /\ conn[c].proc = p => conn[c].ans.exited
    /\ conn[c].ans.is = "signal" /\ conn[c].proc = p => ~conn[c].ans.sent

(* Every request ends; a wait without a timeout does if its process has    *)
(* ended or was sent SIGKILL.                                              *)
Bounded(c) == \/ conn[c].op # "wait_forever"
              \/ os[conn[c].proc] \in {"zombie", "reaped"}
              \/ "SIGKILL" \in pending[conn[c].proc]

EveryProcessCallEnds ==
  \A c \in Conns : conn[c].pc \notin {"idle", "answered", "cut"} /\ Bounded(c)
                      ~> conn[c].pc \in {"answered", "cut"}
=============================================================================
