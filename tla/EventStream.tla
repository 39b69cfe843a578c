----------------------------- MODULE EventStream -----------------------------
(***************************************************************************)
(* RPC requests on the gateway or on pb-runtimed, the events they publish, *)
(* and the streams that listen.  A request publishes from its handler and, *)
(* under shell.exec, from one pump for each pipe of the command; the       *)
(* runtime runs the command on its one worker, and a handler whose client  *)
(* has gone leaves the worker to it and reports the end by itself.         *)
(* Publish is an INSERT, then a fan-out under the bus's read lock that     *)
(* never waits for a subscriber; Subscribe and cancel take the write lock. *)
(***************************************************************************)
EXTENDS Naturals, Sequences

CONSTANTS Requests, Subs,    \* requests; event streams
          Kinds,             \* what the requests may be: subset of AllKinds
          Buffer,            \* the capacity of a subscriber's channel
          Lines,             \* lines a command writes to each pipe
          MaxFaults          \* bound: INSERTs that fail on their own

(* A primitive without events of its own, shell.exec on the gateway and on *)
(* pb-runtimed's worker, a request proxied to a sandbox, one whose body is *)
(* no RPC request, a proxied stream.                                       *)
AllKinds == {"local", "shell", "job", "proxy", "probe", "relay"}
Commands == {"shell", "job"}

ASSUME StreamAssumption == /\ Kinds \subseteq AllKinds
                           /\ Buffer \in Nat \ {0} /\ Lines \in Nat /\ MaxFaults \in Nat

(* Who runs the request (under a job, the worker while the command runs),  *)
(* the pumps, and a job's handler that has left the worker.                *)
Goroutines == {"main", "stdout", "stderr", "quit"}
Pumps == {"stdout", "stderr"}

Ends == {"rpc.completed", "rpc.error"}

VARIABLES
  kind,     \* request -> its kind
  req,      \* request -> where its handler is
  pub,      \* request, goroutine -> what it publishes
  held,     \* requests whose pipes a background process keeps open
  gone,     \* requests whose client has disconnected
  left,     \* jobs whose handler has not waited for the worker
  log,      \* the events table
  subs,     \* event streams
  faults

vars == <<kind, req, pub, held, gone, left, log, subs, faults>>

(* A goroutine: the events still to publish, the one in hand, the          *)
(* subscribers still to be offered it.                                     *)
Quiet == [pc |-> "quiet", plan |-> <<>>, ev |-> <<>>, todo |-> {}]
Publishing(plan) == IF plan = <<>> THEN Quiet
                    ELSE [pc |-> "next", plan |-> plan, ev |-> <<>>, todo |-> {}]

(* The order in which a request's events belong; a trace step has none.    *)
Phase(type) == CASE type = "rpc.started" -> 1
                 [] type \in {"shell.started", "sandbox.proxy"} -> 2
                 [] type = "shell.output" -> 3
                 [] type = "shell.completed" -> 4
                 [] type \in Ends -> 5
                 [] OTHER -> 0

(* A stream: its channel, the table's length when it subscribed, whether   *)
(* it lost an event, the ids read before that, each request's latest phase.*)
Closed == [open |-> FALSE, since |-> 0, buf |-> <<>>, got |-> {}, dropped |-> FALSE,
           last |-> [r \in Requests |-> 0]]

Init == /\ kind \in [Requests -> Kinds]
        /\ req = [r \in Requests |-> "idle"]
        /\ pub = [r \in Requests |-> [g \in Goroutines |-> Quiet]]
        /\ held = {} /\ gone = {} /\ left = {}
        /\ log = <<>>
        /\ subs = [s \in Subs |-> Closed]
        /\ faults = 0

Open == {s \in Subs : subs[s].open}

(* Someone holds the bus's read lock.                                      *)
Reading == \E r \in Requests, g \in Goroutines : pub[r][g].pc = "fan"

Active(r) == req[r] \notin {"idle", "done"}

Running == {"shell", "pumping", "shelldone"}

(* The runtime's executor has one worker, and commands run on it in turn.  *)
HasWorker(r) == kind[r] = "job" =>
                  \A q \in Requests \ {r} : kind[q] = "job" => req[q] \notin Running

(* The handler has published what it had to.                               *)
Ready(r, at) == req[r] = at /\ pub[r]["main"].pc = "quiet"

Publish(r, plan) == pub' = [pub EXCEPT ![r]["main"] = Publishing(plan)]

-----------------------------------------------------------------------------
(* Requests.                                                               *)

(* The request is decoded (a body that is none is answered at once and     *)
(* publishes nothing) and announced.  A probe and a relayed stream are not.*)
Arrive(r) ==
  /\ req[r] = "idle"
  /\ req' = [req EXCEPT ![r] = "call"]
  /\ Publish(r, IF kind[r] \in {"probe", "relay"} THEN <<>> ELSE <<"rpc.started">>)
  /\ UNCHANGED <<kind, held, gone, left, log, subs, faults>>

(* The sandbox is unknown, not running or has no endpoint.                 *)
Unreachable(r) ==
  /\ req[r] = "idle" /\ kind[r] \in {"proxy", "probe", "relay"}
  /\ req' = [req EXCEPT ![r] = "done"]
  /\ UNCHANGED <<kind, pub, held, gone, left, log, subs, faults>>

(* shell.exec starts its command and the pumps.                            *)
ShellStart(r) ==
  /\ Ready(r, "call") /\ kind[r] \in Commands /\ HasWorker(r)
  /\ req' = [req EXCEPT ![r] = "shell"]
  /\ Publish(r, <<"shell.started">>)
  /\ held' \in {held, held \cup {r}}
  /\ UNCHANGED <<kind, gone, left, log, subs, faults>>

PumpsStart(r) ==
  /\ Ready(r, "shell")
  /\ req' = [req EXCEPT ![r] = "pumping"]
  /\ pub' = [pub EXCEPT ![r] = [g \in Goroutines |->
               IF g \in Pumps THEN Publishing([i \in 1..Lines |-> "shell.output"]) ELSE @[g]]]
  /\ UNCHANGED <<kind, held, gone, left, log, subs, faults>>

(* Mutant: the result is reported while the pumps still read.              *)
WaitNotPumps(r) ==
  /\ req[r] = "pumping"
  /\ req' = [req EXCEPT ![r] = "shelldone"]
  /\ Publish(r, <<"shell.completed">>)
  /\ UNCHANGED <<kind, held, gone, left, log, subs, faults>>

(* wg.Wait: both pipes at their end, which the timeout's kill brings about *)
(* unless another process holds them; then the result is reported.         *)
WaitPumps(r) ==
  /\ req[r] = "pumping" /\ r \notin held
  /\ \A g \in Pumps : pub[r][g].pc = "quiet"
  /\ req' = [req EXCEPT ![r] = "shelldone"]
  /\ Publish(r, <<"shell.completed">>)
  /\ UNCHANGED <<kind, held, gone, left, log, subs, faults>>

(* What the handler publishes after an error: the end and, if the call has *)
(* left one by then, the trace step.                                       *)
ErrorPlans == {<<"rpc.error">>, <<"rpc.error", "trace.step">>}

(* shell.exec fails: the command is refused or does not start, the client  *)
(* goes while the job waits for the worker, or a pipe cannot be read to    *)
(* its end.                                                                *)
ShellFails(r) ==
  /\ \/ Ready(r, "call") /\ kind[r] \in Commands /\ (HasWorker(r) \/ r \in gone)
     \/ req[r] = "pumping" /\ r \notin held /\ \A g \in Pumps : pub[r][g].pc = "quiet"
  /\ req' = [req EXCEPT ![r] = "closing"]
  /\ \E plan \in IF r \in left THEN {<<>>} ELSE ErrorPlans : Publish(r, plan)
  /\ UNCHANGED <<kind, held, gone, left, log, subs, faults>>

(* Do returns at the end of the client's context while the worker is at    *)
(* the command: the handler reports the end, the worker goes on.           *)
GiveUp(r) ==
  /\ kind[r] = "job" /\ req[r] \in Running
  /\ r \in gone /\ r \notin left
  /\ left' = left \cup {r}
  /\ \E plan \in IF req[r] = "shelldone" THEN ErrorPlans ELSE {<<"rpc.error">>} :
       pub' = [pub EXCEPT ![r]["quit"] = Publishing(plan)]
  /\ UNCHANGED <<kind, req, held, gone, log, subs, faults>>

(* The background process ends, or it never does.                          *)
PipesReleased(r) ==
  /\ r \in held
  /\ held' = held \ {r}
  /\ UNCHANGED <<kind, req, pub, gone, left, log, subs, faults>>

(* What the handler of a local primitive publishes after it: nothing for   *)
(* an unknown name or a panic, else the end and the trace step, if any.    *)
LocalOutcomes == {<<>>} \cup {<<e>> : e \in Ends} \cup {<<e, "trace.step">> : e \in Ends}

(* Mutant: after a response that cannot be read the handler goes on.       *)
ProxyOutcomesTwice == {<<"sandbox.proxy", "rpc.error", "rpc.completed">>}

(* After a proxied call: nothing if it cannot be sent, else a transport    *)
(* error, or the trace step of the response's header and the end it tells. *)
ProxyOutcomes == {<<>>, <<"sandbox.proxy", "rpc.error">>} \cup
                 {<<"sandbox.proxy", e>> : e \in Ends} \cup
                 {<<"sandbox.proxy", "trace.step", e>> : e \in Ends}

Outcomes(k) == CASE k = "local" -> LocalOutcomes
                 [] k \in Commands -> {<<"rpc.completed">>, <<"rpc.completed", "trace.step">>}
                 [] k = "proxy" -> ProxyOutcomes
                 [] k = "probe" -> {<<"sandbox.proxy">>}
                 [] OTHER -> {<<>>}

(* The call returns: a primitive by its own timeout, a proxied request by  *)
(* the HTTP client's.  Nobody reads the result of a job that was left.     *)
CallReturns(r) ==
  /\ Ready(r, IF kind[r] \in Commands THEN "shelldone" ELSE "call")
  /\ req' = [req EXCEPT ![r] = "closing"]
  /\ \E plan \in IF r \in left THEN {<<>>} ELSE Outcomes(kind[r]) : Publish(r, plan)
  /\ UNCHANGED <<kind, held, gone, left, log, subs, faults>>

Respond(r) ==
  /\ Ready(r, "closing")
  /\ req' = [req EXCEPT ![r] = "done"]
  /\ UNCHANGED <<kind, pub, held, gone, left, log, subs, faults>>

(* The client disconnects: the request's context is cancelled.             *)
Disconnect(r) ==
  /\ Active(r) /\ r \notin gone
  /\ gone' = gone \cup {r}
  /\ UNCHANGED <<kind, req, pub, held, left, log, subs, faults>>

-----------------------------------------------------------------------------
(* Publish.                                                                *)

Event(r, g, type, id) == [req |-> r, by |-> g, type |-> type, id |-> id]

(* store.Append gives the event its id ...                                 *)
Append1(r, g) ==
  /\ pub[r][g].pc = "next" /\ r \notin gone
  /\ LET ev == Event(r, g, Head(pub[r][g].plan), Len(log) + 1)
     IN  /\ log' = Append(log, ev)
         /\ pub' = [pub EXCEPT ![r][g].pc = "stored", ![r][g].ev = <<ev>>]
  /\ UNCHANGED <<kind, req, held, gone, left, subs, faults>>

(* ... or fails, always under a cancelled context: the event goes out all  *)
(* the same, without an id.                                                *)
AppendFails(r, g) ==
  /\ pub[r][g].pc = "next"
  /\ r \in gone \/ faults < MaxFaults
  /\ faults' = IF r \in gone THEN faults ELSE faults + 1
  /\ pub' = [pub EXCEPT ![r][g].pc = "stored",
                        ![r][g].ev = <<Event(r, g, Head(pub[r][g].plan), 0)>>]
  /\ UNCHANGED <<kind, req, held, gone, left, log, subs>>

(* Mutant: TryRLock, and no fan-out while another goroutine has one.       *)
LockTries(r, g) ==
  /\ pub[r][g].pc = "stored"
  /\ pub' = [pub EXCEPT ![r][g].pc = "fan", ![r][g].todo = IF Reading THEN {} ELSE Open]
  /\ UNCHANGED <<kind, req, held, gone, left, log, subs, faults>>

(* RLock: the subscribers of this moment are the event's audience.         *)
Lock(r, g) ==
  /\ pub[r][g].pc = "stored"
  /\ pub' = [pub EXCEPT ![r][g].pc = "fan", ![r][g].todo = Open]
  /\ UNCHANGED <<kind, req, held, gone, left, log, subs, faults>>

Full(s) == Len(subs[s].buf) >= Buffer

Take(s, ev) == subs' = [subs EXCEPT ![s].buf = Append(@, ev)]
Lose(s) == subs' = [subs EXCEPT ![s].dropped = TRUE, ![s].got = {}]

(* Mutant: a full subscriber is waited for.                                *)
OfferBlocks(r, g, s) ==
  /\ pub[r][g].pc = "fan" /\ s \in pub[r][g].todo
  /\ ~Full(s) /\ Take(s, pub[r][g].ev[1])
  /\ pub' = [pub EXCEPT ![r][g].todo = @ \ {s}]
  /\ UNCHANGED <<kind, req, held, gone, left, log, faults>>

(* One subscriber is offered the event; a full one loses it.               *)
Offer(r, g, s) ==
  /\ pub[r][g].pc = "fan" /\ s \in pub[r][g].todo
  /\ IF Full(s) THEN Lose(s)
                ELSE Take(s, pub[r][g].ev[1])
  /\ pub' = [pub EXCEPT ![r][g].todo = @ \ {s}]
  /\ UNCHANGED <<kind, req, held, gone, left, log, faults>>

(* RUnlock: Publish returns, the goroutine goes on.                        *)
Unlock(r, g) ==
  /\ pub[r][g].pc = "fan" /\ pub[r][g].todo = {}
  /\ pub' = [pub EXCEPT ![r][g] = Publishing(Tail(@.plan))]
  /\ UNCHANGED <<kind, req, held, gone, left, log, subs, faults>>

-----------------------------------------------------------------------------
(* Event streams.                                                          *)

Subscribe(s) ==
  /\ ~subs[s].open /\ ~Reading
  /\ subs' = [subs EXCEPT ![s] = [Closed EXCEPT !.open = TRUE, !.since = Len(log)]]
  /\ UNCHANGED <<kind, req, pub, held, gone, left, log, faults>>

Read(s) ==
  /\ subs[s].open /\ subs[s].buf # <<>>
  /\ LET ev == Head(subs[s].buf)
     IN  subs' = [subs EXCEPT ![s].buf = Tail(@),
                              ![s].got = IF subs[s].dropped THEN {} ELSE @ \cup {ev.id},
                              ![s].last[ev.req] = IF Phase(ev.type) > @ THEN Phase(ev.type) ELSE @]
  /\ UNCHANGED <<kind, req, pub, held, gone, left, log, faults>>

(* Mutant: the channel is closed without the lock.                         *)
CancelUnlocked(s) ==
  /\ subs[s].open
  /\ subs' = [subs EXCEPT ![s] = Closed]
  /\ UNCHANGED <<kind, req, pub, held, gone, left, log, faults>>

(* The stream's client leaves: cancel removes and closes the channel.      *)
Cancel(s) ==
  /\ subs[s].open /\ ~Reading
  /\ subs' = [subs EXCEPT ![s] = Closed]
  /\ UNCHANGED <<kind, req, pub, held, gone, left, log, faults>>

-----------------------------------------------------------------------------
HandlerStep(r) == \/ ShellStart(r) \/ PumpsStart(r) \/ WaitPumps(r) \/ ShellFails(r)
                  \/ GiveUp(r) \/ CallReturns(r) \/ Respond(r)

PublishStep(r, g) == \/ Append1(r, g) \/ AppendFails(r, g) \/ Lock(r, g)
                     \/ \E s \in Subs : Offer(r, g, s)
                     \/ Unlock(r, g)

Next == \/ \E r \in Requests : \/ Arrive(r) \/ Unreachable(r) \/ Disconnect(r)
                               \/ PipesReleased(r) \/ HandlerStep(r)
                               \/ \E g \in Goroutines : PublishStep(r, g)
        \/ \E s \in Subs : Subscribe(s) \/ Read(s) \/ Cancel(s)

Spec == Init /\ [][Next]_vars

(* Goroutines of a request run on, the store answers, calls return by their*)
(* timeouts.  Streams owe nothing: they may never read.                    *)
FairSpec == /\ Spec
            /\ \A r \in Requests :
                 /\ WF_vars(HandlerStep(r))
                 /\ \A g \in Goroutines : WF_vars(PublishStep(r, g))

-----------------------------------------------------------------------------
(* Properties.                                                             *)

(* Type invariant; no channel holds more than its capacity.                *)
TypeOK ==
  /\ kind \in [Requests -> Kinds]
  /\ req \in [Requests -> {"idle", "call", "shell", "pumping", "shelldone", "closing", "done"}]
  /\ held \subseteq Requests /\ left \subseteq gone /\ gone \subseteq Requests
  /\ \A i \in 1..Len(log) : log[i].id = i
  /\ \A s \in Subs : Len(subs[s].buf) <= Buffer
  /\ \A r \in Requests, g \in Goroutines :
       /\ pub[r][g].pc \in {"quiet", "next", "stored", "fan"}
       /\ (pub[r][g].pc = "quiet") = (pub[r][g].plan = <<>>)
       /\ pub[r][g].todo \subseteq Subs

(* Nobody is about to send on a closed channel, which would end the        *)
(* process: the audience of a fan-out under way stays subscribed.          *)
NoSendOnClosed ==
  \A r \in Requests, g \in Goroutines : pub[r][g].pc = "fan" => pub[r][g].todo \subseteq Open

(* A stream that lost nothing to its own full buffer has, or is about to   *)
(* be offered, every event stored since it subscribed: what it has, with   *)
(* the events table as of its subscription, is everything.                 *)
CatchUpComplete ==
  \A s \in Open : ~subs[s].dropped =>
    \A id \in (subs[s].since + 1)..Len(log) :
      \/ id \in subs[s].got
      \/ \E i \in 1..Len(subs[s].buf) : subs[s].buf[i] = log[id]
      \/ LET p == pub[log[id].req][log[id].by]
         IN  p.ev = <<log[id]>> /\ (p.pc = "stored" \/ (p.pc = "fan" /\ s \in p.todo))

(* In the events table and in every stream, a request's events come in     *)
(* order: a command's output lies between its start and its completion,    *)
(* and the end of the request after all of it.  Streams only may see a job *)
(* that was left end before its command does: its events are stored no     *)
(* longer.                                                                 *)
InOrder(q, r) ==
  \A i, j \in 1..Len(q) :
    i < j /\ q[i].req = r /\ q[j].req = r /\ Phase(q[j].type) # 0
      => Phase(q[i].type) <= Phase(q[j].type)

OutputBracketed ==
  \A r \in Requests :
    /\ InOrder(log, r)
    /\ r \notin left => \A s \in Subs : LET buf == subs[s].buf IN
         /\ InOrder(buf, r)
         /\ \A i \in 1..Len(buf) : buf[i].req = r /\ Phase(buf[i].type) # 0
                                    => subs[s].last[r] <= Phase(buf[i].type)

(* A request has one end: no path through the handlers reports both an     *)
(* error and a completion, or either twice, to the table or to a stream.   *)
SingleEnd(q) == \A i, j \in 1..Len(q) :
                  q[i].req = q[j].req /\ q[i].type \in Ends /\ q[j].type \in Ends => i = j

OneEnd ==
  /\ SingleEnd(log)
  /\ \A s \in Subs : LET buf == subs[s].buf IN
       /\ SingleEnd(buf)
       /\ \A i \in 1..Len(buf) : buf[i].type \in Ends => subs[s].last[buf[i].req] # 5

(* Every request is answered though no stream ever reads, unless a process *)
(* its command left behind keeps the pipes open, or another's keeps the    *)
(* worker from a job.  A job whose client has gone is answered all the     *)
(* same.                                                                   *)
Answered(r) == req[r] = "done" \/ (r \in left /\ pub[r]["quit"].pc = "quiet")

KeptBusy(r) == \/ r \in held
               \/ kind[r] = "job" /\ \E q \in held : kind[q] = "job"

EveryRequestEnds ==
  \A r \in Requests : /\ Active(r) ~> (Answered(r) \/ KeptBusy(r))
                      /\ (Active(r) /\ kind[r] = "job" /\ r \in gone) ~> Answered(r)
=============================================================================
