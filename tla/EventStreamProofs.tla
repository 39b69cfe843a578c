-------------------------- MODULE EventStreamProofs --------------------------
(***************************************************************************)
(* Proofs about EventStream, for any number of requests and streams, any   *)
(* capacity and any number of lines: no send on a closed channel, and no   *)
(* event is missing that the stream's own buffer did not lose.             *)
(***************************************************************************)
EXTENDS EventStream, SequenceTheorems, TLAPS

EventTypes == {"rpc.started", "shell.started", "sandbox.proxy", "shell.output",
               "shell.completed", "rpc.completed", "rpc.error", "trace.step"}

EventType == [req : Requests, by : Goroutines, type : EventTypes, id : Nat]

PubType == [pc : {"quiet", "next", "stored", "fan"}, plan : Seq(EventTypes),
            ev : Seq(EventType), todo : SUBSET Subs]

Phases == {0} \cup {Phase(type) : type \in EventTypes}

SubType == [open : BOOLEAN, since : Nat, buf : Seq(EventType), got : SUBSET Nat,
            dropped : BOOLEAN, last : [Requests -> Phases]]

ReqType == {"idle", "call", "shell", "pumping", "shelldone", "closing", "done"}

(* The values of the variables; the event with id i is row i of the table, *)
(* a channel holds no more than its capacity, a goroutine is quiet when it *)
(* has nothing to publish.                                                 *)
Shape ==
  /\ kind \in [Requests -> Kinds] /\ req \in [Requests -> ReqType]
  /\ held \in SUBSET Requests /\ gone \in SUBSET Requests /\ left \subseteq gone
  /\ pub \in [Requests -> [Goroutines -> PubType]]
  /\ log \in Seq(EventType)
  /\ subs \in [Subs -> SubType]

RowsNumbered == \A i \in 1..Len(log) : log[i].id = i
WithinBuffer == \A s \in Subs : Len(subs[s].buf) <= Buffer
QuietIsDone == \A r \in Requests, g \in Goroutines :
                 (pub[r][g].pc = "quiet") = (pub[r][g].plan = <<>>)

(* A goroutine that has stored an event has it in hand.                    *)
InHand == \A r \in Requests, g \in Goroutines :
            pub[r][g].pc \in {"stored", "fan"} => pub[r][g].ev # <<>>

(* Which goroutines of a request may be publishing where its handler is.   *)
PumpsInTime ==
  \A r \in Requests :
    /\ req[r] # "pumping" => \A g \in Pumps : pub[r][g].pc = "quiet"
    /\ req[r] \in {"idle", "pumping"} => pub[r]["main"].pc = "quiet"
    /\ r \notin left => pub[r]["quit"].pc = "quiet"

(* The three ways a stored event is not lost to a stream.                  *)
HasRead(s, id) == id \in subs[s].got
HasWaiting(s, id) == \E i \in 1..Len(subs[s].buf) : subs[s].buf[i] = log[id]
WillBeOffered(s, id) ==
  /\ pub[log[id].req][log[id].by].ev = <<log[id]>>
  /\ \/ pub[log[id].req][log[id].by].pc = "stored"
     \/ pub[log[id].req][log[id].by].pc = "fan" /\ s \in pub[log[id].req][log[id].by].todo

(* The inductive invariant.                                                *)
IInv == /\ Shape /\ RowsNumbered /\ WithinBuffer /\ QuietIsDone /\ InHand
        /\ PumpsInTime /\ NoSendOnClosed /\ CatchUpComplete

-----------------------------------------------------------------------------
(* A goroutine that begins to publish a list of events.                    *)
LEMMA PublishingType ==
  ASSUME NEW plan \in Seq(EventTypes)
  PROVE  /\ Publishing(plan) \in PubType
         /\ Publishing(plan).pc \in {"quiet", "next"}
         /\ (Publishing(plan).pc = "quiet") = (Publishing(plan).plan = <<>>)
<1>1. CASE plan = <<>>
  <2>1. Publishing(plan) = [pc |-> "quiet", plan |-> <<>>, ev |-> <<>>, todo |-> {}]
    BY <1>1 DEF Publishing, Quiet
  <2> QED
    BY <2>1 DEF PubType
<1>2. CASE plan # <<>>
  <2>1. Publishing(plan) = [pc |-> "next", plan |-> plan, ev |-> <<>>, todo |-> {}]
    BY <1>2 DEF Publishing
  <2> QED
    BY <1>2, <2>1 DEF PubType
<1> QED
  BY <1>1, <1>2

(* Every list of events a handler publishes is one.                        *)
LEMMA PlansAreLists ==
  ASSUME NEW r \in Requests
  PROVE  /\ \A plan \in Outcomes(kind[r]) : plan \in Seq(EventTypes)
         /\ \A plan \in ErrorPlans : plan \in Seq(EventTypes)
         /\ [i \in 1..Lines |-> "shell.output"] \in Seq(EventTypes)
<1>1. /\ <<>> \in Seq(EventTypes)
      /\ \A e \in EventTypes : <<e>> \in Seq(EventTypes)
      /\ \A e, f \in EventTypes : <<e, f>> \in Seq(EventTypes)
      /\ \A e, f, h \in EventTypes : <<e, f, h>> \in Seq(EventTypes)
  OBVIOUS
<1>2. \A plan \in LocalOutcomes : plan \in Seq(EventTypes)
  BY <1>1 DEF LocalOutcomes, Ends, EventTypes
<1>3. \A plan \in ProxyOutcomes : plan \in Seq(EventTypes)
  BY <1>1 DEF ProxyOutcomes, Ends, EventTypes
<1>4. \A plan \in Outcomes(kind[r]) : plan \in Seq(EventTypes)
  <2>1. \/ Outcomes(kind[r]) = LocalOutcomes
        \/ Outcomes(kind[r]) = ProxyOutcomes
        \/ Outcomes(kind[r]) = {<<"sandbox.proxy">>}
        \/ Outcomes(kind[r]) = {<<>>}
        \/ Outcomes(kind[r]) = {<<"rpc.completed">>, <<"rpc.completed", "trace.step">>}
    BY DEF Outcomes
  <2>2. CASE Outcomes(kind[r]) \in {LocalOutcomes, ProxyOutcomes}
    BY <1>2, <1>3, <2>2
  <2>3. /\ <<"sandbox.proxy">> \in Seq(EventTypes) /\ <<"rpc.completed">> \in Seq(EventTypes)
        /\ <<"rpc.completed", "trace.step">> \in Seq(EventTypes)
    BY <1>1 DEF EventTypes
  <2>4. CASE \/ Outcomes(kind[r]) = {<<"sandbox.proxy">>} \/ Outcomes(kind[r]) = {<<>>}
             \/ Outcomes(kind[r]) = {<<"rpc.completed">>, <<"rpc.completed", "trace.step">>}
    BY <1>1, <2>3, <2>4, Zenon
  <2> QED
    BY <2>1, <2>2, <2>3, <2>4
<1>5. [i \in 1..Lines |-> "shell.output"] \in [1..Lines -> EventTypes]
  BY DEF EventTypes
<1>6. [i \in 1..Lines |-> "shell.output"] \in Seq(EventTypes)
  BY <1>5, StreamAssumption, SeqDef
<1>7. \A plan \in ErrorPlans : plan \in Seq(EventTypes)
  BY <1>1 DEF ErrorPlans, EventTypes
<1> QED
  BY <1>4, <1>6, <1>7

(* Nothing has happened.                                                   *)
LEMMA InitIInv == Init => IInv
<1> SUFFICES ASSUME Init PROVE IInv
  OBVIOUS
<1>1. Quiet \in PubType /\ Quiet.pc = "quiet" /\ Quiet.plan = <<>>
  BY DEF Quiet, PubType
<1>2. Closed \in SubType /\ Closed.buf = <<>> /\ ~Closed.open
  BY DEF Closed, SubType, Phases
<1>3. Shape
  BY <1>1, <1>2 DEF Init, Shape, ReqType
<1>4. RowsNumbered /\ WithinBuffer /\ QuietIsDone /\ InHand /\ PumpsInTime /\ NoSendOnClosed
  BY <1>1, <1>2, StreamAssumption DEF Init, RowsNumbered, WithinBuffer, QuietIsDone, InHand, PumpsInTime, NoSendOnClosed,
       Pumps, Goroutines
<1>5. CatchUpComplete
  BY <1>2 DEF Init, CatchUpComplete, Open
<1> QED
  BY <1>3, <1>4, <1>5 DEF IInv

-----------------------------------------------------------------------------
(* Handlers.                                                               *)

(* Quiet goroutines of a request that get something to publish disturb     *)
(* neither the fan-outs under way nor what streams can still find.         *)
LEMMA NewWork ==
  ASSUME IInv, NEW r \in Requests, NEW P \in [Goroutines -> PubType],
         \A g \in Goroutines :
           \/ P[g] = pub[r][g]
           \/ /\ pub[r][g].pc = "quiet" /\ P[g].pc \in {"quiet", "next"}
              /\ (P[g].pc = "quiet") = (P[g].plan = <<>>),
         pub' = [pub EXCEPT ![r] = P], UNCHANGED <<log, subs>>
  PROVE  /\ pub' \in [Requests -> [Goroutines -> PubType]]
         /\ RowsNumbered' /\ WithinBuffer' /\ QuietIsDone' /\ InHand'
         /\ NoSendOnClosed' /\ CatchUpComplete'
<1>1. /\ pub \in [Requests -> [Goroutines -> PubType]] /\ log \in Seq(EventType)
      /\ RowsNumbered /\ WithinBuffer /\ QuietIsDone /\ InHand
      /\ NoSendOnClosed /\ CatchUpComplete
  BY DEF IInv, Shape
<1>2. pub' \in [Requests -> [Goroutines -> PubType]]
  BY <1>1
<1>3. RowsNumbered' /\ WithinBuffer'
  BY <1>1 DEF RowsNumbered, WithinBuffer
<1>4. \A q \in Requests, g \in Goroutines :
        \/ pub'[q][g] = pub[q][g]
        \/ /\ pub[q][g].pc = "quiet" /\ pub'[q][g].pc \in {"quiet", "next"}
           /\ (pub'[q][g].pc = "quiet") = (pub'[q][g].plan = <<>>)
  BY <1>1
<1>5. QuietIsDone' /\ InHand'
  BY <1>1, <1>4 DEF QuietIsDone, InHand
<1>6. NoSendOnClosed'
  BY <1>1, <1>4 DEF NoSendOnClosed, Open
<1>7. CatchUpComplete'
  <2> SUFFICES ASSUME NEW s \in Open, ~subs[s].dropped, NEW id \in (subs[s].since + 1)..Len(log)
               PROVE  (HasRead(s, id) \/ HasWaiting(s, id) \/ WillBeOffered(s, id))'
    BY DEF CatchUpComplete, Open, HasRead, HasWaiting, WillBeOffered
  <2>1. HasRead(s, id) \/ HasWaiting(s, id) \/ WillBeOffered(s, id)
    BY <1>1 DEF CatchUpComplete, HasRead, HasWaiting, WillBeOffered
  <2>2. s \in Subs /\ subs[s].since \in Nat
    BY DEF Open, IInv, Shape, SubType
  <2>3. log[id].req \in Requests /\ log[id].by \in Goroutines
    <3>1. id \in 1..Len(log)
      BY <1>1, <2>2
    <3>2. log[id] \in EventType
      BY <1>1, <3>1
    <3> QED
      BY <3>2 DEF EventType
  <2>4. HasRead(s, id) => HasRead(s, id)'
    BY DEF HasRead
  <2>5. HasWaiting(s, id) => HasWaiting(s, id)'
    BY DEF HasWaiting
  <2>6. WillBeOffered(s, id) => WillBeOffered(s, id)'
    <3> DEFINE a == log[id].req
               h == log[id].by
    <3>1. pub'[a][h] = pub[a][h] \/ pub[a][h].pc = "quiet"
      BY <1>4, <2>3
    <3> QED
      BY <3>1 DEF WillBeOffered
  <2> QED
    BY <2>1, <2>4, <2>5, <2>6
<1> QED
  BY <1>2, <1>3, <1>5, <1>6, <1>7

(* A handler's step: what the request publishes next, and where it is.     *)
LEMMA HandlerStepIInv ==
  ASSUME IInv, NEW r \in Requests, NEW at \in ReqType, NEW plan \in Seq(EventTypes),
         pub[r]["main"].pc = "quiet", Publish(r, plan),
         \A g \in Pumps : pub[r][g].pc = "quiet",
         at \notin {"idle", "pumping"}, req' = [req EXCEPT ![r] = at],
         held' \in SUBSET Requests, UNCHANGED <<kind, gone, left, log, subs>>
  PROVE  IInv'
<1>1. /\ pub \in [Requests -> [Goroutines -> PubType]] /\ req \in [Requests -> ReqType]
      /\ PumpsInTime
  BY DEF IInv, Shape
<1> DEFINE P == [pub[r] EXCEPT !["main"] = Publishing(plan)]
<1>2. P \in [Goroutines -> PubType] /\ P["main"] = Publishing(plan)
      /\ \A g \in Goroutines \ {"main"} : P[g] = pub[r][g]
  BY <1>1, PublishingType DEF Goroutines, Pumps
<1>3. \A g \in Goroutines :
        \/ P[g] = pub[r][g]
        \/ /\ pub[r][g].pc = "quiet" /\ P[g].pc \in {"quiet", "next"}
           /\ (P[g].pc = "quiet") = (P[g].plan = <<>>)
  BY <1>2, PublishingType DEF Goroutines, Pumps
<1>4. pub' = [pub EXCEPT ![r] = P]
  BY <1>1 DEF Publish
<1> HIDE DEF P
<1>8. P \in [Goroutines -> PubType] /\ UNCHANGED <<log, subs>>
  BY <1>2
<1>5. /\ pub' \in [Requests -> [Goroutines -> PubType]]
      /\ RowsNumbered' /\ WithinBuffer' /\ QuietIsDone' /\ InHand'
      /\ NoSendOnClosed' /\ CatchUpComplete'
  BY <1>3, <1>4, <1>8, NewWork
<1>6. Shape'
  BY <1>1, <1>5 DEF IInv, Shape
<1>7. PumpsInTime'
  <2> SUFFICES ASSUME NEW q \in Requests
               PROVE  /\ req'[q] # "pumping" => \A g \in Pumps : pub'[q][g].pc = "quiet"
                      /\ req'[q] \in {"idle", "pumping"} => pub'[q]["main"].pc = "quiet"
                      /\ q \notin left => pub'[q]["quit"].pc = "quiet"
    BY DEF PumpsInTime
  <2>1. CASE q = r
    BY <1>1, <1>2, <1>4, <2>1 DEF PumpsInTime, Pumps, Goroutines
  <2>2. CASE q # r
    BY <1>1, <1>4, <2>2 DEF PumpsInTime
  <2> QED
    BY <2>1, <2>2
<1> QED
  BY <1>5, <1>6, <1>7 DEF IInv

(* A request's own steps.                                                  *)
LEMMA RequestStepIInv ==
  ASSUME IInv, NEW r \in Requests,
         \/ Arrive(r) \/ ShellStart(r) \/ WaitPumps(r) \/ ShellFails(r) \/ CallReturns(r)
  PROVE  IInv'
<1>1. /\ held \in SUBSET Requests /\ req \in [Requests -> ReqType] /\ PumpsInTime
  BY DEF IInv, Shape
<1>2. /\ <<>> \in Seq(EventTypes) /\ <<"rpc.started">> \in Seq(EventTypes)
      /\ <<"shell.started">> \in Seq(EventTypes) /\ <<"shell.completed">> \in Seq(EventTypes)
      /\ <<"rpc.error">> \in Seq(EventTypes)
  BY DEF EventTypes
<1>3. \A g \in Pumps : req[r] # "pumping" => pub[r][g].pc = "quiet"
  BY <1>1 DEF PumpsInTime
<1>4. req[r] \in {"idle", "pumping"} => pub[r]["main"].pc = "quiet"
  BY <1>1 DEF PumpsInTime
<1>5. "call" \in ReqType /\ "shell" \in ReqType /\ "shelldone" \in ReqType /\ "closing" \in ReqType
  BY DEF ReqType
<1>6. CASE Arrive(r)
  <2>1. PICK plan \in Seq(EventTypes) : Publish(r, plan)
    BY <1>2, <1>6 DEF Arrive
  <2> QED
    BY <1>1, <1>3, <1>4, <1>5, <1>6, <2>1, HandlerStepIInv DEF Arrive
<1>7. CASE ShellStart(r)
  <2>1. held' \in SUBSET Requests
    BY <1>1, <1>7 DEF ShellStart
  <2> QED
    BY <1>2, <1>3, <1>5, <1>7, <2>1, HandlerStepIInv DEF ShellStart, Ready
<1>8. CASE WaitPumps(r)
  BY <1>1, <1>2, <1>4, <1>5, <1>8, HandlerStepIInv DEF WaitPumps
<1>9. CASE ShellFails(r)
  <2>1. pub[r]["main"].pc = "quiet" /\ \A g \in Pumps : pub[r][g].pc = "quiet"
    BY <1>3, <1>4, <1>9 DEF ShellFails, Ready
  <2>2. PICK plan \in IF r \in left THEN {<<>>} ELSE ErrorPlans : Publish(r, plan)
    BY <1>9 DEF ShellFails
  <2>3. plan \in Seq(EventTypes)
    BY <1>2, <2>2, PlansAreLists
  <2> QED
    BY <1>1, <1>5, <1>9, <2>1, <2>2, <2>3, HandlerStepIInv DEF ShellFails
<1>10. CASE CallReturns(r)
  <2>1. PICK plan \in IF r \in left THEN {<<>>} ELSE Outcomes(kind[r]) : Publish(r, plan)
    BY <1>10 DEF CallReturns
  <2>2. plan \in Seq(EventTypes)
    BY <1>2, PlansAreLists
  <2>3. req[r] \in {"shelldone", "call"} /\ pub[r]["main"].pc = "quiet"
    BY <1>10 DEF CallReturns, Ready
  <2> QED
    BY <1>1, <1>3, <1>5, <1>10, <2>1, <2>2, <2>3, HandlerStepIInv DEF CallReturns
<1> QED
  BY <1>6, <1>7, <1>8, <1>9, <1>10

(* A job's handler does not wait for the worker.                           *)
LEMMA GiveUpIInv ==
  ASSUME IInv, NEW r \in Requests, GiveUp(r)
  PROVE  IInv'
<1>1. /\ pub \in [Requests -> [Goroutines -> PubType]] /\ PumpsInTime
      /\ gone \in SUBSET Requests /\ left \subseteq gone
  BY DEF IInv, Shape
<1>2. /\ r \in gone /\ r \notin left /\ left' = left \cup {r}
      /\ UNCHANGED <<kind, req, held, gone, log, subs>>
  BY DEF GiveUp
<1>3. PICK plan \in ErrorPlans : pub' = [pub EXCEPT ![r]["quit"] = Publishing(plan)]
  BY DEF GiveUp, ErrorPlans
<1>4. plan \in Seq(EventTypes)
  BY PlansAreLists
<1> DEFINE P == [pub[r] EXCEPT !["quit"] = Publishing(plan)]
<1>5. /\ P \in [Goroutines -> PubType] /\ P["quit"] = Publishing(plan)
      /\ \A g \in Goroutines \ {"quit"} : P[g] = pub[r][g]
  BY <1>1, <1>4, PublishingType DEF Goroutines
<1>6. pub[r]["quit"].pc = "quiet"
  BY <1>1, <1>2 DEF PumpsInTime
<1>7. \A g \in Goroutines :
        \/ P[g] = pub[r][g]
        \/ /\ pub[r][g].pc = "quiet" /\ P[g].pc \in {"quiet", "next"}
           /\ (P[g].pc = "quiet") = (P[g].plan = <<>>)
  BY <1>4, <1>5, <1>6, PublishingType
<1>8. pub' = [pub EXCEPT ![r] = P]
  BY <1>1, <1>3
<1> HIDE DEF P
<1>12. P \in [Goroutines -> PubType] /\ UNCHANGED <<log, subs>>
  BY <1>2, <1>5
<1>9. /\ pub' \in [Requests -> [Goroutines -> PubType]]
      /\ RowsNumbered' /\ WithinBuffer' /\ QuietIsDone' /\ InHand'
      /\ NoSendOnClosed' /\ CatchUpComplete'
  BY <1>7, <1>8, <1>12, NewWork
<1>10. Shape'
  BY <1>1, <1>2, <1>9 DEF IInv, Shape
<1>11. PumpsInTime'
  BY <1>1, <1>2, <1>5, <1>8 DEF PumpsInTime, Pumps, Goroutines
<1> QED
  BY <1>9, <1>10, <1>11 DEF IInv

(* The pumps of a command begin.                                           *)
LEMMA PumpsStartIInv ==
  ASSUME IInv, NEW r \in Requests, PumpsStart(r)
  PROVE  IInv'
<1>1. /\ pub \in [Requests -> [Goroutines -> PubType]] /\ req \in [Requests -> ReqType]
      /\ PumpsInTime
  BY DEF IInv, Shape
<1> DEFINE W == Publishing([i \in 1..Lines |-> "shell.output"])
           P == [g \in Goroutines |-> IF g \in Pumps THEN W ELSE pub[r][g]]
<1>2. W \in PubType /\ W.pc \in {"quiet", "next"} /\ (W.pc = "quiet") = (W.plan = <<>>)
  BY PlansAreLists, PublishingType
<1>3. pub' = [pub EXCEPT ![r] = P]
  BY <1>1 DEF PumpsStart
<1>4. req[r] = "shell" /\ req' = [req EXCEPT ![r] = "pumping"] /\ pub[r]["main"].pc = "quiet"
      /\ UNCHANGED <<kind, held, gone, left, log, subs>>
  BY DEF PumpsStart, Ready
<1> HIDE DEF W
<1>5. \A g \in Pumps : pub[r][g].pc = "quiet"
  BY <1>1, <1>4 DEF PumpsInTime
<1>6. /\ P \in [Goroutines -> PubType] /\ P["main"] = pub[r]["main"] /\ P["quit"] = pub[r]["quit"]
      /\ \A g \in Goroutines :
           \/ P[g] = pub[r][g]
           \/ /\ pub[r][g].pc = "quiet" /\ P[g].pc \in {"quiet", "next"}
              /\ (P[g].pc = "quiet") = (P[g].plan = <<>>)
  BY <1>1, <1>2, <1>5 DEF Goroutines, Pumps
<1> HIDE DEF P
<1>7. /\ pub' \in [Requests -> [Goroutines -> PubType]]
      /\ RowsNumbered' /\ WithinBuffer' /\ QuietIsDone' /\ InHand'
      /\ NoSendOnClosed' /\ CatchUpComplete'
  BY <1>3, <1>4, <1>6, NewWork
<1>8. Shape'
  BY <1>1, <1>4, <1>7 DEF IInv, Shape, ReqType
<1>9. PumpsInTime'
  <2> SUFFICES ASSUME NEW q \in Requests
               PROVE  /\ req'[q] # "pumping" => \A g \in Pumps : pub'[q][g].pc = "quiet"
                      /\ req'[q] \in {"idle", "pumping"} => pub'[q]["main"].pc = "quiet"
                      /\ q \notin left => pub'[q]["quit"].pc = "quiet"
    BY <1>4 DEF PumpsInTime
  <2>1. CASE q = r
    BY <1>1, <1>3, <1>4, <1>6, <2>1 DEF PumpsInTime
  <2>2. CASE q # r
    BY <1>1, <1>3, <1>4, <2>2 DEF PumpsInTime
  <2> QED
    BY <2>1, <2>2
<1> QED
  BY <1>7, <1>8, <1>9 DEF IInv

(* Steps that publish nothing.                                             *)
LEMMA QuietStepIInv ==
  ASSUME IInv, NEW r \in Requests,
         Unreachable(r) \/ Respond(r) \/ Disconnect(r) \/ PipesReleased(r)
  PROVE  IInv'
<1>1. /\ UNCHANGED <<kind, pub, left, log, subs>>
      /\ held' \in SUBSET Requests /\ gone' \in SUBSET Requests /\ left \subseteq gone'
  BY DEF IInv, Shape, Unreachable, Respond, Disconnect, PipesReleased
<1>2. \/ req' = req
      \/ req' = [req EXCEPT ![r] = "done"] /\ req[r] # "pumping"
  BY DEF Unreachable, Respond, Disconnect, PipesReleased, Ready
<1>3. Shape'
  BY <1>1, <1>2 DEF IInv, Shape, ReqType
<1>4. PumpsInTime'
  BY <1>1, <1>2 DEF IInv, Shape, PumpsInTime
<1>5. RowsNumbered' /\ WithinBuffer' /\ QuietIsDone' /\ InHand'
  BY <1>1 DEF IInv, RowsNumbered, WithinBuffer, QuietIsDone, InHand
<1>6. NoSendOnClosed' /\ CatchUpComplete'
  BY <1>1 DEF IInv, NoSendOnClosed, CatchUpComplete, Open
<1> QED
  BY <1>3, <1>4, <1>5, <1>6 DEF IInv

-----------------------------------------------------------------------------
(* Publish.                                                                *)

(* A row that a stream has not seen in the table it began with.            *)
LEMMA RowFacts ==
  ASSUME IInv, NEW s \in Open, NEW id \in (subs[s].since + 1)..Len(log)
  PROVE  /\ s \in Subs /\ id \in Nat /\ id \in 1..Len(log) /\ log[id] \in EventType
         /\ log[id].req \in Requests /\ log[id].by \in Goroutines /\ log[id].id = id
<1>1. s \in Subs /\ subs[s].since \in Nat /\ Len(log) \in Nat
  BY DEF Open, IInv, Shape, SubType
<1>2. id \in 1..Len(log) /\ id \in Nat
  BY <1>1
<1>3. log[id] \in EventType
  BY <1>2 DEF IInv, Shape
<1>4. log[id].id = id
  BY <1>2 DEF IInv, RowsNumbered
<1> QED
  BY <1>1, <1>2, <1>3, <1>4 DEF EventType

(* A goroutine that is publishing goes on: what holds of all the others.   *)
LEMMA PublishStepKeeps ==
  ASSUME IInv, NEW r \in Requests, NEW g \in Goroutines, NEW Q \in PubType,
         pub[r][g].pc # "quiet", (Q.pc = "quiet") = (Q.plan = <<>>),
         Q.pc \in {"stored", "fan"} => Q.ev # <<>>,
         pub' = [pub EXCEPT ![r] = [pub[r] EXCEPT ![g] = Q]],
         UNCHANGED <<kind, req, held, gone, left>>
  PROVE  /\ pub' \in [Requests -> [Goroutines -> PubType]]
         /\ pub'[r][g] = Q
         /\ \A q \in Requests, h \in Goroutines : <<q, h>> # <<r, g>> => pub'[q][h] = pub[q][h]
         /\ QuietIsDone' /\ InHand' /\ PumpsInTime'
<1>1. pub \in [Requests -> [Goroutines -> PubType]]
  BY DEF IInv, Shape
<1>2. pub' \in [Requests -> [Goroutines -> PubType]] /\ pub'[r][g] = Q
  BY <1>1
<1>3. \A q \in Requests, h \in Goroutines : (q # r \/ h # g) => pub'[q][h] = pub[q][h]
  BY <1>1
<1>4. QuietIsDone' /\ InHand'
  BY <1>2, <1>3 DEF IInv, QuietIsDone, InHand
<1>5. PumpsInTime'
  <2>1. "main" \in Goroutines /\ "quit" \in Goroutines /\ Pumps \subseteq Goroutines
    BY DEF Pumps, Goroutines
  <2> QED
    BY <1>2, <1>3, <2>1 DEF IInv, PumpsInTime
<1> QED
  BY <1>2, <1>3, <1>4, <1>5

(* A goroutine's record with the event it has just stored.                 *)
LEMMA OneInHand ==
  ASSUME NEW p \in PubType, NEW ev \in EventType
  PROVE  LET Q == [p EXCEPT !.pc = "stored", !.ev = <<ev>>]
         IN  Q \in PubType /\ Q.pc = "stored" /\ Q.plan = p.plan /\ Q.ev = <<ev>> /\ Q.ev # <<>>
<1> DEFINE e == <<ev>>
<1>1. e \in Seq(EventType) /\ e # <<>>
  OBVIOUS
<1> HIDE DEF e
<1>2. LET Q == [p EXCEPT !.pc = "stored", !.ev = e]
      IN  Q \in PubType /\ Q.pc = "stored" /\ Q.plan = p.plan /\ Q.ev = e
  BY <1>1 DEF PubType
<1> QED
  BY <1>1, <1>2 DEF e

(* The event becomes the last row of the table.                            *)
LEMMA Append1IInv ==
  ASSUME IInv, NEW r \in Requests, NEW g \in Goroutines, Append1(r, g)
  PROVE  IInv'
<1>1. /\ pub \in [Requests -> [Goroutines -> PubType]] /\ log \in Seq(EventType)
      /\ RowsNumbered /\ QuietIsDone
  BY DEF IInv, Shape
<1> DEFINE p == pub[r][g]
           ev == Event(r, g, Head(p.plan), Len(log) + 1)
           Q == [p EXCEPT !.pc = "stored", !.ev = <<ev>>]
<1>2. p \in PubType /\ p.pc = "next"
  BY <1>1 DEF Append1
<1>3. p.plan \in Seq(EventTypes) /\ p.plan # <<>>
  BY <1>1, <1>2 DEF QuietIsDone, PubType
<1>4. Head(p.plan) \in EventTypes /\ Len(log) + 1 \in Nat
  BY <1>1, <1>3
<1>5. /\ ev \in EventType /\ ev.req = r /\ ev.by = g /\ ev.id = Len(log) + 1
  BY <1>4 DEF Event, EventType
<1>6. log' = Append(log, ev) /\ UNCHANGED <<kind, req, held, gone, left, subs>>
  BY DEF Append1
<1>7. pub' = [pub EXCEPT ![r] = [pub[r] EXCEPT ![g] = Q]]
  BY <1>1 DEF Append1
<1> HIDE DEF ev
<1>8. Q \in PubType /\ Q.pc = "stored" /\ Q.plan = p.plan /\ Q.ev = <<ev>> /\ Q.ev # <<>>
  BY <1>2, <1>5, OneInHand
<1> HIDE DEF Q
<1>9. /\ pub' \in [Requests -> [Goroutines -> PubType]]
      /\ pub'[r][g] = Q
      /\ \A q \in Requests, h \in Goroutines : <<q, h>> # <<r, g>> => pub'[q][h] = pub[q][h]
      /\ QuietIsDone' /\ InHand' /\ PumpsInTime'
  BY <1>2, <1>3, <1>6, <1>7, <1>8, PublishStepKeeps
<1>10. /\ log' \in Seq(EventType) /\ Len(log') = Len(log) + 1
       /\ log'[Len(log) + 1] = ev
       /\ \A i \in 1..Len(log) : log'[i] = log[i]
  BY <1>1, <1>5, <1>6
<1>11. Shape'
  BY <1>6, <1>9, <1>10 DEF IInv, Shape
<1>12. RowsNumbered'
  BY <1>1, <1>5, <1>10 DEF RowsNumbered
<1>13. WithinBuffer' /\ NoSendOnClosed'
  BY <1>6, <1>8, <1>9 DEF IInv, WithinBuffer, NoSendOnClosed, Open
<1>14. CatchUpComplete'
  <2> SUFFICES ASSUME NEW s \in Open, ~subs[s].dropped, NEW id \in (subs[s].since + 1)..(Len(log) + 1)
               PROVE  (HasRead(s, id) \/ HasWaiting(s, id) \/ WillBeOffered(s, id))'
    BY <1>6, <1>10 DEF CatchUpComplete, Open, HasRead, HasWaiting, WillBeOffered
  <2>1. CASE id = Len(log) + 1
    BY <1>5, <1>8, <1>9, <1>10, <2>1 DEF WillBeOffered
  <2>2. CASE id # Len(log) + 1
    <3>1. id \in (subs[s].since + 1)..Len(log)
      BY <1>1, <2>2 DEF IInv, Shape, SubType, Open
    <3>2. id \in 1..Len(log) /\ log[id].req \in Requests /\ log[id].by \in Goroutines
      BY <3>1, RowFacts
    <3>3. HasRead(s, id) \/ HasWaiting(s, id) \/ WillBeOffered(s, id)
      BY <3>1 DEF IInv, CatchUpComplete, HasRead, HasWaiting, WillBeOffered
    <3>4. HasRead(s, id) => HasRead(s, id)'
      BY <1>6 DEF HasRead
    <3>5. HasWaiting(s, id) => HasWaiting(s, id)'
      BY <1>6, <1>10, <3>2 DEF HasWaiting
    <3>6. WillBeOffered(s, id) => WillBeOffered(s, id)'
      <4> DEFINE a == log[id].req
                 h == log[id].by
      <4>1. log'[id] = log[id]
        BY <1>10, <3>2
      <4>2. CASE a = r /\ h = g
        BY <1>2, <4>2 DEF WillBeOffered
      <4>3. CASE ~(a = r /\ h = g)
        <5>1. pub'[a][h] = pub[a][h]
          BY <1>9, <3>2, <4>3
        <5> QED
          BY <4>1, <5>1 DEF WillBeOffered
      <4> QED
        BY <4>2, <4>3
    <3> QED
      BY <3>3, <3>4, <3>5, <3>6
  <2> QED
    BY <2>1, <2>2
<1> QED
  BY <1>9, <1>11, <1>12, <1>13, <1>14 DEF IInv

(* The publishing goroutine's record changes, the table and the streams do *)
(* not; an event it owes to a stream it still owes.                        *)
LEMMA PublishOnlyIInv ==
  ASSUME IInv, NEW r \in Requests, NEW g \in Goroutines, NEW Q \in PubType,
         pub[r][g].pc # "quiet", (Q.pc = "quiet") = (Q.plan = <<>>),
         Q.pc \in {"stored", "fan"} => Q.ev # <<>>,
         Q.pc = "fan" => Q.todo \subseteq Open,
         pub' = [pub EXCEPT ![r] = [pub[r] EXCEPT ![g] = Q]],
         UNCHANGED <<kind, req, held, gone, left, log, subs>>,
         \A s \in Open :
           \/ pub[r][g].pc = "stored"
           \/ pub[r][g].pc = "fan" /\ s \in pub[r][g].todo
           => Q.ev = pub[r][g].ev /\ Q.pc = "fan" /\ s \in Q.todo
  PROVE  IInv'
<1>1. /\ pub' \in [Requests -> [Goroutines -> PubType]]
      /\ pub'[r][g] = Q
      /\ \A q \in Requests, h \in Goroutines : <<q, h>> # <<r, g>> => pub'[q][h] = pub[q][h]
      /\ QuietIsDone' /\ InHand' /\ PumpsInTime'
  BY PublishStepKeeps
<1>2. Shape' /\ RowsNumbered' /\ WithinBuffer'
  BY <1>1 DEF IInv, Shape, RowsNumbered, WithinBuffer
<1>3. NoSendOnClosed'
  BY <1>1 DEF IInv, NoSendOnClosed, Open
<1>4. CatchUpComplete'
  <2> SUFFICES ASSUME NEW s \in Open, ~subs[s].dropped, NEW id \in (subs[s].since + 1)..Len(log)
               PROVE  (HasRead(s, id) \/ HasWaiting(s, id) \/ WillBeOffered(s, id))'
    BY DEF CatchUpComplete, Open, HasRead, HasWaiting, WillBeOffered
  <2>1. HasRead(s, id) \/ HasWaiting(s, id) \/ WillBeOffered(s, id)
    BY DEF IInv, CatchUpComplete, HasRead, HasWaiting, WillBeOffered
  <2>2. log[id].req \in Requests /\ log[id].by \in Goroutines
    BY RowFacts
  <2>3. (HasRead(s, id) => HasRead(s, id)') /\ (HasWaiting(s, id) => HasWaiting(s, id)')
    BY DEF HasRead, HasWaiting
  <2>4. WillBeOffered(s, id) => WillBeOffered(s, id)'
    <3>1. CASE log[id].req = r /\ log[id].by = g
      BY <1>1, <3>1 DEF WillBeOffered
    <3>2. CASE <<log[id].req, log[id].by>> # <<r, g>>
      BY <1>1, <2>2, <3>2 DEF WillBeOffered
    <3> QED
      BY <3>1, <3>2
  <2> QED
    BY <2>1, <2>3, <2>4
<1> QED
  BY <1>1, <1>2, <1>3, <1>4 DEF IInv

(* A failed INSERT, the lock, the unlock.                                  *)
LEMMA PublishIInv ==
  ASSUME IInv, NEW r \in Requests, NEW g \in Goroutines,
         AppendFails(r, g) \/ Lock(r, g) \/ Unlock(r, g)
  PROVE  IInv'
<1> DEFINE p == pub[r][g]
<1>1. /\ pub \in [Requests -> [Goroutines -> PubType]] /\ p \in PubType
      /\ QuietIsDone /\ InHand
  BY DEF IInv, Shape
<1>2. p.plan \in Seq(EventTypes) /\ (p.pc # "quiet" => p.plan # <<>>) /\ (p.pc = "quiet" => p.plan = <<>>)
  BY <1>1 DEF QuietIsDone, PubType
<1>3. CASE AppendFails(r, g)
  <2> DEFINE ev == Event(r, g, Head(p.plan), 0)
             Q == [p EXCEPT !.pc = "stored", !.ev = <<ev>>]
  <2>1. p.pc = "next" /\ UNCHANGED <<kind, req, held, gone, left, log, subs>>
    BY <1>3 DEF AppendFails
  <2>2. ev \in EventType
    BY <1>2, <2>1 DEF Event, EventType
  <2>3. pub' = [pub EXCEPT ![r] = [pub[r] EXCEPT ![g] = Q]]
    BY <1>1, <1>3 DEF AppendFails
  <2> HIDE DEF ev
  <2>4. Q \in PubType /\ Q.pc = "stored" /\ Q.plan = p.plan /\ Q.ev # <<>>
    BY <1>1, <2>2, OneInHand
  <2> HIDE DEF Q
  <2> QED
    BY <1>2, <2>1, <2>3, <2>4, PublishOnlyIInv
<1>4. CASE Lock(r, g)
  <2> DEFINE Q == [p EXCEPT !.pc = "fan", !.todo = Open]
  <2>1. p.pc = "stored" /\ UNCHANGED <<kind, req, held, gone, left, log, subs>>
    BY <1>4 DEF Lock
  <2>2. pub' = [pub EXCEPT ![r] = [pub[r] EXCEPT ![g] = Q]]
    BY <1>1, <1>4 DEF Lock
  <2>3. Open \in SUBSET Subs
    BY DEF Open
  <2>4. Q \in PubType /\ Q.pc = "fan" /\ Q.plan = p.plan /\ Q.ev = p.ev /\ Q.todo = Open
    BY <1>1, <2>3 DEF PubType
  <2>5. p.ev # <<>>
    BY <1>1, <2>1 DEF InHand
  <2> HIDE DEF Q
  <2> QED
    BY <1>2, <2>1, <2>2, <2>4, <2>5, PublishOnlyIInv
<1>5. CASE Unlock(r, g)
  <2> DEFINE Q == Publishing(Tail(p.plan))
  <2>1. p.pc = "fan" /\ p.todo = {} /\ UNCHANGED <<kind, req, held, gone, left, log, subs>>
    BY <1>5 DEF Unlock
  <2>2. pub' = [pub EXCEPT ![r] = [pub[r] EXCEPT ![g] = Q]]
    BY <1>1, <1>5 DEF Unlock
  <2>3. Q \in PubType /\ Q.pc \in {"quiet", "next"} /\ (Q.pc = "quiet") = (Q.plan = <<>>)
    <3>1. Tail(p.plan) \in Seq(EventTypes)
      BY <1>2, <2>1
    <3> QED
      BY <3>1, PublishingType
  <2> HIDE DEF Q
  <2> QED
    BY <2>1, <2>2, <2>3, PublishOnlyIInv
<1> QED
  BY <1>3, <1>4, <1>5

(* One stream takes the event or loses it: it is no longer owed the event  *)
(* because it has it, or because the loss is on record.                    *)
LEMMA OfferIInv ==
  ASSUME IInv, NEW r \in Requests, NEW g \in Goroutines, NEW s \in Subs, Offer(r, g, s)
  PROVE  IInv'
<1> DEFINE p == pub[r][g]
           Q == [p EXCEPT !.todo = @ \ {s}]
<1>1. /\ pub \in [Requests -> [Goroutines -> PubType]] /\ p \in PubType /\ p.pc = "fan"
      /\ subs \in [Subs -> SubType] /\ log \in Seq(EventType)
      /\ QuietIsDone /\ InHand /\ WithinBuffer /\ NoSendOnClosed /\ CatchUpComplete
  BY DEF IInv, Shape, Offer
<1>2. p.ev \in Seq(EventType) /\ p.ev # <<>> /\ p.plan # <<>>
  BY <1>1 DEF InHand, QuietIsDone, PubType
<1>3. p.ev[1] \in EventType
  BY <1>2
<1>4. pub' = [pub EXCEPT ![r] = [pub[r] EXCEPT ![g] = Q]] /\ UNCHANGED <<kind, req, held, gone, left, log>>
  BY <1>1 DEF Offer
<1>5. /\ Q \in PubType /\ Q.pc = "fan" /\ Q.plan = p.plan /\ Q.ev = p.ev
      /\ Q.todo = p.todo \ {s}
  BY <1>1 DEF PubType
<1> HIDE DEF Q
<1>6. /\ pub' \in [Requests -> [Goroutines -> PubType]]
      /\ pub'[r][g] = Q
      /\ \A q \in Requests, h \in Goroutines : <<q, h>> # <<r, g>> => pub'[q][h] = pub[q][h]
      /\ QuietIsDone' /\ InHand' /\ PumpsInTime'
  BY <1>1, <1>2, <1>4, <1>5, PublishStepKeeps
<1>7. /\ subs' \in [Subs -> SubType] /\ WithinBuffer'
      /\ \A t \in Subs : subs'[t].open = subs[t].open /\ subs'[t].since = subs[t].since
      /\ \A t \in Subs : t # s => subs'[t] = subs[t]
      /\ \/ subs'[s].dropped
         \/ /\ subs'[s].dropped = subs[s].dropped /\ subs'[s].got = subs[s].got
            /\ subs'[s].buf = Append(subs[s].buf, p.ev[1])
  <2>1. subs[s] \in SubType /\ subs[s].buf \in Seq(EventType)
    BY <1>1 DEF SubType
  <2>2. CASE Full(s)
    <3>1. subs' = [subs EXCEPT ![s].dropped = TRUE, ![s].got = {}]
      BY <2>2 DEF Offer, Lose
    <3> QED
      BY <1>1, <2>1, <3>1 DEF SubType, WithinBuffer
  <2>3. CASE ~Full(s)
    <3>1. subs' = [subs EXCEPT ![s].buf = Append(@, p.ev[1])]
      BY <2>3 DEF Offer, Take
    <3> DEFINE b == Append(subs[s].buf, p.ev[1])
    <3>2. b \in Seq(EventType) /\ Len(b) <= Buffer
      BY <1>3, <2>1, <2>3, StreamAssumption DEF Full
    <3>3. subs' = [subs EXCEPT ![s].buf = b]
      BY <3>1
    <3> HIDE DEF b
    <3>4. /\ subs' \in [Subs -> SubType] /\ WithinBuffer'
          /\ \A t \in Subs : subs'[t].open = subs[t].open /\ subs'[t].since = subs[t].since
          /\ \A t \in Subs : t # s => subs'[t] = subs[t]
          /\ subs'[s].dropped = subs[s].dropped /\ subs'[s].got = subs[s].got
          /\ subs'[s].buf = b
      BY <1>1, <2>1, <3>2, <3>3 DEF SubType, WithinBuffer
    <3> QED
      BY <3>4 DEF b
  <2> QED
    BY <2>2, <2>3
<1>8. Shape' /\ RowsNumbered'
  BY <1>4, <1>6, <1>7 DEF IInv, Shape, RowsNumbered
<1>9. NoSendOnClosed' /\ Open' = Open
  BY <1>1, <1>5, <1>6, <1>7 DEF NoSendOnClosed, Open
<1>10. CatchUpComplete'
  <2> SUFFICES ASSUME NEW t \in Open, ~subs'[t].dropped, NEW id \in (subs[t].since + 1)..Len(log)
               PROVE  (HasRead(t, id) \/ HasWaiting(t, id) \/ WillBeOffered(t, id))'
    BY <1>4, <1>7, <1>9 DEF CatchUpComplete, Open, HasRead, HasWaiting, WillBeOffered
  <2>1. t \in Subs /\ log[id].req \in Requests /\ log[id].by \in Goroutines
    BY RowFacts
  <2>2. ~subs[t].dropped
    BY <1>7, <2>1
  <2>3. HasRead(t, id) \/ HasWaiting(t, id) \/ WillBeOffered(t, id)
    BY <1>1, <2>2 DEF CatchUpComplete, HasRead, HasWaiting, WillBeOffered
  <2>4. CASE t # s
    <3>1. (HasRead(t, id) => HasRead(t, id)') /\ (HasWaiting(t, id) => HasWaiting(t, id)')
      BY <1>4, <1>7, <2>1, <2>4 DEF HasRead, HasWaiting
    <3>2. WillBeOffered(t, id) => WillBeOffered(t, id)'
      <4>1. CASE log[id].req = r /\ log[id].by = g
        BY <1>1, <1>4, <1>5, <1>6, <2>4, <4>1 DEF WillBeOffered
      <4>2. CASE <<log[id].req, log[id].by>> # <<r, g>>
        BY <1>4, <1>6, <2>1, <4>2 DEF WillBeOffered
      <4> QED
        BY <4>1, <4>2
    <3> QED
      BY <2>3, <3>1, <3>2
  <2>5. CASE t = s
    <3> DEFINE b == subs[s].buf
    <3>1. b \in Seq(EventType)
      BY <1>1 DEF SubType
    <3>2. subs'[s].got = subs[s].got /\ subs'[s].buf = Append(b, p.ev[1])
      BY <1>7, <2>5
    <3>3. /\ Len(Append(b, p.ev[1])) = Len(b) + 1 /\ Append(b, p.ev[1])[Len(b) + 1] = p.ev[1]
          /\ \A i \in 1..Len(b) : Append(b, p.ev[1])[i] = b[i]
          /\ Len(b) \in Nat
      BY <1>3, <3>1
    <3>4. HasRead(t, id) => HasRead(t, id)'
      BY <2>5, <3>2 DEF HasRead
    <3>5. HasWaiting(t, id) => HasWaiting(t, id)'
      BY <1>4, <2>5, <3>2, <3>3 DEF HasWaiting
    <3>6. WillBeOffered(t, id) => WillBeOffered(t, id)' \/ HasWaiting(t, id)'
      <4>1. CASE log[id].req = r /\ log[id].by = g /\ p.ev = <<log[id]>>
        <5>1. p.ev[1] = log[id]
          BY <4>1
        <5> QED
          BY SMTT(30), <1>4, <2>5, <3>2, <3>3, <5>1 DEF HasWaiting
      <4>2. CASE <<log[id].req, log[id].by>> # <<r, g>>
        BY <1>4, <1>6, <2>1, <4>2 DEF WillBeOffered
      <4> QED
        BY <4>1, <4>2 DEF WillBeOffered
    <3> QED
      BY <2>3, <3>4, <3>5, <3>6
  <2> QED
    BY <2>4, <2>5
<1> QED
  BY <1>6, <1>7, <1>8, <1>9, <1>10 DEF IInv

-----------------------------------------------------------------------------
(* Event streams.                                                          *)

(* A new stream has nothing to catch up on, a closed one nothing to miss;  *)
(* the audience of a fan-out under way stays.                              *)
LEMMA MembershipIInv ==
  ASSUME IInv, NEW s \in Subs, Subscribe(s) \/ Cancel(s)
  PROVE  IInv'
<1>1. /\ subs \in [Subs -> SubType] /\ Len(log) \in Nat /\ WithinBuffer
      /\ NoSendOnClosed /\ CatchUpComplete
  BY DEF IInv, Shape
<1>2. UNCHANGED <<kind, req, pub, held, gone, left, log>> /\ ~Reading
  BY DEF Subscribe, Cancel
<1>3. Closed \in SubType /\ Closed.buf = <<>> /\ ~Closed.open
  BY DEF Closed, SubType, Phases
<1>4. PICK C \in SubType : /\ subs' = [subs EXCEPT ![s] = C]
                           /\ C.buf = <<>> /\ (C.open => C.since = Len(log))
  <2>1. CASE Subscribe(s)
    <3> DEFINE C == [Closed EXCEPT !.open = TRUE, !.since = Len(log)]
    <3>1. subs' = [subs EXCEPT ![s] = C]
      BY <2>1 DEF Subscribe
    <3>2. C \in SubType /\ C.buf = <<>> /\ C.since = Len(log)
      BY <1>1, <1>3 DEF SubType
    <3> QED
      BY <3>1, <3>2
  <2>2. CASE Cancel(s)
    BY <1>3, <2>2 DEF Cancel
  <2> QED
    BY <2>1, <2>2
<1>5. /\ subs' \in [Subs -> SubType] /\ subs'[s] = C
      /\ \A t \in Subs : t # s => subs'[t] = subs[t]
  BY <1>1, <1>4
<1>6. Shape' /\ WithinBuffer'
  BY <1>1, <1>2, <1>4, <1>5, StreamAssumption DEF IInv, Shape, WithinBuffer
<1>7. RowsNumbered' /\ QuietIsDone' /\ InHand' /\ PumpsInTime'
  BY <1>2 DEF IInv, RowsNumbered, QuietIsDone, InHand, PumpsInTime
<1>8. NoSendOnClosed'
  BY <1>2 DEF NoSendOnClosed, Reading
<1>9. CatchUpComplete'
  <2> SUFFICES ASSUME NEW t \in Open', ~subs'[t].dropped,
                      NEW id \in (subs'[t].since + 1)..Len(log)
               PROVE  (HasRead(t, id) \/ HasWaiting(t, id) \/ WillBeOffered(t, id))'
    BY <1>2 DEF CatchUpComplete, HasRead, HasWaiting, WillBeOffered
  <2>1. t # s
    BY <1>1, <1>4, <1>5 DEF Open
  <2>2. t \in Open /\ subs'[t] = subs[t]
    BY <1>5, <2>1 DEF Open
  <2>3. HasRead(t, id) \/ HasWaiting(t, id) \/ WillBeOffered(t, id)
    BY <1>1, <2>2 DEF CatchUpComplete, HasRead, HasWaiting, WillBeOffered
  <2> QED
    BY <1>2, <2>2, <2>3 DEF HasRead, HasWaiting, WillBeOffered
<1> QED
  BY <1>6, <1>7, <1>8, <1>9 DEF IInv

(* The stream's client gets the oldest waiting event: its id is now read.  *)
LEMMA ReadIInv ==
  ASSUME IInv, NEW s \in Subs, Read(s)
  PROVE  IInv'
<1> DEFINE b == subs[s].buf
           ev == Head(b)
<1>1. /\ subs \in [Subs -> SubType] /\ subs[s] \in SubType /\ b \in Seq(EventType) /\ b # <<>>
      /\ log \in Seq(EventType) /\ WithinBuffer /\ NoSendOnClosed /\ CatchUpComplete
  BY DEF IInv, Shape, SubType, Read
<1>2. ev \in EventType /\ ev = b[1] /\ Tail(b) \in Seq(EventType) /\ Len(Tail(b)) = Len(b) - 1
      /\ \A i \in 1..(Len(b) - 1) : Tail(b)[i] = b[i + 1]
  BY <1>1
<1>3. ev.req \in Requests /\ ev.id \in Nat /\ Phase(ev.type) \in Phases
  BY <1>2 DEF EventType, Phases
<1>4. UNCHANGED <<kind, req, pub, held, gone, left, log>>
  BY DEF Read
<1> DEFINE G == IF subs[s].dropped THEN {} ELSE subs[s].got \cup {ev.id}
           L == [subs[s].last EXCEPT ![ev.req] = IF Phase(ev.type) > @ THEN Phase(ev.type) ELSE @]
           N == [subs[s] EXCEPT !.buf = Tail(b), !.got = G, !.last = L]
<1>5. subs' = [subs EXCEPT ![s] = N]
  BY <1>1 DEF Read, SubType
<1>6. G \in SUBSET Nat /\ L \in [Requests -> Phases]
  BY <1>1, <1>3 DEF SubType
<1> HIDE DEF L
<1>7. /\ N \in SubType /\ N.buf = Tail(b) /\ N.got = G /\ N.open = subs[s].open
      /\ N.since = subs[s].since /\ N.dropped = subs[s].dropped
  BY <1>1, <1>2, <1>6 DEF SubType
<1> HIDE DEF N
<1>8. /\ subs' \in [Subs -> SubType] /\ subs'[s] = N
      /\ \A t \in Subs : t # s => subs'[t] = subs[t]
  BY <1>1, <1>5, <1>7
<1>9. Shape' /\ WithinBuffer'
  <2>1. Len(Tail(b)) <= Buffer
    BY <1>1, <1>2, StreamAssumption DEF WithinBuffer
  <2>2. WithinBuffer'
    BY <1>1, <1>7, <1>8, <2>1 DEF WithinBuffer
  <2> QED
    BY <1>4, <1>8, <2>2 DEF IInv, Shape
<1>10. RowsNumbered' /\ QuietIsDone' /\ InHand' /\ PumpsInTime'
  BY <1>4 DEF IInv, RowsNumbered, QuietIsDone, InHand, PumpsInTime
<1>11. NoSendOnClosed' /\ Open' = Open
  BY <1>1, <1>4, <1>7, <1>8 DEF NoSendOnClosed, Open
<1>12. CatchUpComplete'
  <2> SUFFICES ASSUME NEW t \in Open, ~subs'[t].dropped, NEW id \in (subs'[t].since + 1)..Len(log)
               PROVE  (HasRead(t, id) \/ HasWaiting(t, id) \/ WillBeOffered(t, id))'
    BY ZenonT(60), <1>4, <1>11 DEF CatchUpComplete, HasRead, HasWaiting, WillBeOffered
  <2>1. t \in Subs /\ subs'[t].since = subs[t].since /\ ~subs[t].dropped
    BY <1>7, <1>8 DEF Open
  <2>2. id \in (subs[t].since + 1)..Len(log)
    BY <2>1
  <2>3. HasRead(t, id) \/ HasWaiting(t, id) \/ WillBeOffered(t, id)
    BY <1>1, <2>1, <2>2 DEF CatchUpComplete, HasRead, HasWaiting, WillBeOffered
  <2>4. log[id].id = id
    BY <2>2, RowFacts
  <2>5. WillBeOffered(t, id) => WillBeOffered(t, id)'
    BY <1>4 DEF WillBeOffered
  <2>6. CASE t # s
    BY <1>4, <1>8, <2>1, <2>3, <2>5, <2>6 DEF HasRead, HasWaiting
  <2>7. CASE t = s
    <3>1. subs'[t].buf = Tail(b) /\ subs'[t].got = subs[s].got \cup {ev.id}
      BY <1>7, <1>8, <2>1, <2>7
    <3>2. HasRead(t, id) => HasRead(t, id)'
      BY <2>7, <3>1 DEF HasRead
    <3>3. ASSUME HasWaiting(t, id) PROVE HasRead(t, id)' \/ HasWaiting(t, id)'
      <4>1. PICK i \in 1..Len(b) : b[i] = log[id]
        BY <2>7, <3>3 DEF HasWaiting
      <4>2. CASE i = 1
        BY <1>2, <2>4, <3>1, <4>1, <4>2 DEF HasRead
      <4>3. CASE i # 1
        <5>1. i - 1 \in 1..(Len(b) - 1) /\ Tail(b)[i - 1] = b[i]
          BY <1>1, <1>2, <4>1, <4>3
        <5> QED
          BY <1>2, <1>4, <3>1, <4>1, <5>1 DEF HasWaiting
      <4> QED
        BY <4>2, <4>3
    <3> QED
      BY <2>3, <2>5, <3>2, <3>3
  <2> QED
    BY <2>6, <2>7
<1> QED
  BY <1>9, <1>10, <1>11, <1>12 DEF IInv

-----------------------------------------------------------------------------
(* Every step of the specification preserves the invariant.                *)
LEMMA NextIInv == IInv /\ [Next]_vars => IInv'
<1> SUFFICES ASSUME IInv, [Next]_vars PROVE IInv'
  OBVIOUS
<1>1. ASSUME NEW r \in Requests,
             Arrive(r) \/ Unreachable(r) \/ Disconnect(r) \/ PipesReleased(r) \/ HandlerStep(r)
      PROVE  IInv'
  BY <1>1, RequestStepIInv, PumpsStartIInv, GiveUpIInv, QuietStepIInv DEF HandlerStep
<1>2. ASSUME NEW r \in Requests, NEW g \in Goroutines, PublishStep(r, g) PROVE IInv'
  BY <1>2, Append1IInv, PublishIInv, OfferIInv DEF PublishStep
<1>3. ASSUME NEW s \in Subs, Subscribe(s) \/ Read(s) \/ Cancel(s) PROVE IInv'
  BY <1>3, MembershipIInv, ReadIInv
<1>4. CASE UNCHANGED vars
  <2>1. Shape' /\ RowsNumbered' /\ WithinBuffer' /\ QuietIsDone' /\ InHand' /\ PumpsInTime'
    BY <1>4 DEF vars, IInv, Shape, RowsNumbered, WithinBuffer, QuietIsDone, InHand, PumpsInTime
  <2>2. NoSendOnClosed' /\ CatchUpComplete'
    BY ZenonT(60), <1>4 DEF vars, IInv, NoSendOnClosed, CatchUpComplete, Open
  <2> QED
    BY <2>1, <2>2 DEF IInv
<1> QED
  BY <1>1, <1>2, <1>3, <1>4 DEF Next

(* The inductive invariant holds in every reachable state.                 *)
LEMMA SpecIInv == Spec => []IInv
<1> QED
  BY InitIInv, NextIInv, PTL DEF Spec

(* Type correctness of requests, publishers, the events table and streams: *)
(* rows are numbered, a channel never holds more than its capacity.        *)
THEOREM TypeCorrect == Spec => []TypeOK
<1>1. IInv => TypeOK
  BY DEF IInv, Shape, ReqType, RowsNumbered, WithinBuffer, QuietIsDone, PubType, TypeOK
<1> QED
  BY <1>1, SpecIInv, PTL

(* bus.Publish never sends on a channel that cancel has closed, with any   *)
(* number of requests and streams coming and going.                        *)
THEOREM NoSendOnClosedChannel == Spec => []NoSendOnClosed
<1>1. IInv => NoSendOnClosed
  BY DEF IInv
<1> QED
  BY <1>1, SpecIInv, PTL

(* A stream that subscribes first and then reads the table misses nothing  *)
(* but what its own full channel lost.                                     *)
THEOREM StreamCatchesUp == Spec => []CatchUpComplete
<1>1. IInv => CatchUpComplete
  BY DEF IInv
<1> QED
  BY <1>1, SpecIInv, PTL
-----------------------------------------------------------------------------
(* The order of a request's events, and its one end.                       *)

(* Where a request is, its events have at most this phase, the end that    *)
(* the handler of a job reports on leaving it apart.                       *)
Stage(at) == CASE at = "idle" -> 0
               [] at = "call" -> 1
               [] at = "shell" -> 2
               [] at = "pumping" -> 3
               [] at = "shelldone" -> 4
               [] OTHER -> 5

(* The phases a plan still goes through, in order, the last of them once.  *)
Ascends(plan) ==
  \A i, j \in 1..Len(plan) : i < j =>
    /\ Phase(plan[j]) # 0 => Phase(plan[i]) <= Phase(plan[j])
    /\ ~(Phase(plan[i]) = 5 /\ Phase(plan[j]) = 5)

PlansFit ==
  \A r \in Requests, g \in Goroutines :
    /\ Ascends(pub[r][g].plan)
    /\ \A i \in 1..Len(pub[r][g].plan) :
         /\ g # "quit" => Phase(pub[r][g].plan[i]) <= Stage(req[r])
         /\ g \in Pumps => Phase(pub[r][g].plan[i]) = 3
         /\ Phase(pub[r][g].plan[i]) = 5 => (g = "quit" <=> r \in left)

(* The event in hand is the first of the plan.                             *)
HandMatches ==
  \A r \in Requests, g \in Goroutines : pub[r][g].pc \in {"stored", "fan"} =>
    pub[r][g].ev[1].req = r /\ pub[r][g].ev[1].type = pub[r][g].plan[1]

(* An event of request r with phase ph is in the table; a stream has it,   *)
(* or has read it last.                                                    *)
InTable(r, ph) == \E i \in 1..Len(log) : log[i].req = r /\ Phase(log[i].type) = ph
Shown(s, r, ph) ==
  \/ subs[s].last[r] = ph
  \/ \E i \in 1..Len(subs[s].buf) :
       subs[s].buf[i].req = r /\ Phase(subs[s].buf[i].type) = ph
Emitted(r, ph) == InTable(r, ph) \/ \E s \in Subs : Shown(s, r, ph)

(* What is out comes before what is still planned, but for a job left.     *)
EmittedFirst ==
  \A r \in Requests \ left, ph \in 0..5 : Emitted(r, ph) =>
    /\ ph <= Stage(req[r])
    /\ \A g \in Goroutines : \A i \in 1..Len(pub[r][g].plan) :
         Phase(pub[r][g].plan[i]) # 0 => ph <= Phase(pub[r][g].plan[i])

(* The planned events the table, and a stream, have still to get.          *)
Unlogged(p) == (IF p.pc = "next" THEN 1 ELSE 2)..Len(p.plan)
Unoffered(p, s) ==
  (IF p.pc \in {"next", "stored"} \/ s \in p.todo THEN 1 ELSE 2)..Len(p.plan)

(* Who has the end of a request gets no other.                             *)
EndsOnce ==
  \A r \in Requests, g \in Goroutines :
    /\ InTable(r, 5) => \A i \in Unlogged(pub[r][g]) : Phase(pub[r][g].plan[i]) # 5
    /\ \A s \in Subs : Shown(s, r, 5) =>
         \A i \in Unoffered(pub[r][g], s) : Phase(pub[r][g].plan[i]) # 5

(* The inductive invariant behind the order of events.                     *)
OrderInv == /\ PlansFit /\ HandMatches /\ EmittedFirst /\ EndsOnce
            /\ OutputBracketed /\ OneEnd

(* The phases of the events.                                               *)
LEMMA PhaseValues ==
  /\ Phase("rpc.started") = 1 /\ Phase("shell.started") = 2 /\ Phase("sandbox.proxy") = 2
  /\ Phase("shell.output") = 3 /\ Phase("shell.completed") = 4
  /\ Phase("rpc.completed") = 5 /\ Phase("rpc.error") = 5 /\ Phase("trace.step") = 0
BY DEF Phase, Ends

(* The ends of a request are the events of the last phase.                 *)
LEMMA PhaseTypes ==
  \A type \in EventTypes : Phase(type) \in 0..5 /\ (type \in Ends <=> Phase(type) = 5)
BY PhaseValues DEF EventTypes, Ends

(* The stages of a handler.                                                *)
LEMMA StageValues ==
  /\ Stage("idle") = 0 /\ Stage("call") = 1 /\ Stage("shell") = 2 /\ Stage("pumping") = 3
  /\ Stage("shelldone") = 4 /\ Stage("closing") = 5 /\ Stage("done") = 5
BY DEF Stage

(* A stage is a phase.                                                     *)
LEMMA StageTypes == \A at \in ReqType : Stage(at) \in 0..5
BY StageValues DEF ReqType

(* A goroutine's plan, with its entries' phases.                           *)
LEMMA PlanFacts ==
  ASSUME IInv, NEW r \in Requests, NEW g \in Goroutines
  PROVE  /\ pub[r][g] \in PubType /\ pub[r][g].plan \in Seq(EventTypes)
         /\ Len(pub[r][g].plan) \in Nat
         /\ \A i \in 1..Len(pub[r][g].plan) : Phase(pub[r][g].plan[i]) \in 0..5
         /\ (pub[r][g].pc = "quiet") = (pub[r][g].plan = <<>>)
         /\ req[r] \in ReqType /\ Stage(req[r]) \in 0..5
<1>1. pub[r][g] \in PubType /\ req[r] \in ReqType BY DEF IInv, Shape
<1>2. pub[r][g].plan \in Seq(EventTypes) BY <1>1 DEF PubType
<1>3. \A i \in 1..Len(pub[r][g].plan) : pub[r][g].plan[i] \in EventTypes BY <1>2
<1>4. \A i \in 1..Len(pub[r][g].plan) : Phase(pub[r][g].plan[i]) \in 0..5
  BY <1>3, PhaseTypes
<1>5. (pub[r][g].pc = "quiet") = (pub[r][g].plan = <<>>) BY DEF IInv, QuietIsDone
<1> QED BY <1>1, <1>2, <1>4, <1>5, StageTypes

(* What is out, and its order, depends on the table and the streams only.  *)
LEMMA OutFrame ==
  ASSUME OutputBracketed, OneEnd, left \subseteq left', UNCHANGED <<log, subs>>
  PROVE  /\ OutputBracketed' /\ OneEnd'
         /\ \A r \in Requests, ph \in 0..5 : Emitted(r, ph)' = Emitted(r, ph)
         /\ \A r \in Requests : InTable(r, 5)' = InTable(r, 5)
         /\ \A s \in Subs, r \in Requests : Shown(s, r, 5)' = Shown(s, r, 5)
<1>1. OutputBracketed' BY DEF OutputBracketed, InOrder
<1>2. OneEnd' BY DEF OneEnd, SingleEnd
<1> QED BY <1>1, <1>2 DEF Emitted, InTable, Shown

(* A handler that has nothing left to publish gets plans of later phases.  *)
LEMMA NewPlansOrder ==
  ASSUME IInv, OrderInv, NEW r \in Requests, NEW at \in ReqType,
         NEW P \in [Goroutines -> PubType], Stage(req[r]) <= Stage(at),
         P["quit"] = pub[r]["quit"],
         \A g \in Goroutines \ {"quit"} :
           /\ P[g].pc \in {"quiet", "next"}
           /\ Ascends(P[g].plan)
           /\ \A i \in 1..Len(P[g].plan) :
                /\ Phase(P[g].plan[i]) <= Stage(at)
                /\ Phase(P[g].plan[i]) # 0 => Stage(req[r]) < Phase(P[g].plan[i])
                /\ g \in Pumps => Phase(P[g].plan[i]) = 3
                /\ Phase(P[g].plan[i]) = 5 => r \notin left,
         pub' = [pub EXCEPT ![r] = P], req' = [req EXCEPT ![r] = at],
         UNCHANGED <<left, log, subs>>
  PROVE  OrderInv'
<1>1. pub \in [Requests -> [Goroutines -> PubType]] /\ req \in [Requests -> ReqType]
  BY DEF IInv, Shape
<1>2. /\ pub'[r] = P /\ req'[r] = at
      /\ \A q \in Requests : q # r => pub'[q] = pub[q] /\ req'[q] = req[q]
  BY <1>1
<1>3. /\ OutputBracketed' /\ OneEnd'
      /\ \A q \in Requests, ph \in 0..5 : Emitted(q, ph)' = Emitted(q, ph)
      /\ \A q \in Requests : InTable(q, 5)' = InTable(q, 5)
      /\ \A s \in Subs, q \in Requests : Shown(s, q, 5)' = Shown(s, q, 5)
  BY OutFrame DEF OrderInv
<1>4. Stage(req[r]) \in 0..5 /\ Stage(at) \in 0..5 BY <1>1, StageTypes
<1>5. \A g \in Goroutines : \A i \in 1..Len(P[g].plan) : Phase(P[g].plan[i]) \in 0..5
  <2>1. \A g \in Goroutines : P[g].plan \in Seq(EventTypes) BY DEF PubType
  <2>2. \A g \in Goroutines : \A i \in 1..Len(P[g].plan) : P[g].plan[i] \in EventTypes BY <2>1
  <2> QED BY <2>2, PhaseTypes
<1>6. PlansFit'
  <2> SUFFICES ASSUME NEW q \in Requests, NEW g \in Goroutines
      PROVE  /\ Ascends(pub'[q][g].plan)
             /\ \A i \in 1..Len(pub'[q][g].plan) :
                  /\ g # "quit" => Phase(pub'[q][g].plan[i]) <= Stage(req'[q])
                  /\ g \in Pumps => Phase(pub'[q][g].plan[i]) = 3
                  /\ Phase(pub'[q][g].plan[i]) = 5 => (g = "quit" <=> q \in left)
    BY DEF PlansFit, Ascends
  <2>1. CASE q # r BY <1>2, <2>1 DEF OrderInv, PlansFit
  <2>2. CASE q = r /\ g = "quit" BY <1>2, <2>2 DEF OrderInv, PlansFit, Pumps
  <2>3. CASE q = r /\ g # "quit" BY <1>2, <2>3
  <2> QED BY <2>1, <2>2, <2>3
<1>7. HandMatches' BY <1>2 DEF OrderInv, HandMatches
<1>8. EmittedFirst'
  <2> SUFFICES ASSUME NEW q \in Requests \ left, NEW ph \in 0..5, Emitted(q, ph)
               PROVE  /\ ph <= Stage(req'[q])
                      /\ \A g \in Goroutines : \A i \in 1..Len(pub'[q][g].plan) :
                           Phase(pub'[q][g].plan[i]) # 0 => ph <= Phase(pub'[q][g].plan[i])
    BY <1>3 DEF EmittedFirst
  <2>1. CASE q # r BY <1>2, <2>1 DEF OrderInv, EmittedFirst
  <2>2. CASE q = r
    <3>1. ph <= Stage(req[r]) BY <2>2 DEF OrderInv, EmittedFirst
    <3>2. P["quit"].plan = <<>>
      <4>1. pub[r]["quit"].pc = "quiet" BY <2>2 DEF IInv, PumpsInTime
      <4> QED BY <4>1, PlanFacts DEF Goroutines
    <3>3. 1..Len(P["quit"].plan) = {} BY <3>2
    <3>4. ASSUME NEW g \in Goroutines, NEW i \in 1..Len(P[g].plan), Phase(P[g].plan[i]) # 0
          PROVE  ph <= Phase(P[g].plan[i])
      <4>1. g # "quit" BY <3>3, <3>4
      <4>2. Stage(req[r]) < Phase(P[g].plan[i]) BY <3>4, <4>1
      <4> QED BY <1>4, <1>5, <3>1, <4>2
    <3>5. ph <= Stage(at) BY <1>4, <3>1
    <3> QED BY <1>2, <2>2, <3>4, <3>5
  <2> QED BY <2>1, <2>2
<1>9. EndsOnce'
  <2> SUFFICES ASSUME NEW q \in Requests, NEW g \in Goroutines
      PROVE  /\ InTable(q, 5) => \A i \in Unlogged(pub'[q][g]) : Phase(pub'[q][g].plan[i]) # 5
             /\ \A s \in Subs : Shown(s, q, 5) =>
                  \A i \in Unoffered(pub'[q][g], s) : Phase(pub'[q][g].plan[i]) # 5
    BY <1>3 DEF EndsOnce, Unlogged, Unoffered
  <2>1. CASE q # r BY <1>2, <2>1 DEF OrderInv, EndsOnce, Unlogged, Unoffered
  <2>2. CASE q = r /\ g = "quit" BY <1>2, <2>2 DEF OrderInv, EndsOnce, Unlogged, Unoffered
  <2>3. CASE q = r /\ g # "quit"
    <3>1. ASSUME Emitted(r, 5), NEW i \in 1..Len(P[g].plan) PROVE Phase(P[g].plan[i]) # 5
      <4>1. r \notin left => 5 <= Stage(req[r]) BY <3>1 DEF OrderInv, EmittedFirst
      <4> QED BY <1>4, <2>3, <4>1
    <3>2. \A i \in Unlogged(P[g]) : i \in 1..Len(P[g].plan) BY DEF Unlogged
    <3>3. \A s \in Subs : \A i \in Unoffered(P[g], s) : i \in 1..Len(P[g].plan)
      BY DEF Unoffered
    <3> QED BY <1>2, <2>3, <3>1, <3>2, <3>3 DEF Emitted
  <2> QED BY <2>1, <2>2, <2>3
<1> QED BY <1>3, <1>6, <1>7, <1>8, <1>9 DEF OrderInv

(* The plans of a handler ascend from stage to stage.                      *)
LEMMA ShortPlans ==
  /\ Ascends(<<>>) /\ \A e \in EventTypes : Ascends(<<e>>)
  /\ \A e, f \in EventTypes : Phase(f) = 0 \/ Phase(e) < Phase(f) => Ascends(<<e, f>>)
  /\ \A e \in Ends : Ascends(<<"sandbox.proxy", "trace.step", e>>)
<1>1. Ascends(<<>>) /\ \A e \in EventTypes : Ascends(<<e>>)
  BY DEF Ascends
<1>2. ASSUME NEW e \in EventTypes, NEW f \in EventTypes, Phase(f) = 0 \/ Phase(e) < Phase(f)
      PROVE  Ascends(<<e, f>>)
  <2>1. Phase(e) \in 0..5 /\ Phase(f) \in 0..5 BY PhaseTypes
  <2>2. \A i, j \in 1..2 : i < j => i = 1 /\ j = 2 OBVIOUS
  <2> QED BY <1>2, <2>1, <2>2 DEF Ascends
<1>3. ASSUME NEW e \in Ends PROVE Ascends(<<"sandbox.proxy", "trace.step", e>>)
  <2>1. Phase(e) = 5 BY PhaseValues DEF Ends
  <2>2. \A i, j \in 1..3 : i < j => i \in {1, 2} /\ j \in {2, 3} OBVIOUS
  <2> QED BY <2>1, <2>2, PhaseValues DEF Ascends
<1> QED BY <1>1, <1>2, <1>3

(* What a call's outcome publishes comes after the stage it returned from. *)
LEMMA OutcomesOrder ==
  ASSUME NEW k, NEW plan \in Outcomes(k)
  PROVE  /\ Ascends(plan)
         /\ \A i \in 1..Len(plan) :
              /\ Phase(plan[i]) \in 0..5
              /\ Phase(plan[i]) # 0 => (IF k \in Commands THEN 4 ELSE 1) < Phase(plan[i])
<1> DEFINE Fits(p, n) == /\ Ascends(p)
                         /\ \A i \in 1..Len(p) : /\ Phase(p[i]) \in 0..5
                                                 /\ Phase(p[i]) # 0 => n < Phase(p[i])
<1>1. \A e \in Ends : e \in EventTypes /\ Phase(e) = 5 BY PhaseValues DEF Ends, EventTypes
<1>2. "trace.step" \in EventTypes /\ "sandbox.proxy" \in EventTypes BY DEF EventTypes
<1>3. ASSUME NEW n \in {1, 4} PROVE Fits(<<>>, n) BY ShortPlans
<1>4. ASSUME NEW n \in {1, 4}, NEW e \in Ends PROVE Fits(<<e>>, n) /\ Fits(<<e, "trace.step">>, n)
  <2>1. Ascends(<<e>>) /\ Ascends(<<e, "trace.step">>) BY <1>1, <1>2, ShortPlans, PhaseValues
  <2> QED BY <1>1, <2>1, PhaseValues
<1>5. Fits(<<"sandbox.proxy">>, 1) BY <1>2, ShortPlans, PhaseValues
<1>6. ASSUME NEW e \in Ends
      PROVE  Fits(<<"sandbox.proxy", e>>, 1) /\ Fits(<<"sandbox.proxy", "trace.step", e>>, 1)
  <2>1. Ascends(<<"sandbox.proxy", e>>) BY <1>1, <1>2, ShortPlans, PhaseValues
  <2>2. Ascends(<<"sandbox.proxy", "trace.step", e>>) BY ShortPlans
  <2> QED BY <1>1, <2>1, <2>2, PhaseValues
<1> HIDE DEF Fits
<1>7. CASE k \in Commands
  <2>1. Outcomes(k) = {<<"rpc.completed">>, <<"rpc.completed", "trace.step">>}
    BY <1>7 DEF Outcomes, Commands
  <2>2. "rpc.completed" \in Ends BY DEF Ends
  <2>3. Fits(plan, 4) BY <1>4, <2>1, <2>2
  <2> QED BY <1>7, <2>3 DEF Fits
<1>8. CASE k \notin Commands
  <2>1. \/ Outcomes(k) = LocalOutcomes \/ Outcomes(k) = ProxyOutcomes
        \/ Outcomes(k) = {<<"sandbox.proxy">>} \/ Outcomes(k) = {<<>>}
    BY <1>8, Zenon DEF Outcomes
  <2>2. CASE Outcomes(k) = LocalOutcomes
    <3>1. plan = <<>> \/ \E e \in Ends : plan = <<e>> \/ plan = <<e, "trace.step">>
      BY <2>2, Zenon DEF LocalOutcomes
    <3> QED BY <1>3, <1>4, <1>8, <3>1 DEF Fits
  <2>3. CASE Outcomes(k) = ProxyOutcomes
    <3>1. \/ plan = <<>>
          \/ \E e \in Ends : \/ plan = <<"sandbox.proxy", e>>
                             \/ plan = <<"sandbox.proxy", "trace.step", e>>
      <4>1. "rpc.error" \in Ends BY DEF Ends
      <4> QED BY <2>3, <4>1, Zenon DEF ProxyOutcomes
    <3> QED BY <1>3, <1>6, <1>8, <3>1 DEF Fits
  <2>4. CASE Outcomes(k) = {<<"sandbox.proxy">>} \/ Outcomes(k) = {<<>>}
    <3>1. plan = <<"sandbox.proxy">> \/ plan = <<>> BY <2>4
    <3> QED BY <1>3, <1>5, <1>8, <3>1 DEF Fits
  <2> QED BY <2>1, <2>2, <2>3, <2>4
<1> QED BY <1>7, <1>8

(* The handler gets one plan, of phases between its old and its new stage. *)
LEMMA HandlerPlanOrder ==
  ASSUME IInv, OrderInv, NEW r \in Requests, NEW at \in ReqType, NEW plan \in Seq(EventTypes),
         \A g \in Goroutines \ {"quit"} : pub[r][g].pc = "quiet", Publish(r, plan),
         Stage(req[r]) <= Stage(at), Ascends(plan),
         \A i \in 1..Len(plan) :
           /\ Phase(plan[i]) <= Stage(at)
           /\ Phase(plan[i]) # 0 => Stage(req[r]) < Phase(plan[i])
           /\ Phase(plan[i]) = 5 => r \notin left,
         req' = [req EXCEPT ![r] = at], UNCHANGED <<left, log, subs>>
  PROVE  OrderInv'
<1>1. pub \in [Requests -> [Goroutines -> PubType]] BY DEF IInv, Shape
<1> DEFINE P == [pub[r] EXCEPT !["main"] = Publishing(plan)]
<1>2. /\ P \in [Goroutines -> PubType] /\ P["main"] = Publishing(plan)
      /\ \A g \in Goroutines \ {"main"} : P[g] = pub[r][g]
  BY <1>1, PublishingType DEF Goroutines, Pumps
<1>3. pub' = [pub EXCEPT ![r] = P] BY <1>1 DEF Publish
<1> HIDE DEF P
<1>4. P["main"].plan = plan /\ P["main"].pc \in {"quiet", "next"}
  BY <1>2, PublishingType DEF Publishing, Quiet
<1>5. \A g \in Pumps : g \in Goroutines /\ P[g].plan = <<>> /\ P[g].pc = "quiet"
  BY <1>2, PlanFacts DEF Goroutines, Pumps
<1>6. \A g \in Goroutines \ {"quit"} : g = "main" \/ g \in Pumps BY DEF Goroutines, Pumps
<1>7. "main" \notin Pumps /\ P["quit"] = pub[r]["quit"] BY <1>2 DEF Goroutines, Pumps
<1>8. ASSUME NEW g \in Goroutines \ {"quit"}
      PROVE  /\ P[g].pc \in {"quiet", "next"}
             /\ Ascends(P[g].plan)
             /\ \A i \in 1..Len(P[g].plan) :
                  /\ Phase(P[g].plan[i]) <= Stage(at)
                  /\ Phase(P[g].plan[i]) # 0 => Stage(req[r]) < Phase(P[g].plan[i])
                  /\ g \in Pumps => Phase(P[g].plan[i]) = 3
                  /\ Phase(P[g].plan[i]) = 5 => r \notin left
  <2>1. CASE g = "main" BY <1>4, <1>7, <2>1
  <2>2. CASE g \in Pumps BY <1>5, <2>2, ShortPlans
  <2> QED BY <1>6, <2>1, <2>2
<1> QED BY ZenonT(60), <1>2, <1>3, <1>7, <1>8, NewPlansOrder

(* ... or one event, or none.                                              *)
LEMMA OneEventOrder ==
  ASSUME IInv, OrderInv, NEW r \in Requests, NEW at \in ReqType,
         \A g \in Goroutines \ {"quit"} : pub[r][g].pc = "quiet",
         \/ Publish(r, <<>>) /\ Stage(req[r]) <= Stage(at)
         \/ \E e \in EventTypes : /\ Publish(r, <<e>>)
                                  /\ Stage(req[r]) < Phase(e) /\ Phase(e) <= Stage(at)
                                  /\ Phase(e) # 5,
         req' = [req EXCEPT ![r] = at], UNCHANGED <<left, log, subs>>
  PROVE  OrderInv'
<1>1. CASE Publish(r, <<>>) /\ Stage(req[r]) <= Stage(at)
  <2> DEFINE plan == <<>>
  <2>1. plan \in Seq(EventTypes) /\ Ascends(plan) /\ 1..Len(plan) = {} BY ShortPlans
  <2>2. Publish(r, plan) BY <1>1
  <2> HIDE DEF plan
  <2> QED BY <1>1, <2>1, <2>2, HandlerPlanOrder
<1>2. ASSUME NEW e \in EventTypes, Publish(r, <<e>>), Stage(req[r]) < Phase(e),
             Phase(e) <= Stage(at), Phase(e) # 5
      PROVE  OrderInv'
  <2> DEFINE plan == <<e>>
  <2>1. plan \in Seq(EventTypes) /\ Ascends(plan) /\ \A i \in 1..Len(plan) : plan[i] = e
    BY ShortPlans
  <2>2. Publish(r, plan) BY <1>2
  <2> HIDE DEF plan
  <2>3. \A i \in 1..Len(plan) : /\ Phase(plan[i]) <= Stage(at)
                                /\ Phase(plan[i]) # 0 => Stage(req[r]) < Phase(plan[i])
                                /\ Phase(plan[i]) = 5 => r \notin left
    BY <1>2, <2>1
  <2>4. Stage(req[r]) <= Stage(at)
    <3>1. Stage(req[r]) \in 0..5 /\ Stage(at) \in 0..5 /\ Phase(e) \in 0..5
      BY StageTypes, PhaseTypes DEF IInv, Shape
    <3> QED BY <1>2, <3>1
  <2> QED BY <2>1, <2>2, <2>3, <2>4, HandlerPlanOrder
<1> QED BY <1>1, <1>2

(* What an error publishes is the end and perhaps a trace step.            *)
LEMMA ErrorPlansOrder ==
  ASSUME NEW r \in Requests, NEW plan \in IF r \in left THEN {<<>>} ELSE ErrorPlans
  PROVE  /\ plan \in Seq(EventTypes) /\ Ascends(plan)
         /\ \A i \in 1..Len(plan) : Phase(plan[i]) \in {0, 5} /\ r \notin left
<1>1. CASE r \in left
  <2>1. plan = <<>> BY <1>1
  <2>2. plan \in Seq(EventTypes) /\ Ascends(plan) /\ 1..Len(plan) = {} BY <2>1, ShortPlans
  <2> QED BY <2>2
<1>2. CASE r \notin left
  <2>1. plan \in ErrorPlans /\ plan \in Seq(EventTypes) BY <1>2, PlansAreLists
  <2>2. "rpc.error" \in EventTypes /\ "trace.step" \in EventTypes BY DEF EventTypes
  <2>3. Ascends(<<"rpc.error">>) /\ Ascends(<<"rpc.error", "trace.step">>)
    BY <2>2, ShortPlans, PhaseValues
  <2>4. Ascends(plan) BY <2>1, <2>3 DEF ErrorPlans
  <2>5. \A i \in 1..Len(plan) : plan[i] \in {"rpc.error", "trace.step"} BY <2>1 DEF ErrorPlans
  <2>6. \A i \in 1..Len(plan) : Phase(plan[i]) \in {0, 5} BY <2>5, PhaseValues
  <2> QED BY <1>2, <2>1, <2>4, <2>6
<1> QED BY <1>1, <1>2

(* Where a handler moves on, it and its pumps publish nothing.             *)
LEMMA HandlerOrder ==
  ASSUME IInv, OrderInv, NEW r \in Requests,
         \/ Arrive(r) \/ ShellStart(r) \/ WaitPumps(r) \/ ShellFails(r) \/ CallReturns(r)
  PROVE  OrderInv'
<1>1. /\ req[r] # "pumping" => \A g \in Pumps : pub[r][g].pc = "quiet"
      /\ req[r] \in {"idle", "pumping"} => pub[r]["main"].pc = "quiet"
  BY DEF IInv, PumpsInTime
<1>2. \A g \in Goroutines \ {"quit"} : g = "main" \/ g \in Pumps BY DEF Goroutines, Pumps
<1>3. UNCHANGED <<left, log, subs>> BY DEF Arrive, ShellStart, WaitPumps, ShellFails, CallReturns
<1>4. {"call", "shell", "shelldone", "closing"} \subseteq ReqType BY DEF ReqType
<1>5. {"rpc.started", "shell.started", "shell.completed", "rpc.error"} \subseteq EventTypes
  BY DEF EventTypes
<1>6. CASE Arrive(r)
  <2>1. req[r] = "idle" /\ req' = [req EXCEPT ![r] = "call"] BY <1>6 DEF Arrive
  <2>2. Publish(r, <<>>) \/ Publish(r, <<"rpc.started">>) BY <1>6 DEF Arrive
  <2>3. \A g \in Goroutines \ {"quit"} : pub[r][g].pc = "quiet" BY <1>1, <1>2, <2>1
  <2>4. /\ Stage(req[r]) <= Stage("call") /\ Stage(req[r]) < Phase("rpc.started")
        /\ Phase("rpc.started") <= Stage("call") /\ Phase("rpc.started") # 5
    BY <2>1, PhaseValues, StageValues
  <2>5. \/ Publish(r, <<>>) /\ Stage(req[r]) <= Stage("call")
        \/ \E e \in EventTypes : /\ Publish(r, <<e>>)
                                 /\ Stage(req[r]) < Phase(e) /\ Phase(e) <= Stage("call") /\ Phase(e) # 5
    BY <1>5, <2>2, <2>4
  <2> QED BY <1>3, <1>4, <2>1, <2>3, <2>5, OneEventOrder
<1>7. CASE ShellStart(r)
  <2>1. /\ req[r] = "call" /\ req' = [req EXCEPT ![r] = "shell"]
        /\ pub[r]["main"].pc = "quiet" /\ Publish(r, <<"shell.started">>)
    BY <1>7 DEF ShellStart, Ready
  <2>2. \A g \in Goroutines \ {"quit"} : pub[r][g].pc = "quiet" BY <1>1, <1>2, <2>1
  <2>3. /\ Stage(req[r]) < Phase("shell.started") /\ Phase("shell.started") <= Stage("shell")
        /\ Phase("shell.started") # 5
    BY <2>1, PhaseValues, StageValues
  <2>4. \E e \in EventTypes : /\ Publish(r, <<e>>)
                              /\ Stage(req[r]) < Phase(e) /\ Phase(e) <= Stage("shell") /\ Phase(e) # 5
    BY <1>5, <2>1, <2>3
  <2> QED BY <1>3, <1>4, <2>1, <2>2, <2>4, OneEventOrder
<1>8. CASE WaitPumps(r)
  <2>1. /\ req[r] = "pumping" /\ req' = [req EXCEPT ![r] = "shelldone"]
        /\ Publish(r, <<"shell.completed">>) /\ \A g \in Pumps : pub[r][g].pc = "quiet"
    BY <1>8 DEF WaitPumps
  <2>2. \A g \in Goroutines \ {"quit"} : pub[r][g].pc = "quiet" BY <1>1, <1>2, <2>1
  <2>3. /\ Stage(req[r]) < Phase("shell.completed") /\ Phase("shell.completed") <= Stage("shelldone")
        /\ Phase("shell.completed") # 5
    BY <2>1, PhaseValues, StageValues
  <2>4. \E e \in EventTypes : /\ Publish(r, <<e>>)
                              /\ Stage(req[r]) < Phase(e) /\ Phase(e) <= Stage("shelldone") /\ Phase(e) # 5
    BY <1>5, <2>1, <2>3
  <2> QED BY <1>3, <1>4, <2>1, <2>2, <2>4, OneEventOrder
<1>9. CASE ShellFails(r)
  <2>1. req[r] \in {"call", "pumping"} /\ req' = [req EXCEPT ![r] = "closing"]
    BY <1>9 DEF ShellFails, Ready
  <2>2. \A g \in Goroutines \ {"quit"} : pub[r][g].pc = "quiet"
    BY <1>1, <1>2, <1>9 DEF ShellFails, Ready
  <2>3. PICK plan \in IF r \in left THEN {<<>>} ELSE ErrorPlans : Publish(r, plan)
    BY <1>9 DEF ShellFails
  <2>4. /\ plan \in Seq(EventTypes) /\ Ascends(plan)
        /\ \A i \in 1..Len(plan) : /\ Phase(plan[i]) \in {0, 5} /\ r \notin left
    BY <2>3, ErrorPlansOrder
  <2>5. Stage(req[r]) \in 0..4 /\ Stage("closing") = 5 BY <2>1, StageValues
  <2>6. \A i \in 1..Len(plan) : /\ Phase(plan[i]) <= Stage("closing")
                                /\ Phase(plan[i]) # 0 => Stage(req[r]) < Phase(plan[i])
                                /\ Phase(plan[i]) = 5 => r \notin left
    BY <2>4, <2>5
  <2>7. Stage(req[r]) <= Stage("closing") BY <2>5
  <2> QED BY <1>3, <1>4, <2>1, <2>2, <2>3, <2>4, <2>6, <2>7, HandlerPlanOrder
<1>10. CASE CallReturns(r)
  <2>1. PICK plan \in IF r \in left THEN {<<>>} ELSE Outcomes(kind[r]) : Publish(r, plan)
    BY <1>10 DEF CallReturns
  <2>2. plan \in Seq(EventTypes)
    <3>1. <<>> \in Seq(EventTypes) OBVIOUS
    <3> QED BY <2>1, <3>1, PlansAreLists
  <2>3. req[r] = (IF kind[r] \in Commands THEN "shelldone" ELSE "call")
    BY <1>10 DEF CallReturns, Ready
  <2>4. Stage(req[r]) = (IF kind[r] \in Commands THEN 4 ELSE 1) BY <2>3, StageValues
  <2>5. /\ Ascends(plan)
        /\ \A i \in 1..Len(plan) : /\ Phase(plan[i]) <= 5
                                   /\ Phase(plan[i]) # 0 => Stage(req[r]) < Phase(plan[i])
                                   /\ Phase(plan[i]) = 5 => r \notin left
    <3>1. CASE r \in left
      <4>1. plan = <<>> BY <2>1, <3>1
      <4>2. Ascends(plan) /\ 1..Len(plan) = {} BY <4>1, ShortPlans
      <4> QED BY <4>2
    <3>2. CASE r \notin left BY <2>1, <2>4, <3>2, OutcomesOrder
    <3> QED BY <3>1, <3>2
  <2>6. \A g \in Goroutines \ {"quit"} : pub[r][g].pc = "quiet"
    BY <1>1, <1>2, <1>10, <2>3 DEF CallReturns, Ready
  <2>7. Stage(req[r]) <= Stage("closing") /\ Stage("closing") = 5 BY <2>4, StageValues
  <2>8. req' = [req EXCEPT ![r] = "closing"] BY <1>10 DEF CallReturns
  <2> QED BY <1>3, <1>4, <2>1, <2>2, <2>5, <2>6, <2>7, <2>8, HandlerPlanOrder
<1> QED BY <1>6, <1>7, <1>8, <1>9, <1>10

(* The pumps publish output lines only.                                    *)
LEMMA PumpsStartOrder ==
  ASSUME IInv, OrderInv, NEW r \in Requests, PumpsStart(r)
  PROVE  OrderInv'
<1>1. pub \in [Requests -> [Goroutines -> PubType]] BY DEF IInv, Shape
<1> DEFINE L == [i \in 1..Lines |-> "shell.output"]
           W == Publishing(L)
           P == [g \in Goroutines |-> IF g \in Pumps THEN W ELSE pub[r][g]]
<1>2. L \in Seq(EventTypes) /\ \A i \in 1..Len(L) : Phase(L[i]) = 3
  <2>1. L \in Seq(EventTypes) BY PlansAreLists
  <2>2. Len(L) = Lines BY StreamAssumption
  <2> QED BY <2>1, <2>2, PhaseValues
<1> HIDE DEF L
<1>3. Ascends(L) BY <1>2 DEF Ascends
<1>4. W \in PubType /\ W.pc \in {"quiet", "next"} /\ W.plan = L
  BY <1>2, PublishingType DEF Publishing, Quiet
<1>5. pub' = [pub EXCEPT ![r] = P] BY <1>1 DEF PumpsStart, L
<1>6. /\ req[r] = "shell" /\ req' = [req EXCEPT ![r] = "pumping"]
      /\ pub[r]["main"].pc = "quiet" /\ UNCHANGED <<left, log, subs>>
  BY DEF PumpsStart, Ready
<1> HIDE DEF W
<1>7. P \in [Goroutines -> PubType] BY <1>1, <1>4
<1>8. ASSUME NEW g \in Goroutines \ {"quit"}
      PROVE  /\ P[g].pc \in {"quiet", "next"}
             /\ Ascends(P[g].plan)
             /\ \A i \in 1..Len(P[g].plan) :
                  /\ Phase(P[g].plan[i]) <= 3
                  /\ Phase(P[g].plan[i]) # 0 => 2 < Phase(P[g].plan[i])
                  /\ g \in Pumps => Phase(P[g].plan[i]) = 3
                  /\ Phase(P[g].plan[i]) # 5
  <2>1. CASE g \in Pumps
    <3>1. P[g] = W BY <2>1
    <3> QED BY <1>2, <1>3, <1>4, <3>1
  <2>2. CASE g \notin Pumps
    <3>1. g = "main" /\ P[g] = pub[r]["main"] BY <2>2 DEF Goroutines, Pumps
    <3>2. P[g].plan = <<>> /\ P[g].pc = "quiet"
      BY <1>6, <3>1, PlanFacts
    <3> QED BY <3>2, ShortPlans
  <2> QED BY <2>1, <2>2
<1>12. P["quit"] = pub[r]["quit"] BY DEF Goroutines, Pumps
<1> HIDE DEF P
<1>9. Stage("pumping") = 3 /\ Stage(req[r]) = 2 /\ "pumping" \in ReqType
  BY <1>6, StageValues DEF ReqType
<1>10. \A g \in Goroutines \ {"quit"} :
         /\ P[g].pc \in {"quiet", "next"}
         /\ Ascends(P[g].plan)
         /\ \A i \in 1..Len(P[g].plan) :
              /\ Phase(P[g].plan[i]) <= Stage("pumping")
              /\ Phase(P[g].plan[i]) # 0 => Stage(req[r]) < Phase(P[g].plan[i])
              /\ g \in Pumps => Phase(P[g].plan[i]) = 3
              /\ Phase(P[g].plan[i]) = 5 => r \notin left
  BY <1>8, <1>9
<1>11. Stage(req[r]) <= Stage("pumping") BY <1>9
<1> QED BY <1>5, <1>6, <1>7, <1>9, <1>10, <1>11, <1>12, NewPlansOrder

(* The handler of a job that has not ended reports the end: nobody has one *)
(* yet, and the worker will report none.                                   *)
LEMMA GiveUpOrder ==
  ASSUME IInv, OrderInv, NEW r \in Requests, GiveUp(r)
  PROVE  OrderInv'
<1>1. pub \in [Requests -> [Goroutines -> PubType]] BY DEF IInv, Shape
<1>2. /\ r \notin left /\ left' = left \cup {r} /\ req[r] \in Running
      /\ UNCHANGED <<req, log, subs>>
  BY DEF GiveUp
<1>3. PICK plan \in ErrorPlans : pub' = [pub EXCEPT ![r]["quit"] = Publishing(plan)]
  BY DEF GiveUp, ErrorPlans
<1>4. /\ plan \in Seq(EventTypes) /\ Ascends(plan)
      /\ \A i \in 1..Len(plan) : Phase(plan[i]) \in {0, 5}
  BY <1>2, ErrorPlansOrder
<1> DEFINE W == Publishing(plan)
<1>5. W.plan = plan /\ W.pc \in {"quiet", "next"}
  BY <1>4, PublishingType DEF Publishing, Quiet
<1> HIDE DEF W
<1>6. /\ pub'[r]["quit"] = W
      /\ \A q \in Requests, g \in Goroutines : q # r \/ g # "quit" => pub'[q][g] = pub[q][g]
  BY <1>1, <1>3 DEF W, Goroutines
<1>7. /\ OutputBracketed' /\ OneEnd'
      /\ \A q \in Requests, ph \in 0..5 : Emitted(q, ph)' = Emitted(q, ph)
      /\ \A q \in Requests : InTable(q, 5)' = InTable(q, 5)
      /\ \A s \in Subs, q \in Requests : Shown(s, q, 5)' = Shown(s, q, 5)
  BY <1>2, OutFrame DEF OrderInv
<1>8. Stage(req[r]) \in 0..4 BY <1>2, StageValues DEF Running
<1>9. ~Emitted(r, 5)
  <2>1. r \in Requests \ left BY <1>2
  <2>2. Emitted(r, 5) => 5 <= Stage(req[r]) BY <2>1 DEF OrderInv, EmittedFirst
  <2> QED BY <1>8, <2>2
<1>10. \A g \in Goroutines : g # "quit" =>
         \A i \in 1..Len(pub[r][g].plan) : Phase(pub[r][g].plan[i]) # 5
  BY <1>8, PlanFacts DEF OrderInv, PlansFit
<1>11. PlansFit'
  <2> SUFFICES ASSUME NEW q \in Requests, NEW g \in Goroutines
      PROVE  /\ Ascends(pub'[q][g].plan)
             /\ \A i \in 1..Len(pub'[q][g].plan) :
                  /\ g # "quit" => Phase(pub'[q][g].plan[i]) <= Stage(req[q])
                  /\ g \in Pumps => Phase(pub'[q][g].plan[i]) = 3
                  /\ Phase(pub'[q][g].plan[i]) = 5 => (g = "quit" <=> q \in left')
    BY <1>2 DEF PlansFit, Ascends
  <2>1. CASE q = r /\ g = "quit" BY <1>2, <1>4, <1>5, <1>6, <2>1 DEF Pumps
  <2>2. CASE q = r /\ g # "quit" BY <1>6, <1>10, <2>2 DEF OrderInv, PlansFit
  <2>3. CASE q # r BY <1>2, <1>6, <2>3 DEF OrderInv, PlansFit
  <2> QED BY <2>1, <2>2, <2>3
<1>12. HandMatches' BY <1>5, <1>6 DEF OrderInv, HandMatches
<1>13. EmittedFirst'
  <2> SUFFICES ASSUME NEW q \in Requests \ left, q # r, NEW ph \in 0..5, Emitted(q, ph)
               PROVE  /\ ph <= Stage(req[q])
                      /\ \A g \in Goroutines : \A i \in 1..Len(pub'[q][g].plan) :
                           Phase(pub'[q][g].plan[i]) # 0 => ph <= Phase(pub'[q][g].plan[i])
    BY <1>2, <1>7 DEF EmittedFirst
  <2> QED BY <1>6 DEF OrderInv, EmittedFirst
<1>14. EndsOnce'
  <2> SUFFICES ASSUME NEW q \in Requests, NEW g \in Goroutines
      PROVE  /\ InTable(q, 5) => \A i \in Unlogged(pub'[q][g]) : Phase(pub'[q][g].plan[i]) # 5
             /\ \A s \in Subs : Shown(s, q, 5) =>
                  \A i \in Unoffered(pub'[q][g], s) : Phase(pub'[q][g].plan[i]) # 5
    BY <1>7 DEF EndsOnce, Unlogged, Unoffered
  <2>1. CASE q # r
    <3>1. pub'[q][g] = pub[q][g] BY <1>6, <2>1
    <3> QED BY <3>1 DEF OrderInv, EndsOnce
  <2>2. CASE q = r BY <1>9, <2>2 DEF Emitted
  <2> QED BY <2>1, <2>2
<1> QED BY <1>7, <1>11, <1>12, <1>13, <1>14 DEF OrderInv

(* Steps that publish nothing.                                             *)
LEMMA QuietStepOrder ==
  ASSUME IInv, OrderInv, NEW r \in Requests,
         Unreachable(r) \/ Respond(r) \/ Disconnect(r) \/ PipesReleased(r)
  PROVE  OrderInv'
<1>1. UNCHANGED <<pub, left, log, subs>> /\ (req' = req \/ req' = [req EXCEPT ![r] = "done"])
  BY DEF Unreachable, Respond, Disconnect, PipesReleased
<1>2. req \in [Requests -> ReqType] BY DEF IInv, Shape
<1>3. \A q \in Requests : Stage(req[q]) \in 0..5 /\ Stage(req'[q]) \in {Stage(req[q]), 5}
  BY <1>1, <1>2, StageTypes, StageValues
<1>4. /\ OutputBracketed' /\ OneEnd'
      /\ \A q \in Requests, ph \in 0..5 : Emitted(q, ph)' = Emitted(q, ph)
      /\ \A q \in Requests : InTable(q, 5)' = InTable(q, 5)
      /\ \A s \in Subs, q \in Requests : Shown(s, q, 5)' = Shown(s, q, 5)
  BY <1>1, OutFrame DEF OrderInv
<1>5. PlansFit'
  <2> SUFFICES ASSUME NEW q \in Requests, NEW g \in Goroutines,
                      NEW i \in 1..Len(pub[q][g].plan)
               PROVE  g # "quit" => Phase(pub[q][g].plan[i]) <= Stage(req'[q])
    BY <1>1 DEF OrderInv, PlansFit, Ascends
  <2>1. Phase(pub[q][g].plan[i]) \in 0..5 /\ (g # "quit" => Phase(pub[q][g].plan[i]) <= Stage(req[q]))
    BY PlanFacts DEF OrderInv, PlansFit
  <2> QED BY <1>3, <2>1
<1>6. HandMatches' BY <1>1 DEF OrderInv, HandMatches
<1>7. EmittedFirst'
  <2> SUFFICES ASSUME NEW q \in Requests \ left, NEW ph \in 0..5, Emitted(q, ph)
               PROVE  /\ ph <= Stage(req'[q])
                      /\ \A g \in Goroutines : \A i \in 1..Len(pub[q][g].plan) :
                           Phase(pub[q][g].plan[i]) # 0 => ph <= Phase(pub[q][g].plan[i])
    BY <1>1, <1>4 DEF EmittedFirst
  <2> QED BY <1>3 DEF OrderInv, EmittedFirst
<1>8. EndsOnce' BY <1>1, <1>4 DEF OrderInv, EndsOnce, Unlogged, Unoffered
<1> QED BY <1>4, <1>5, <1>6, <1>7, <1>8 DEF OrderInv

-----------------------------------------------------------------------------
(* Publish: one event goes to the table, or to one stream.                 *)

(* The first of the plan precedes everything its request still plans.      *)
LEMMA FirstOfPlan ==
  ASSUME IInv, PlansFit, NEW r \in Requests, NEW g \in Goroutines, pub[r][g].pc # "quiet"
  PROVE  /\ 1 \in 1..Len(pub[r][g].plan)
         /\ Phase(pub[r][g].plan[1]) \in 0..5
         /\ r \notin left => Phase(pub[r][g].plan[1]) <= Stage(req[r])
         /\ r \notin left => \A h \in Goroutines : \A i \in 1..Len(pub[r][h].plan) :
              Phase(pub[r][h].plan[i]) # 0 =>
                Phase(pub[r][g].plan[1]) <= Phase(pub[r][h].plan[i])
         /\ Phase(pub[r][g].plan[1]) = 5 =>
              \A h \in Goroutines \ {g} : \A i \in 1..Len(pub[r][h].plan) :
                Phase(pub[r][h].plan[i]) # 5
         /\ Phase(pub[r][g].plan[1]) = 5 =>
              \A i \in 2..Len(pub[r][g].plan) : Phase(pub[r][g].plan[i]) # 5
<1>1. pub[r][g].plan \in Seq(EventTypes) /\ pub[r][g].plan # <<>> BY PlanFacts
<1>2. 1 \in 1..Len(pub[r][g].plan) BY <1>1
<1>3. /\ Phase(pub[r][g].plan[1]) \in 0..5
      /\ g # "quit" => Phase(pub[r][g].plan[1]) <= Stage(req[r])
      /\ g \in Pumps => Phase(pub[r][g].plan[1]) = 3
      /\ Phase(pub[r][g].plan[1]) = 5 => (g = "quit" <=> r \in left)
  BY <1>2, PlanFacts DEF PlansFit
<1>6. r \notin left => g # "quit" BY DEF IInv, PumpsInTime
<1>4. ASSUME NEW i \in 2..Len(pub[r][g].plan)
      PROVE  /\ Phase(pub[r][g].plan[i]) # 0 =>
                  Phase(pub[r][g].plan[1]) <= Phase(pub[r][g].plan[i])
             /\ ~(Phase(pub[r][g].plan[1]) = 5 /\ Phase(pub[r][g].plan[i]) = 5)
  <2>1. i \in 1..Len(pub[r][g].plan) /\ 1 < i BY <1>1
  <2>2. Ascends(pub[r][g].plan) BY DEF PlansFit
  <2> QED BY <1>2, <2>1, <2>2 DEF Ascends
<1>5. ASSUME r \notin left, NEW h \in Goroutines, NEW i \in 1..Len(pub[r][h].plan),
             Phase(pub[r][h].plan[i]) # 0
      PROVE  Phase(pub[r][g].plan[1]) <= Phase(pub[r][h].plan[i])
  <2>1. CASE h = g
    <3>1. i = 1 \/ i \in 2..Len(pub[r][g].plan) BY <1>1, <2>1
    <3> QED BY <1>3, <1>4, <1>5, <2>1, <3>1
  <2>2. CASE h # g
    <3>1. pub[r][h].pc # "quiet" BY <1>5, PlanFacts
    <3>2. g \in Pumps /\ h \in Pumps
      BY <1>5, <2>2, <3>1 DEF IInv, PumpsInTime, Goroutines, Pumps
    <3>3. Phase(pub[r][h].plan[i]) = 3 BY <3>2 DEF PlansFit
    <3> QED BY <1>3, <3>2, <3>3
  <2> QED BY <2>1, <2>2
<1>7. ASSUME Phase(pub[r][g].plan[1]) = 5, NEW h \in Goroutines \ {g},
             NEW i \in 1..Len(pub[r][h].plan), Phase(pub[r][h].plan[i]) = 5
      PROVE  FALSE
  <2>1. (h = "quit" <=> r \in left) /\ h \notin Pumps BY <1>7 DEF PlansFit
  <2>2. (g = "quit" <=> r \in left) /\ g \notin Pumps BY <1>3, <1>7
  <2> QED BY <2>1, <2>2 DEF Goroutines, Pumps
<1> QED BY <1>2, <1>3, <1>4, <1>5, <1>6, <1>7

(* A goroutine goes on with the event in hand: at most that event comes    *)
(* out, to the table when it is stored, to a stream when it is offered.    *)
LEMMA EmitOrder ==
  ASSUME IInv, OrderInv, NEW r \in Requests, NEW g \in Goroutines, NEW Q \in PubType,
         pub[r][g].pc # "quiet", pub' = [pub EXCEPT ![r] = [pub[r] EXCEPT ![g] = Q]],
         req' = req, left' = left, Q.plan = pub[r][g].plan, Q.pc \in {"stored", "fan"},
         pub[r][g].pc = "fan" => Q.pc = "fan" /\ Q.todo \subseteq pub[r][g].todo,
         Q.ev[1].req = r, Q.ev[1].type = pub[r][g].plan[1],
         \A q \in Requests, ph \in 0..5 : InTable(q, ph)' =>
           InTable(q, ph) \/ (q = r /\ ph = Phase(pub[r][g].plan[1])),
         \A s \in Subs, q \in Requests, ph \in 0..5 : Shown(s, q, ph)' =>
           \/ Shown(s, q, ph)
           \/ q = r /\ ph = Phase(pub[r][g].plan[1]) /\ Q.pc = "fan" /\ s \notin Q.todo
  PROVE  PlansFit' /\ HandMatches' /\ EmittedFirst' /\ EndsOnce'
<1> DEFINE p == pub[r][g]
<1>1. pub \in [Requests -> [Goroutines -> PubType]] /\ PlansFit
  BY DEF IInv, Shape, OrderInv
<1>2. /\ pub'[r][g] = Q
      /\ \A q \in Requests, h \in Goroutines : q # r \/ h # g => pub'[q][h] = pub[q][h]
  BY <1>1
<1>3. \A q \in Requests, h \in Goroutines : pub'[q][h].plan = pub[q][h].plan BY <1>2
<1>4. PlansFit' BY <1>1, <1>3 DEF PlansFit
<1>5. HandMatches' BY <1>2, <1>3 DEF OrderInv, HandMatches
<1>6. /\ Phase(p.plan[1]) \in 0..5
      /\ r \notin left => Phase(p.plan[1]) <= Stage(req[r])
      /\ r \notin left => \A h \in Goroutines : \A i \in 1..Len(pub[r][h].plan) :
           Phase(pub[r][h].plan[i]) # 0 => Phase(p.plan[1]) <= Phase(pub[r][h].plan[i])
      /\ Phase(p.plan[1]) = 5 => \A h \in Goroutines \ {g} :
           \A i \in 1..Len(pub[r][h].plan) : Phase(pub[r][h].plan[i]) # 5
      /\ Phase(p.plan[1]) = 5 => \A i \in 2..Len(p.plan) : Phase(p.plan[i]) # 5
  BY <1>1, FirstOfPlan
<1> HIDE DEF p
<1>7. EmittedFirst'
  <2> SUFFICES ASSUME NEW q \in Requests \ left, NEW ph \in 0..5, Emitted(q, ph)'
               PROVE  /\ ph <= Stage(req[q])
                      /\ \A h \in Goroutines : \A i \in 1..Len(pub[q][h].plan) :
                           Phase(pub[q][h].plan[i]) # 0 => ph <= Phase(pub[q][h].plan[i])
    BY <1>3 DEF EmittedFirst
  <2>1. Emitted(q, ph) \/ (q = r /\ ph = Phase(p.plan[1])) BY DEF Emitted, p
  <2>2. CASE Emitted(q, ph) BY <2>2 DEF OrderInv, EmittedFirst
  <2>3. CASE q = r /\ ph = Phase(p.plan[1]) BY <1>6, <2>3
  <2> QED BY <2>1, <2>2, <2>3
<1>8. EndsOnce'
  <2> SUFFICES ASSUME NEW q \in Requests, NEW h \in Goroutines
      PROVE  /\ InTable(q, 5)' => \A i \in Unlogged(pub'[q][h]) : Phase(pub'[q][h].plan[i]) # 5
             /\ \A s \in Subs : Shown(s, q, 5)' =>
                  \A i \in Unoffered(pub'[q][h], s) : Phase(pub'[q][h].plan[i]) # 5
    BY DEF EndsOnce, Unlogged, Unoffered
  <2>1. CASE q # r \/ h # g
    <3>1. pub'[q][h] = pub[q][h] BY <1>2, <2>1
    <3>2. ASSUME q = r, Phase(p.plan[1]) = 5
          PROVE  /\ \A i \in Unlogged(pub[q][h]) : Phase(pub[q][h].plan[i]) # 5
                 /\ \A s \in Subs : \A i \in Unoffered(pub[q][h], s) : Phase(pub[q][h].plan[i]) # 5
      <4>1. /\ \A i \in Unlogged(pub[q][h]) : i \in 1..Len(pub[q][h].plan)
            /\ \A s \in Subs : \A i \in Unoffered(pub[q][h], s) : i \in 1..Len(pub[q][h].plan)
        BY DEF Unlogged, Unoffered
      <4>2. \A i \in 1..Len(pub[q][h].plan) : Phase(pub[q][h].plan[i]) # 5
        BY <1>6, <2>1, <3>2
      <4> QED BY <4>1, <4>2
    <3>3. /\ InTable(q, 5)' => InTable(q, 5) \/ (q = r /\ Phase(p.plan[1]) = 5)
          /\ \A s \in Subs : Shown(s, q, 5)' => Shown(s, q, 5) \/ (q = r /\ Phase(p.plan[1]) = 5)
      BY DEF p
    <3>4. /\ InTable(q, 5) => \A i \in Unlogged(pub[q][h]) : Phase(pub[q][h].plan[i]) # 5
          /\ \A s \in Subs : Shown(s, q, 5) =>
               \A i \in Unoffered(pub[q][h], s) : Phase(pub[q][h].plan[i]) # 5
      BY DEF OrderInv, EndsOnce
    <3> QED BY <3>1, <3>2, <3>3, <3>4
  <2>2. CASE q = r /\ h = g
    <3>1. pub'[q][h] = Q BY <1>2, <2>2
    <3>2. Unlogged(Q) = 2..Len(p.plan) BY DEF Unlogged, p
    <3>3. Unlogged(Q) \subseteq Unlogged(p) BY <3>2 DEF Unlogged
    <3>4. \A s \in Subs : Unoffered(Q, s) \subseteq Unoffered(p, s)
      BY DEF Unoffered, p, PubType, IInv, Shape
    <3>5. \A s \in Subs : Q.pc = "fan" /\ s \notin Q.todo => Unoffered(Q, s) = 2..Len(p.plan)
      BY DEF Unoffered, p
    <3>6. InTable(r, 5) => \A i \in Unlogged(p) : Phase(p.plan[i]) # 5
      BY DEF OrderInv, EndsOnce, p
    <3>7. \A s \in Subs : Shown(s, r, 5) => \A i \in Unoffered(p, s) : Phase(p.plan[i]) # 5
      BY DEF OrderInv, EndsOnce, p
    <3>8. InTable(r, 5)' => InTable(r, 5) \/ 5 = Phase(p.plan[1]) BY DEF p
    <3>9. \A s \in Subs : Shown(s, r, 5)' =>
            Shown(s, r, 5) \/ (5 = Phase(p.plan[1]) /\ Q.pc = "fan" /\ s \notin Q.todo)
      BY DEF p
    <3>10. Q.plan = p.plan BY DEF p
    <3>11. InTable(r, 5)' => \A i \in Unlogged(Q) : Phase(p.plan[i]) # 5
      BY <1>6, <3>2, <3>3, <3>6, <3>8
    <3>12. ASSUME NEW s \in Subs, Shown(s, r, 5)', NEW i \in Unoffered(Q, s)
           PROVE  Phase(p.plan[i]) # 5
      <4>1. CASE Shown(s, r, 5) BY <3>4, <3>7, <3>12, <4>1
      <4>2. CASE 5 = Phase(p.plan[1]) /\ Q.pc = "fan" /\ s \notin Q.todo
        BY <1>6, <3>5, <3>12, <4>2
      <4> QED BY <3>9, <3>12, <4>1, <4>2
    <3> QED BY <2>2, <3>1, <3>10, <3>11, <3>12
  <2> QED BY <2>1, <2>2
<1> QED BY <1>4, <1>5, <1>7, <1>8

(* A sequence of events with one more at its end.                          *)
LEMMA AppendKeepsOrder ==
  ASSUME NEW q \in Seq(EventType), NEW e \in EventType,
         NEW R \in SUBSET Requests, \A r \in R : InOrder(q, r), SingleEnd(q),
         \A i \in 1..Len(q) : q[i].req = e.req =>
           /\ e.req \in R /\ Phase(e.type) # 0 => Phase(q[i].type) <= Phase(e.type)
           /\ ~(Phase(e.type) = 5 /\ Phase(q[i].type) = 5)
  PROVE  /\ \A r \in R : InOrder(Append(q, e), r)
         /\ SingleEnd(Append(q, e))
<1> DEFINE n == Append(q, e)
<1>1. /\ Len(n) = Len(q) + 1 /\ Len(q) \in Nat /\ n[Len(q) + 1] = e
      /\ \A i \in 1..Len(q) : n[i] = q[i]
  OBVIOUS
<1> HIDE DEF n
<1>2. \A i \in 1..Len(n) : i = Len(q) + 1 \/ i \in 1..Len(q) BY <1>1
<1>3. ASSUME NEW r \in R PROVE InOrder(n, r)
  <2> SUFFICES ASSUME NEW i \in 1..Len(n), NEW j \in 1..Len(n), i < j, n[i].req = r,
                      n[j].req = r, Phase(n[j].type) # 0
               PROVE  Phase(n[i].type) <= Phase(n[j].type)
    BY DEF InOrder
  <2>1. i \in 1..Len(q) BY <1>1, <1>2
  <2>2. CASE j \in 1..Len(q) BY <1>1, <2>1, <2>2 DEF InOrder
  <2>3. CASE j = Len(q) + 1 BY <1>1, <2>1, <2>3
  <2> QED BY <1>2, <2>2, <2>3
<1>4. \A i \in 1..Len(q) : q[i].type \in Ends => Phase(q[i].type) = 5
  <2>1. \A i \in 1..Len(q) : q[i] \in EventType OBVIOUS
  <2>2. \A i \in 1..Len(q) : q[i].type \in EventTypes BY <2>1 DEF EventType
  <2> QED BY <2>2, PhaseTypes
<1>5. e.type \in Ends => Phase(e.type) = 5 BY PhaseTypes DEF EventType
<1>6. SingleEnd(n)
  <2> SUFFICES ASSUME NEW i \in 1..Len(n), NEW j \in 1..Len(n), n[i].req = n[j].req,
                      n[i].type \in Ends, n[j].type \in Ends
               PROVE  i = j
    BY DEF SingleEnd
  <2>1. CASE i \in 1..Len(q) /\ j \in 1..Len(q) BY <1>1, <2>1 DEF SingleEnd
  <2>2. CASE i \in 1..Len(q) /\ j = Len(q) + 1 BY <1>1, <1>4, <1>5, <2>2
  <2>3. CASE i = Len(q) + 1 /\ j \in 1..Len(q) BY <1>1, <1>4, <1>5, <2>3
  <2> QED BY <1>2, <2>1, <2>2, <2>3
<1> QED BY <1>3, <1>6 DEF n

(* The events a stream, or the table, has: the sequence's own facts.       *)
LEMMA EventFacts ==
  ASSUME NEW q \in Seq(EventType)
  PROVE  \A i \in 1..Len(q) : /\ q[i] \in EventType /\ q[i].req \in Requests
                              /\ Phase(q[i].type) \in 0..5
<1>1. \A i \in 1..Len(q) : q[i] \in EventType OBVIOUS
<1>2. \A i \in 1..Len(q) : q[i].req \in Requests /\ q[i].type \in EventTypes
  BY <1>1 DEF EventType
<1> QED BY <1>1, <1>2, PhaseTypes

(* The INSERT: the event is the last row, after all its request had.       *)
LEMMA Append1Order ==
  ASSUME IInv, OrderInv, NEW r \in Requests, NEW g \in Goroutines, Append1(r, g)
  PROVE  OrderInv'
<1> DEFINE p == pub[r][g]
           ev == Event(r, g, Head(p.plan), Len(log) + 1)
           Q == [p EXCEPT !.pc = "stored", !.ev = <<ev>>]
<1>1. /\ pub \in [Requests -> [Goroutines -> PubType]] /\ log \in Seq(EventType)
      /\ p \in PubType /\ p.pc = "next"
  BY DEF IInv, Shape, Append1
<1>2. p.plan \in Seq(EventTypes) /\ p.plan # <<>> BY <1>1, PlanFacts
<1>3. Head(p.plan) = p.plan[1] /\ p.plan[1] \in EventTypes BY <1>2
<1>4. ev \in EventType /\ ev.req = r /\ ev.type = p.plan[1]
  BY <1>1, <1>3 DEF Event, EventType
<1>5. log' = Append(log, ev) /\ UNCHANGED <<req, left, subs>> /\ r \notin left
  BY DEF Append1, IInv, Shape
<1>6. pub' = [pub EXCEPT ![r] = [pub[r] EXCEPT ![g] = Q]] BY <1>1 DEF Append1
<1> HIDE DEF ev
<1>7. Q \in PubType /\ Q.pc = "stored" /\ Q.plan = p.plan /\ Q.ev = <<ev>>
  BY <1>1, <1>4, OneInHand
<1> HIDE DEF Q
<1>8. /\ Len(log') = Len(log) + 1 /\ Len(log) \in Nat /\ log'[Len(log) + 1] = ev
      /\ \A i \in 1..Len(log) : log'[i] = log[i]
  BY <1>1, <1>4, <1>5
<1>9. ASSUME NEW q \in Requests, NEW ph \in 0..5, InTable(q, ph)'
      PROVE  InTable(q, ph) \/ (q = r /\ ph = Phase(p.plan[1]))
  <2>1. PICK i \in 1..Len(log') : log'[i].req = q /\ Phase(log'[i].type) = ph
    BY <1>9 DEF InTable
  <2>2. CASE i \in 1..Len(log) BY <1>8, <2>1, <2>2 DEF InTable
  <2>3. CASE i = Len(log) + 1 BY <1>4, <1>8, <2>1, <2>3
  <2> QED BY <1>8, <2>2, <2>3
<1>10. \A s \in Subs, q \in Requests, ph \in 0..5 : Shown(s, q, ph)' = Shown(s, q, ph)
  BY <1>5 DEF Shown
<1>11. Q.ev[1].req = r /\ Q.ev[1].type = p.plan[1]
  <2>1. Q.ev[1] = ev BY <1>7
  <2> QED BY <1>4, <2>1
<1>12. PlansFit' /\ HandMatches' /\ EmittedFirst' /\ EndsOnce'
  <2>1. \A q \in Requests, ph \in 0..5 : InTable(q, ph)' =>
          InTable(q, ph) \/ (q = r /\ ph = Phase(pub[r][g].plan[1]))
    BY <1>9
  <2>2. \A s \in Subs, q \in Requests, ph \in 0..5 : Shown(s, q, ph)' =>
          \/ Shown(s, q, ph)
          \/ q = r /\ ph = Phase(pub[r][g].plan[1]) /\ Q.pc = "fan" /\ s \notin Q.todo
    BY <1>10
  <2>3. /\ pub[r][g].pc # "quiet" /\ pub[r][g].pc # "fan" /\ req' = req /\ left' = left
        /\ Q \in PubType /\ Q.plan = pub[r][g].plan /\ Q.pc \in {"stored", "fan"}
    BY <1>1, <1>5, <1>7
  <2> QED BY <1>6, <1>11, <2>1, <2>2, <2>3, EmitOrder
<1>13. ASSUME NEW i \in 1..Len(log), log[i].req = r
       PROVE  /\ Phase(p.plan[1]) # 0 => Phase(log[i].type) <= Phase(p.plan[1])
              /\ ~(Phase(p.plan[1]) = 5 /\ Phase(log[i].type) = 5)
  <2>1. Phase(log[i].type) \in 0..5 BY <1>1, EventFacts
  <2>2. InTable(r, Phase(log[i].type)) BY <1>13 DEF InTable
  <2>3. 1 \in 1..Len(p.plan) /\ 1 \in Unlogged(p) BY <1>1, <1>2 DEF Unlogged
  <2>4. Phase(p.plan[1]) # 0 => Phase(log[i].type) <= Phase(p.plan[1])
    BY <1>5, <2>1, <2>2, <2>3 DEF OrderInv, EmittedFirst, Emitted
  <2>5. InTable(r, 5) => Phase(p.plan[1]) # 5 BY <2>3 DEF OrderInv, EndsOnce
  <2> QED BY <2>2, <2>4, <2>5
<1>14. (\A q \in Requests : InOrder(log, q)) /\ SingleEnd(log)
  BY DEF OrderInv, OutputBracketed, OneEnd
<1>15. (\A q \in Requests : InOrder(Append(log, ev), q)) /\ SingleEnd(Append(log, ev))
  BY <1>1, <1>4, <1>13, <1>14, AppendKeepsOrder
<1>16. (\A q \in Requests : InOrder(log, q)') /\ SingleEnd(log)'
  BY <1>5, <1>15 DEF InOrder, SingleEnd
<1>17. OutputBracketed'
  BY <1>5, <1>16 DEF OrderInv, OutputBracketed, InOrder
<1>18. OneEnd' BY <1>5, <1>16 DEF OrderInv, OneEnd, SingleEnd
<1> QED BY <1>12, <1>17, <1>18 DEF OrderInv

(* A failed INSERT and the lock bring nothing out.                         *)
LEMMA StoredOrder ==
  ASSUME IInv, OrderInv, NEW r \in Requests, NEW g \in Goroutines,
         AppendFails(r, g) \/ Lock(r, g)
  PROVE  OrderInv'
<1> DEFINE p == pub[r][g]
<1>1. pub \in [Requests -> [Goroutines -> PubType]] /\ p \in PubType BY DEF IInv, Shape
<1>2. UNCHANGED <<req, left, log, subs>> BY DEF AppendFails, Lock
<1>3. /\ OutputBracketed' /\ OneEnd'
  BY <1>2, OutFrame DEF OrderInv
<1>4. /\ \A q \in Requests, ph \in 0..5 : InTable(q, ph)' = InTable(q, ph)
      /\ \A s \in Subs, q \in Requests, ph \in 0..5 : Shown(s, q, ph)' = Shown(s, q, ph)
  BY <1>2 DEF InTable, Shown
<1>5. PICK Q \in PubType :
        /\ pub' = [pub EXCEPT ![r] = [pub[r] EXCEPT ![g] = Q]]
        /\ p.pc \in {"next", "stored"} /\ Q.plan = p.plan /\ Q.pc \in {"stored", "fan"}
        /\ Q.ev[1].req = r /\ Q.ev[1].type = p.plan[1]
  <2>1. CASE AppendFails(r, g)
    <3> DEFINE ev == Event(r, g, Head(p.plan), 0)
               Q == [p EXCEPT !.pc = "stored", !.ev = <<ev>>]
    <3>1. p.pc = "next" BY <2>1 DEF AppendFails
    <3>2. p.plan \in Seq(EventTypes) /\ p.plan # <<>> BY <3>1, PlanFacts
    <3>3. Head(p.plan) = p.plan[1] /\ p.plan[1] \in EventTypes BY <3>2
    <3>4. ev \in EventType /\ ev.req = r /\ ev.type = p.plan[1]
      BY <3>3 DEF Event, EventType
    <3>5. pub' = [pub EXCEPT ![r] = [pub[r] EXCEPT ![g] = Q]] BY <1>1, <2>1 DEF AppendFails
    <3> HIDE DEF ev
    <3>6. Q \in PubType /\ Q.pc = "stored" /\ Q.plan = p.plan /\ Q.ev = <<ev>>
      BY <1>1, <3>4, OneInHand
    <3> HIDE DEF Q
    <3>7. Q.ev[1] = ev BY <3>6
    <3> QED BY <3>1, <3>4, <3>5, <3>6, <3>7
  <2>2. CASE Lock(r, g)
    <3> DEFINE Q == [p EXCEPT !.pc = "fan", !.todo = Open]
    <3>1. p.pc = "stored" BY <2>2 DEF Lock
    <3>2. pub' = [pub EXCEPT ![r] = [pub[r] EXCEPT ![g] = Q]] BY <1>1, <2>2 DEF Lock
    <3>3. Open \in SUBSET Subs BY DEF Open
    <3>4. Q \in PubType /\ Q.pc = "fan" /\ Q.plan = p.plan /\ Q.ev = p.ev
      BY <1>1, <3>3 DEF PubType
    <3>5. p.ev[1].req = r /\ p.ev[1].type = p.plan[1] BY <3>1 DEF OrderInv, HandMatches
    <3> HIDE DEF Q
    <3> QED BY <3>1, <3>2, <3>4, <3>5
  <2> QED BY <2>1, <2>2
<1>6. PlansFit' /\ HandMatches' /\ EmittedFirst' /\ EndsOnce'
  <2>1. \A q \in Requests, ph \in 0..5 : InTable(q, ph)' =>
          InTable(q, ph) \/ (q = r /\ ph = Phase(pub[r][g].plan[1]))
    BY <1>4
  <2>2. \A s \in Subs, q \in Requests, ph \in 0..5 : Shown(s, q, ph)' =>
          \/ Shown(s, q, ph)
          \/ q = r /\ ph = Phase(pub[r][g].plan[1]) /\ Q.pc = "fan" /\ s \notin Q.todo
    BY <1>4
  <2>3. /\ pub[r][g].pc # "quiet" /\ pub[r][g].pc # "fan" /\ req' = req /\ left' = left
        /\ Q.plan = pub[r][g].plan
    BY <1>2, <1>5
  <2> QED BY <1>5, <2>1, <2>2, <2>3, EmitOrder
<1> QED BY <1>3, <1>6 DEF OrderInv

(* Publish returns: what is out stays before the rest of the plan.         *)
LEMMA UnlockOrder ==
  ASSUME IInv, OrderInv, NEW r \in Requests, NEW g \in Goroutines, Unlock(r, g)
  PROVE  OrderInv'
<1> DEFINE p == pub[r][g]
           T == Tail(p.plan)
           Q == Publishing(T)
<1>1. /\ pub \in [Requests -> [Goroutines -> PubType]] /\ p.pc = "fan" /\ p.todo = {}
      /\ UNCHANGED <<req, left, log, subs>>
  BY DEF IInv, Shape, Unlock
<1>2. p.plan \in Seq(EventTypes) /\ p.plan # <<>> BY <1>1, PlanFacts
<1>3. /\ T \in Seq(EventTypes) /\ Len(T) = Len(p.plan) - 1 /\ Len(p.plan) \in Nat \ {0}
      /\ \A i \in 1..Len(T) : T[i] = p.plan[i + 1]
  BY <1>2
<1>4. pub' = [pub EXCEPT ![r] = [pub[r] EXCEPT ![g] = Q]] BY <1>1 DEF Unlock
<1> HIDE DEF T
<1>5. Q \in PubType /\ Q.plan = T /\ Q.pc \in {"quiet", "next"} /\ (Q.pc = "quiet" => T = <<>>)
  BY <1>3, PublishingType DEF Publishing, Quiet
<1> HIDE DEF Q
<1>6. /\ pub'[r][g] = Q
      /\ \A q \in Requests, h \in Goroutines : q # r \/ h # g => pub'[q][h] = pub[q][h]
  BY <1>1, <1>4
<1>7. \A i \in 1..Len(T) : i + 1 \in 1..Len(p.plan) /\ i + 1 \in 2..Len(p.plan) BY <1>3
<1>8. /\ OutputBracketed' /\ OneEnd'
      /\ \A q \in Requests, ph \in 0..5 : Emitted(q, ph)' = Emitted(q, ph)
      /\ \A q \in Requests : InTable(q, 5)' = InTable(q, 5)
      /\ \A s \in Subs, q \in Requests : Shown(s, q, 5)' = Shown(s, q, 5)
  BY <1>1, OutFrame DEF OrderInv
<1>9. /\ Ascends(p.plan)
      /\ \A i \in 1..Len(p.plan) : /\ g # "quit" => Phase(p.plan[i]) <= Stage(req[r])
                                   /\ g \in Pumps => Phase(p.plan[i]) = 3
                                   /\ Phase(p.plan[i]) = 5 => (g = "quit" <=> r \in left)
  BY DEF OrderInv, PlansFit
<1>10. Ascends(T)
  <2> SUFFICES ASSUME NEW i \in 1..Len(T), NEW j \in 1..Len(T), i < j
               PROVE  /\ Phase(T[j]) # 0 => Phase(T[i]) <= Phase(T[j])
                      /\ ~(Phase(T[i]) = 5 /\ Phase(T[j]) = 5)
    BY DEF Ascends
  <2>1. i + 1 \in 1..Len(p.plan) /\ j + 1 \in 1..Len(p.plan) /\ i + 1 < j + 1
    BY <1>3, <1>7
  <2> QED BY <1>3, <1>9, <2>1 DEF Ascends
<1>11. \A i \in 1..Len(T) : /\ g # "quit" => Phase(T[i]) <= Stage(req[r])
                            /\ g \in Pumps => Phase(T[i]) = 3
                            /\ Phase(T[i]) = 5 => (g = "quit" <=> r \in left)
  BY <1>3, <1>7, <1>9
<1>12. PlansFit'
  <2> SUFFICES ASSUME NEW q \in Requests, NEW h \in Goroutines
      PROVE  /\ Ascends(pub'[q][h].plan)
             /\ \A i \in 1..Len(pub'[q][h].plan) :
                  /\ h # "quit" => Phase(pub'[q][h].plan[i]) <= Stage(req[q])
                  /\ h \in Pumps => Phase(pub'[q][h].plan[i]) = 3
                  /\ Phase(pub'[q][h].plan[i]) = 5 => (h = "quit" <=> q \in left)
    BY <1>1 DEF PlansFit, Ascends
  <2>1. CASE q = r /\ h = g
    <3>1. pub'[q][h].plan = T BY <1>5, <1>6, <2>1
    <3> QED BY <1>10, <1>11, <2>1, <3>1
  <2>2. CASE q # r \/ h # g BY <1>6, <2>2 DEF OrderInv, PlansFit
  <2> QED BY <2>1, <2>2
<1>13. HandMatches' BY <1>5, <1>6 DEF OrderInv, HandMatches
<1>14. EmittedFirst'
  <2> SUFFICES ASSUME NEW q \in Requests \ left, NEW ph \in 0..5, Emitted(q, ph)
               PROVE  /\ ph <= Stage(req[q])
                      /\ \A h \in Goroutines : \A i \in 1..Len(pub'[q][h].plan) :
                           Phase(pub'[q][h].plan[i]) # 0 => ph <= Phase(pub'[q][h].plan[i])
    BY <1>1, <1>8 DEF EmittedFirst
  <2>1. /\ ph <= Stage(req[q])
        /\ \A h \in Goroutines : \A i \in 1..Len(pub[q][h].plan) :
             Phase(pub[q][h].plan[i]) # 0 => ph <= Phase(pub[q][h].plan[i])
    BY DEF OrderInv, EmittedFirst
  <2>2. ASSUME q = r, NEW i \in 1..Len(T), Phase(T[i]) # 0 PROVE ph <= Phase(T[i])
    BY <1>3, <1>7, <2>1, <2>2
  <2> QED BY <1>5, <1>6, <2>1, <2>2
<1>15. EndsOnce'
  <2> SUFFICES ASSUME NEW q \in Requests, NEW h \in Goroutines
      PROVE  /\ InTable(q, 5) => \A i \in Unlogged(pub'[q][h]) : Phase(pub'[q][h].plan[i]) # 5
             /\ \A s \in Subs : Shown(s, q, 5) =>
                  \A i \in Unoffered(pub'[q][h], s) : Phase(pub'[q][h].plan[i]) # 5
    BY <1>8 DEF EndsOnce, Unlogged, Unoffered
  <2>1. CASE q # r \/ h # g BY <1>6, <2>1 DEF OrderInv, EndsOnce
  <2>2. CASE q = r /\ h = g
    <3>1. Unlogged(p) = 2..Len(p.plan) BY <1>1 DEF Unlogged
    <3>2. \A s \in Subs : Unoffered(p, s) = 2..Len(p.plan) BY <1>1 DEF Unoffered
    <3>3. InTable(r, 5) => \A i \in 2..Len(p.plan) : Phase(p.plan[i]) # 5
      BY <3>1 DEF OrderInv, EndsOnce
    <3>4. ASSUME NEW s \in Subs, Shown(s, r, 5), NEW i \in 2..Len(p.plan)
          PROVE  Phase(p.plan[i]) # 5
      BY <3>2, <3>4 DEF OrderInv, EndsOnce
    <3>5. /\ \A i \in Unlogged(Q) : i \in 1..Len(T)
          /\ \A s \in Subs : \A i \in Unoffered(Q, s) : i \in 1..Len(T)
      BY <1>5 DEF Unlogged, Unoffered
    <3>6. ASSUME NEW i \in 1..Len(T) PROVE i + 1 \in 2..Len(p.plan) /\ T[i] = p.plan[i + 1]
      BY <1>3, <1>7
    <3>7. InTable(r, 5) => \A i \in 1..Len(T) : Phase(T[i]) # 5 BY <3>3, <3>6
    <3>8. \A s \in Subs : Shown(s, r, 5) => \A i \in 1..Len(T) : Phase(T[i]) # 5
      BY <3>4, <3>6
    <3>9. pub'[q][h] = Q /\ Q.plan = T BY <1>5, <1>6, <2>2
    <3> QED BY <2>2, <3>5, <3>7, <3>8, <3>9
  <2> QED BY <2>1, <2>2
<1> QED BY <1>8, <1>12, <1>13, <1>14, <1>15 DEF OrderInv

(* One stream takes the event after all it had of the request, or loses it. *)
LEMMA OfferOrder ==
  ASSUME IInv, OrderInv, NEW r \in Requests, NEW g \in Goroutines, NEW s \in Subs, Offer(r, g, s)
  PROVE  OrderInv'
<1> DEFINE p == pub[r][g]
           Q == [p EXCEPT !.todo = @ \ {s}]
           e == p.ev[1]
           b == subs[s].buf
<1>1. /\ pub \in [Requests -> [Goroutines -> PubType]] /\ p \in PubType /\ p.pc = "fan"
      /\ subs \in [Subs -> SubType] /\ s \in p.todo /\ subs[s] \in SubType
      /\ UNCHANGED <<req, left, log>>
  BY DEF IInv, Shape, Offer
<1>2. e \in EventType
  <2>1. p.ev \in Seq(EventType) /\ p.ev # <<>> BY <1>1 DEF IInv, InHand, PubType
  <2> QED BY <2>1
<1>3. e.req = r /\ e.type = p.plan[1] BY <1>1 DEF OrderInv, HandMatches
<1>4. pub' = [pub EXCEPT ![r] = [pub[r] EXCEPT ![g] = Q]] BY <1>1 DEF Offer
<1>5. Q \in PubType /\ Q.pc = "fan" /\ Q.plan = p.plan /\ Q.ev = p.ev /\ Q.todo = p.todo \ {s}
  BY <1>1 DEF PubType
<1> HIDE DEF Q
<1>6. /\ subs' \in [Subs -> SubType]
      /\ \A t \in Subs : t # s => subs'[t] = subs[t]
      /\ subs'[s].last = subs[s].last
      /\ subs'[s].buf = b \/ subs'[s].buf = Append(b, e)
  <2>1. CASE Full(s)
    <3>1. subs' = [subs EXCEPT ![s].dropped = TRUE, ![s].got = {}]
      BY <2>1 DEF Offer, Lose
    <3> QED BY <1>1, <3>1 DEF SubType
  <2>2. CASE ~Full(s)
    <3> DEFINE n == Append(b, e)
    <3>1. subs' = [subs EXCEPT ![s].buf = n] BY <2>2 DEF Offer, Take
    <3>2. n \in Seq(EventType) BY <1>1, <1>2 DEF SubType
    <3> HIDE DEF n
    <3>3. /\ subs' \in [Subs -> SubType]
          /\ \A t \in Subs : t # s => subs'[t] = subs[t]
          /\ subs'[s].last = subs[s].last /\ subs'[s].buf = n
      BY <1>1, <3>1, <3>2 DEF SubType
    <3> QED BY <3>3 DEF n
  <2> QED BY <2>1, <2>2
<1>7. b \in Seq(EventType) BY <1>1 DEF SubType
<1>8. /\ Len(Append(b, e)) = Len(b) + 1 /\ Len(b) \in Nat /\ Append(b, e)[Len(b) + 1] = e
      /\ \A i \in 1..Len(b) : Append(b, e)[i] = b[i]
  BY <1>2, <1>7
<1>9. \A q \in Requests, ph \in 0..5 : InTable(q, ph)' = InTable(q, ph) BY <1>1 DEF InTable
<1>10. ASSUME NEW t \in Subs, NEW q \in Requests, NEW ph \in 0..5, Shown(t, q, ph)'
       PROVE  \/ Shown(t, q, ph)
              \/ q = r /\ ph = Phase(p.plan[1]) /\ Q.pc = "fan" /\ t \notin Q.todo
  <2>1. CASE t # s BY <1>6, <1>10, <2>1 DEF Shown
  <2>2. CASE t = s /\ subs'[s].buf = b BY <1>6, <1>10, <2>2 DEF Shown
  <2>3. CASE t = s /\ subs'[s].buf = Append(b, e)
    <3>1. CASE subs[s].last[q] = ph BY <2>3, <3>1 DEF Shown
    <3>2. ASSUME NEW i \in 1..Len(Append(b, e)), Append(b, e)[i].req = q,
                 Phase(Append(b, e)[i].type) = ph
          PROVE  Shown(t, q, ph) \/ (q = r /\ ph = Phase(p.plan[1]))
      <4>1. CASE i \in 1..Len(b) BY <1>8, <2>3, <3>2, <4>1 DEF Shown
      <4>2. CASE i = Len(b) + 1 BY <1>3, <1>8, <3>2, <4>2
      <4> QED BY <1>8, <4>1, <4>2
    <3> QED BY <1>5, <1>6, <1>10, <2>3, <3>1, <3>2 DEF Shown
  <2> QED BY <1>6, <2>1, <2>2, <2>3
<1>11. PlansFit' /\ HandMatches' /\ EmittedFirst' /\ EndsOnce'
  <2>1. Q.ev[1].req = r /\ Q.ev[1].type = p.plan[1] BY <1>3, <1>5
  <2>2. \A q \in Requests, ph \in 0..5 : InTable(q, ph)' =>
          InTable(q, ph) \/ (q = r /\ ph = Phase(pub[r][g].plan[1]))
    BY <1>9
  <2>3. \A t \in Subs, q \in Requests, ph \in 0..5 : Shown(t, q, ph)' =>
          \/ Shown(t, q, ph)
          \/ q = r /\ ph = Phase(pub[r][g].plan[1]) /\ Q.pc = "fan" /\ t \notin Q.todo
    BY <1>10
  <2>4. /\ pub[r][g].pc # "quiet" /\ req' = req /\ left' = left /\ Q \in PubType
        /\ Q.plan = pub[r][g].plan /\ Q.pc \in {"stored", "fan"}
        /\ Q.pc = "fan" /\ Q.todo \subseteq pub[r][g].todo
    BY <1>1, <1>5
  <2> QED BY <1>4, <2>1, <2>2, <2>3, <2>4, EmitOrder
<1>12. ASSUME NEW ph \in 0..5, Shown(s, r, ph)
       PROVE  /\ r \notin left /\ Phase(p.plan[1]) # 0 => ph <= Phase(p.plan[1])
              /\ ~(Phase(p.plan[1]) = 5 /\ ph = 5)
  <2>1. p.plan # <<>> /\ p.plan \in Seq(EventTypes) BY <1>1, PlanFacts
  <2>2. 1 \in 1..Len(p.plan) /\ 1 \in Unoffered(p, s) BY <1>1, <2>1 DEF Unoffered
  <2>3. r \notin left /\ Phase(p.plan[1]) # 0 => ph <= Phase(p.plan[1])
    BY <1>12, <2>2 DEF OrderInv, EmittedFirst, Emitted
  <2>4. Shown(s, r, 5) => Phase(p.plan[1]) # 5 BY <2>2 DEF OrderInv, EndsOnce
  <2> QED BY <1>12, <2>3, <2>4
<1>13. (\A q \in Requests \ left : InOrder(b, q)) /\ SingleEnd(b)
  BY DEF OrderInv, OutputBracketed, OneEnd
<1>14. (\A q \in Requests \ left : InOrder(Append(b, e), q)) /\ SingleEnd(Append(b, e))
  <2>1. ASSUME NEW i \in 1..Len(b), b[i].req = e.req
        PROVE  /\ e.req \in Requests \ left /\ Phase(e.type) # 0 => Phase(b[i].type) <= Phase(e.type)
               /\ ~(Phase(e.type) = 5 /\ Phase(b[i].type) = 5)
    <3>1. Phase(b[i].type) \in 0..5 BY <1>7, EventFacts
    <3>2. Shown(s, r, Phase(b[i].type)) BY <1>3, <2>1 DEF Shown
    <3> QED BY <1>3, <1>12, <3>1, <3>2
  <2> QED BY <1>2, <1>7, <1>13, <2>1, AppendKeepsOrder
<1>15. subs[s].last[r] \in 0..5 /\ Shown(s, r, subs[s].last[r])
  <2>1. subs[s].last[r] \in Phases BY <1>1 DEF SubType
  <2> QED BY <2>1, PhaseTypes DEF Phases, Shown
<1>16. OutputBracketed'
  <2>0. \A q \in Requests : InOrder(log, q)'
    BY <1>1 DEF OutputBracketed, OrderInv, InOrder
  <2> SUFFICES ASSUME NEW q \in Requests \ left, NEW t \in Subs
               PROVE  /\ InOrder(log, q)' /\ InOrder(subs[t].buf, q)'
                      /\ \A i \in 1..Len(subs'[t].buf) :
                           subs'[t].buf[i].req = q /\ Phase(subs'[t].buf[i].type) # 0
                             => subs'[t].last[q] <= Phase(subs'[t].buf[i].type)
    BY <1>1, <2>0 DEF OutputBracketed
  <2>1. /\ InOrder(log, q) /\ InOrder(subs[t].buf, q)
        /\ \A i \in 1..Len(subs[t].buf) :
             subs[t].buf[i].req = q /\ Phase(subs[t].buf[i].type) # 0
               => subs[t].last[q] <= Phase(subs[t].buf[i].type)
    BY DEF OrderInv, OutputBracketed
  <2>2. InOrder(log, q)' BY <1>1, <2>1 DEF InOrder
  <2>3. CASE subs'[t].buf = subs[t].buf /\ subs'[t].last = subs[t].last
    BY <2>1, <2>2, <2>3 DEF InOrder
  <2>4. CASE t = s /\ subs'[s].buf = Append(b, e)
    <3>1. InOrder(subs[t].buf, q)'
      <4> DEFINE n == Append(b, e)
      <4>1. subs'[t].buf = n BY <2>4
      <4>2. InOrder(n, q) BY <1>14
      <4> HIDE DEF n
      <4> QED BY <4>1, <4>2 DEF InOrder
    <3>2. ASSUME NEW i \in 1..Len(Append(b, e)), Append(b, e)[i].req = q,
                 Phase(Append(b, e)[i].type) # 0
          PROVE  subs[s].last[q] <= Phase(Append(b, e)[i].type)
      <4>1. CASE i \in 1..Len(b) BY <1>8, <2>1, <2>4, <3>2, <4>1
      <4>2. CASE i = Len(b) + 1 BY <1>3, <1>8, <1>12, <1>15, <3>2, <4>2
      <4> QED BY <1>8, <4>1, <4>2
    <3> QED BY <1>6, <2>2, <2>4, <3>1, <3>2
  <2> QED BY <1>6, <2>3, <2>4
<1>17. OneEnd'
  <2> SUFFICES ASSUME NEW t \in Subs
               PROVE  /\ SingleEnd(subs[t].buf)'
                      /\ \A i \in 1..Len(subs'[t].buf) :
                           subs'[t].buf[i].type \in Ends
                             => subs'[t].last[subs'[t].buf[i].req] # 5
    BY <1>1 DEF OneEnd, OrderInv, SingleEnd
  <2>1. /\ SingleEnd(subs[t].buf)
        /\ \A i \in 1..Len(subs[t].buf) :
             subs[t].buf[i].type \in Ends => subs[t].last[subs[t].buf[i].req] # 5
    BY DEF OrderInv, OneEnd
  <2>2. CASE subs'[t].buf = subs[t].buf /\ subs'[t].last = subs[t].last
    BY <2>1, <2>2 DEF SingleEnd
  <2>3. CASE t = s /\ subs'[s].buf = Append(b, e)
    <3>1. SingleEnd(subs[t].buf)' BY <1>14, <2>3 DEF SingleEnd
    <3>2. ASSUME NEW i \in 1..Len(Append(b, e)), Append(b, e)[i].type \in Ends
          PROVE  subs[s].last[Append(b, e)[i].req] # 5
      <4>1. CASE i \in 1..Len(b) BY <1>8, <2>1, <2>3, <3>2, <4>1
      <4>2. CASE i = Len(b) + 1
        <5>1. Phase(e.type) = 5 BY <1>2, <1>8, <3>2, <4>2, PhaseTypes DEF EventType
        <5> QED BY <1>3, <1>8, <1>12, <1>15, <4>2, <5>1
      <4>3. i \in 1..Len(b) \/ i = Len(b) + 1 BY <1>8
      <4> QED BY <4>1, <4>2, <4>3
    <3> QED BY <1>6, <2>3, <3>1, <3>2
  <2> QED BY <1>6, <2>2, <2>3
<1> QED BY <1>11, <1>16, <1>17 DEF OrderInv

-----------------------------------------------------------------------------
(* Streams come, read and go: nothing comes out that was not out.          *)
LEMMA StreamFrame ==
  ASSUME IInv, OrderInv, UNCHANGED <<pub, req, left, log>>,
         \A s \in Subs, q \in Requests, ph \in 0..5 :
           Shown(s, q, ph)' => Shown(s, q, ph) \/ ph = 0
  PROVE  PlansFit' /\ HandMatches' /\ EmittedFirst' /\ EndsOnce'
<1>1. PlansFit' /\ HandMatches' BY DEF OrderInv, PlansFit, HandMatches, Ascends
<1>2. \A q \in Requests, ph \in 0..5 : InTable(q, ph)' = InTable(q, ph) BY DEF InTable
<1>3. EmittedFirst'
  <2> SUFFICES ASSUME NEW q \in Requests \ left, NEW ph \in 0..5, Emitted(q, ph)'
               PROVE  /\ ph <= Stage(req[q])
                      /\ \A g \in Goroutines : \A i \in 1..Len(pub[q][g].plan) :
                           Phase(pub[q][g].plan[i]) # 0 => ph <= Phase(pub[q][g].plan[i])
    BY DEF EmittedFirst
  <2>1. Emitted(q, ph) \/ ph = 0 BY <1>2 DEF Emitted
  <2>2. CASE Emitted(q, ph) BY <2>2 DEF OrderInv, EmittedFirst
  <2>3. CASE ph = 0
    <3>1. Stage(req[q]) \in 0..5 BY StageTypes DEF IInv, Shape
    <3>2. \A g \in Goroutines : \A i \in 1..Len(pub[q][g].plan) : Phase(pub[q][g].plan[i]) \in 0..5
      BY PlanFacts
    <3> QED BY <2>3, <3>1, <3>2
  <2> QED BY <2>1, <2>2, <2>3
<1>4. \A s \in Subs, q \in Requests : Shown(s, q, 5)' => Shown(s, q, 5) OBVIOUS
<1>5. EndsOnce' BY <1>2, <1>4 DEF OrderInv, EndsOnce, Unlogged, Unoffered
<1> QED BY <1>1, <1>3, <1>5

(* A new stream and a closed one have seen nothing.                        *)
LEMMA MembershipOrder ==
  ASSUME IInv, OrderInv, NEW s \in Subs, Subscribe(s) \/ Cancel(s)
  PROVE  OrderInv'
<1>1. subs \in [Subs -> SubType] BY DEF IInv, Shape
<1>2. UNCHANGED <<pub, req, left, log>> BY DEF Subscribe, Cancel
<1>3. /\ subs'[s].buf = <<>> /\ \A q \in Requests : subs'[s].last[q] = 0
      /\ \A t \in Subs : t # s => subs'[t] = subs[t]
  <2>1. CASE Subscribe(s) BY <1>1, <2>1 DEF Subscribe, Closed
  <2>2. CASE Cancel(s) BY <1>1, <2>2 DEF Cancel, Closed
  <2> QED BY <2>1, <2>2
<1>4. \A t \in Subs, q \in Requests, ph \in 0..5 : Shown(t, q, ph)' => Shown(t, q, ph) \/ ph = 0
  BY <1>3 DEF Shown
<1>5. PlansFit' /\ HandMatches' /\ EmittedFirst' /\ EndsOnce' BY <1>2, <1>4, StreamFrame
<1>6. 1..Len(subs'[s].buf) = {} BY <1>3
<1>7. OutputBracketed'
  <2>0. \A q \in Requests : InOrder(log, q)'
    BY <1>2 DEF OutputBracketed, OrderInv, InOrder
  <2> SUFFICES ASSUME NEW q \in Requests \ left, NEW t \in Subs
               PROVE  /\ InOrder(log, q)' /\ InOrder(subs[t].buf, q)'
                      /\ \A i \in 1..Len(subs'[t].buf) :
                           subs'[t].buf[i].req = q /\ Phase(subs'[t].buf[i].type) # 0
                             => subs'[t].last[q] <= Phase(subs'[t].buf[i].type)
    BY <1>2, <2>0 DEF OutputBracketed
  <2>1. CASE t = s BY <1>2, <1>6, <2>1 DEF OrderInv, OutputBracketed, InOrder
  <2>2. CASE t # s BY SMTT(30), <1>2, <1>3, <2>2 DEF OrderInv, OutputBracketed, InOrder
  <2> QED BY <2>1, <2>2
<1>8. OneEnd'
  <2> SUFFICES ASSUME NEW t \in Subs
               PROVE  /\ SingleEnd(subs[t].buf)'
                      /\ \A i \in 1..Len(subs'[t].buf) :
                           subs'[t].buf[i].type \in Ends
                             => subs'[t].last[subs'[t].buf[i].req] # 5
    BY <1>2 DEF OneEnd, OrderInv, SingleEnd
  <2>1. CASE t = s BY <1>6, <2>1 DEF SingleEnd
  <2>2. CASE t # s BY SMTT(60), <1>3, <2>2 DEF OrderInv, OneEnd, SingleEnd
  <2> QED BY <2>1, <2>2
<1> QED BY <1>5, <1>7, <1>8 DEF OrderInv

(* The oldest event is read: the others of its request follow it.          *)
LEMMA ReadOrder ==
  ASSUME IInv, OrderInv, NEW s \in Subs, Read(s)
  PROVE  OrderInv'
<1> DEFINE b == subs[s].buf
           ev == Head(b)
           T == Tail(b)
           old == subs[s].last
           L == [old EXCEPT ![ev.req] = IF Phase(ev.type) > @ THEN Phase(ev.type) ELSE @]
           G == IF subs[s].dropped THEN {} ELSE subs[s].got \cup {ev.id}
<1>1. /\ subs \in [Subs -> SubType] /\ subs[s] \in SubType /\ b \in Seq(EventType) /\ b # <<>>
      /\ old \in [Requests -> Phases] /\ UNCHANGED <<pub, req, left, log>>
  BY DEF IInv, Shape, SubType, Read
<1>2. /\ ev = b[1] /\ ev \in EventType /\ Len(T) = Len(b) - 1 /\ Len(b) \in Nat \ {0}
      /\ \A i \in 1..Len(T) : T[i] = b[i + 1]
  BY <1>1
<1>3. ev.req \in Requests /\ Phase(ev.type) \in 0..5 /\ (ev.type \in Ends <=> Phase(ev.type) = 5)
  BY <1>2, PhaseTypes DEF EventType
<1>4. subs' = [subs EXCEPT ![s] = [subs[s] EXCEPT !.buf = T, !.got = G, !.last = L]]
  BY <1>1 DEF Read, SubType
<1>5. \A q \in Requests : L[q] = IF q = ev.req /\ Phase(ev.type) > old[q] THEN Phase(ev.type) ELSE old[q]
  BY <1>1, <1>3
<1> HIDE DEF T, L, ev, G
<1>6. /\ subs'[s].buf = T /\ subs'[s].last = L
      /\ \A t \in Subs : t # s => subs'[t] = subs[t]
  BY <1>1, <1>4 DEF SubType
<1>7. \A i \in 1..Len(T) : i + 1 \in 1..Len(b) /\ 1 < i + 1 BY <1>2
<1>8. 1 \in 1..Len(b) BY <1>2
<1>9. ASSUME NEW t \in Subs, NEW q \in Requests, NEW ph \in 0..5, Shown(t, q, ph)'
      PROVE  Shown(t, q, ph)
  <2>1. CASE t # s BY <1>6, <1>9, <2>1 DEF Shown
  <2>2. CASE t = s
    <3>1. CASE L[q] = ph BY <1>2, <1>5, <1>8, <2>2, <3>1 DEF Shown
    <3>2. ASSUME NEW i \in 1..Len(T), T[i].req = q, Phase(T[i].type) = ph
          PROVE  Shown(t, q, ph)
      BY <1>2, <1>7, <2>2, <3>2 DEF Shown
    <3> QED BY <1>6, <1>9, <2>2, <3>1, <3>2 DEF Shown
  <2> QED BY <2>1, <2>2
<1>10. PlansFit' /\ HandMatches' /\ EmittedFirst' /\ EndsOnce' BY <1>1, <1>9, StreamFrame
<1>11. OutputBracketed'
  <2>0. \A q \in Requests : InOrder(log, q)'
    BY <1>1 DEF OutputBracketed, OrderInv, InOrder
  <2> SUFFICES ASSUME NEW q \in Requests \ left, NEW t \in Subs
               PROVE  /\ InOrder(log, q)' /\ InOrder(subs[t].buf, q)'
                      /\ \A i \in 1..Len(subs'[t].buf) :
                           subs'[t].buf[i].req = q /\ Phase(subs'[t].buf[i].type) # 0
                             => subs'[t].last[q] <= Phase(subs'[t].buf[i].type)
    BY <1>1, <2>0 DEF OutputBracketed
  <2>1. InOrder(log, q)' BY <1>1 DEF OrderInv, OutputBracketed, InOrder
  <2>2. CASE t # s BY SMTT(30), <1>6, <2>1, <2>2 DEF OrderInv, OutputBracketed, InOrder
  <2>3. CASE t = s
    <3>1. /\ InOrder(b, q)
          /\ \A i \in 1..Len(b) : b[i].req = q /\ Phase(b[i].type) # 0 => old[q] <= Phase(b[i].type)
      BY DEF OrderInv, OutputBracketed
    <3>2. InOrder(T, q)
      <4> SUFFICES ASSUME NEW i \in 1..Len(T), NEW j \in 1..Len(T), i < j, T[i].req = q,
                          T[j].req = q, Phase(T[j].type) # 0
                   PROVE  Phase(T[i].type) <= Phase(T[j].type)
        BY DEF InOrder
      <4>1. i + 1 \in 1..Len(b) /\ j + 1 \in 1..Len(b) /\ i + 1 < j + 1 BY <1>2, <1>7
      <4> QED BY <1>2, <3>1, <4>1 DEF InOrder
    <3>3. ASSUME NEW i \in 1..Len(T), T[i].req = q, Phase(T[i].type) # 0
          PROVE  L[q] <= Phase(T[i].type)
      <4>1. i + 1 \in 1..Len(b) /\ 1 < i + 1 /\ T[i] = b[i + 1] BY <1>2, <1>7
      <4>2. old[q] <= Phase(T[i].type) BY <3>1, <3>3, <4>1
      <4>3. q = ev.req => Phase(ev.type) <= Phase(T[i].type)
        BY <1>2, <1>8, <3>1, <3>3, <4>1 DEF InOrder
      <4> QED BY <1>5, <4>2, <4>3
    <3>4. InOrder(subs[t].buf, q)' BY <1>6, <2>3, <3>2 DEF InOrder
    <3> QED BY <1>6, <2>1, <2>3, <3>3, <3>4
  <2> QED BY <2>2, <2>3
<1>12. OneEnd'
  <2> SUFFICES ASSUME NEW t \in Subs
               PROVE  /\ SingleEnd(subs[t].buf)'
                      /\ \A i \in 1..Len(subs'[t].buf) :
                           subs'[t].buf[i].type \in Ends
                             => subs'[t].last[subs'[t].buf[i].req] # 5
    BY <1>1 DEF OneEnd, OrderInv, SingleEnd
  <2>1. CASE t # s BY SMTT(30), <1>6, <2>1 DEF OrderInv, OneEnd, SingleEnd
  <2>2. CASE t = s
    <3>1. /\ SingleEnd(b)
          /\ \A i \in 1..Len(b) : b[i].type \in Ends => old[b[i].req] # 5
      BY DEF OrderInv, OneEnd
    <3>2. SingleEnd(T)
      <4> SUFFICES ASSUME NEW i \in 1..Len(T), NEW j \in 1..Len(T), T[i].req = T[j].req,
                          T[i].type \in Ends, T[j].type \in Ends
                   PROVE  i = j
        BY DEF SingleEnd
      <4>1. i + 1 = j + 1 BY ZenonT(60), <1>2, <1>7, <3>1 DEF SingleEnd
      <4> QED BY <4>1
    <3>3. ASSUME NEW i \in 1..Len(T), T[i].type \in Ends PROVE L[T[i].req] # 5
      <4>1. i + 1 \in 1..Len(b) /\ T[i] = b[i + 1] /\ i + 1 # 1 BY <1>2, <1>7
      <4>2. T[i].req \in Requests BY <1>1, <4>1, EventFacts
      <4>3. ~(ev.req = T[i].req /\ ev.type \in Ends)
        BY <1>2, <1>8, <3>1, <3>3, <4>1 DEF SingleEnd
      <4>4. old[T[i].req] # 5 BY <3>1, <3>3, <4>1
      <4> QED BY <1>3, <1>5, <4>2, <4>3, <4>4
    <3>4. SingleEnd(subs[t].buf)' BY <1>6, <2>2, <3>2 DEF SingleEnd
    <3> QED BY <1>6, <2>2, <3>3, <3>4
  <2> QED BY <2>1, <2>2
<1> QED BY <1>10, <1>11, <1>12 DEF OrderInv

-----------------------------------------------------------------------------
(* Nothing is out and nothing is planned.                                  *)
LEMMA InitOrder == Init => OrderInv
<1> SUFFICES ASSUME Init PROVE OrderInv OBVIOUS
<1>1. /\ \A r \in Requests, g \in Goroutines : pub[r][g].pc = "quiet" /\ pub[r][g].plan = <<>>
      /\ \A r \in Requests : req[r] = "idle"
      /\ log = <<>>
      /\ \A s \in Subs : subs[s].buf = <<>> /\ \A r \in Requests : subs[s].last[r] = 0
  BY DEF Init, Quiet, Closed
<1>2. PlansFit /\ HandMatches BY <1>1 DEF PlansFit, HandMatches, Ascends
<1>3. \A r \in Requests, ph \in 0..5 : Emitted(r, ph) => ph = 0
  BY <1>1 DEF Emitted, InTable, Shown
<1>4. EmittedFirst BY <1>1, <1>3, StageValues DEF EmittedFirst
<1>5. EndsOnce BY <1>1 DEF EndsOnce, Unlogged, Unoffered
<1>6. OutputBracketed /\ OneEnd
  BY <1>1 DEF OutputBracketed, OneEnd, InOrder, SingleEnd
<1> QED BY <1>2, <1>4, <1>5, <1>6 DEF OrderInv

(* Every step keeps the order of events.                                   *)
LEMMA NextOrder == IInv /\ OrderInv /\ [Next]_vars => OrderInv'
<1> SUFFICES ASSUME IInv, OrderInv, [Next]_vars PROVE OrderInv' OBVIOUS
<1>1. ASSUME NEW r \in Requests,
             Arrive(r) \/ Unreachable(r) \/ Disconnect(r) \/ PipesReleased(r) \/ HandlerStep(r)
      PROVE  OrderInv'
  BY <1>1, HandlerOrder, PumpsStartOrder, GiveUpOrder, QuietStepOrder DEF HandlerStep
<1>2. ASSUME NEW r \in Requests, NEW g \in Goroutines, PublishStep(r, g) PROVE OrderInv'
  BY <1>2, Append1Order, StoredOrder, UnlockOrder, OfferOrder DEF PublishStep
<1>3. ASSUME NEW s \in Subs, Subscribe(s) \/ Read(s) \/ Cancel(s) PROVE OrderInv'
  BY <1>3, MembershipOrder, ReadOrder
<1>4. CASE UNCHANGED vars
  <2>1. UNCHANGED <<pub, req, left, log, subs>> BY <1>4 DEF vars
  <2>2. OutputBracketed' /\ OneEnd' BY <2>1, OutFrame DEF OrderInv
  <2>3. \A s \in Subs, q \in Requests, ph \in 0..5 : Shown(s, q, ph)' = Shown(s, q, ph)
    BY <2>1 DEF Shown
  <2>4. PlansFit' /\ HandMatches' /\ EmittedFirst' /\ EndsOnce' BY <2>1, <2>3, StreamFrame
  <2> QED BY <2>2, <2>4 DEF OrderInv
<1> QED BY <1>1, <1>2, <1>3, <1>4 DEF Next

(* Plans, what is in hand and what is out agree in every reachable state.  *)
LEMMA SpecOrder == Spec => []OrderInv
<1> QED BY InitOrder, NextOrder, SpecIInv, PTL DEF Spec

(* shell.exec and the handlers: in the events table and in every stream, a *)
(* command's output lies between its start and its completion, and the end *)
(* of the request after all of it; a handler that has left the runtime's   *)
(* worker to a command breaks this for streams, never for the table.       *)
THEOREM OutputIsBracketed == Spec => []OutputBracketed
<1>1. OrderInv => OutputBracketed BY DEF OrderInv
<1> QED BY <1>1, SpecOrder, PTL

(* A request reports one end, to the table and to every stream, whatever   *)
(* it was, whoever disconnected and whichever INSERT failed.               *)
THEOREM RequestHasOneEnd == Spec => []OneEnd
<1>1. OrderInv => OneEnd BY DEF OrderInv
<1> QED BY <1>1, SpecOrder, PTL

-----------------------------------------------------------------------------
(* How far a handler is, and a goroutine with the event in hand.           *)
HandlerRank(at) == CASE at = "idle" -> 0 [] at = "call" -> 1 [] at = "shell" -> 2
                     [] at = "pumping" -> 3 [] at = "shelldone" -> 4 [] at = "closing" -> 5
                     [] OTHER -> 6
PublishRank(pc) == CASE pc = "stored" -> 1 [] pc = "fan" -> 2 [] OTHER -> 0

(* From p to q a goroutine has fewer events to publish, is further with    *)
(* the one in hand, or has one subscriber fewer to offer it.               *)
PublishAdvances(p, q) ==
  \/ Len(q.plan) < Len(p.plan)
  \/ q.plan = p.plan /\ PublishRank(q.pc) > PublishRank(p.pc)
  \/ q.plan = p.plan /\ q.pc = p.pc /\ \E s \in p.todo : q.todo = p.todo \ {s}

(* A handler goes forward or, once, leaves the worker, or one goroutine of *)
(* one request goes forward; all other steps leave all requests where they *)
(* are.                                                                    *)
HandlerAdvances(r) ==
  /\ \/ HandlerRank(req'[r]) > HandlerRank(req[r]) /\ left' = left
     \/ req'[r] = req[r] /\ r \notin left /\ left' = left \cup {r}
  /\ \A q \in Requests \ {r} : req'[q] = req[q] /\ pub'[q] = pub[q]

GoroutineAdvances(r, g) ==
  /\ PublishAdvances(pub[r][g], pub'[r][g])
  /\ \A h \in Goroutines \ {g} : pub'[r][h] = pub[r][h]
  /\ \A q \in Requests \ {r} : pub'[q] = pub[q]

Advances ==
  \/ UNCHANGED <<req, pub, left>>
  \/ \E r \in Requests : HandlerAdvances(r)
  \/ UNCHANGED <<req, left>> /\ \E r \in Requests, g \in Goroutines : GoroutineAdvances(r, g)

(* A step of Publish takes its goroutine forward.                          *)
LEMMA PublishStepAdvances ==
  ASSUME IInv, NEW r \in Requests, NEW g \in Goroutines, PublishStep(r, g)
  PROVE  UNCHANGED <<req, left>> /\ GoroutineAdvances(r, g)
<1>1. /\ pub \in [Requests -> [Goroutines -> PubType]] /\ pub[r][g] \in PubType
      /\ pub[r][g].pc = "quiet" <=> pub[r][g].plan = <<>>
  BY DEF IInv, Shape, QuietIsDone
<1>2. UNCHANGED <<req, left>>
  BY DEF PublishStep, Append1, AppendFails, Lock, Offer, Unlock
<1>3. ASSUME NEW new, pub' = [pub EXCEPT ![r][g] = new], PublishAdvances(pub[r][g], new)
      PROVE  GoroutineAdvances(r, g)
  BY <1>1, <1>3 DEF GoroutineAdvances
<1>4. CASE Append1(r, g)
  <2> DEFINE ev == Event(r, g, Head(pub[r][g].plan), Len(log) + 1)
             new == [pub[r][g] EXCEPT !.pc = "stored", !.ev = <<ev>>]
  <2>1. pub' = [pub EXCEPT ![r][g] = new] /\ pub[r][g].pc = "next"
    BY <1>1, <1>4 DEF Append1
  <2>2. new.plan = pub[r][g].plan /\ new.pc = "stored"
    BY <1>1 DEF PubType
  <2> HIDE DEF new
  <2>3. PublishAdvances(pub[r][g], new)
    BY <2>1, <2>2 DEF PublishAdvances, PublishRank
  <2> QED
    BY <1>2, <1>3, <2>1, <2>3
<1>5. CASE AppendFails(r, g)
  <2> DEFINE ev == Event(r, g, Head(pub[r][g].plan), 0)
             new == [pub[r][g] EXCEPT !.pc = "stored", !.ev = <<ev>>]
  <2>1. pub' = [pub EXCEPT ![r][g] = new] /\ pub[r][g].pc = "next"
    BY <1>1, <1>5 DEF AppendFails
  <2>2. new.plan = pub[r][g].plan /\ new.pc = "stored"
    BY <1>1 DEF PubType
  <2> HIDE DEF new
  <2>3. PublishAdvances(pub[r][g], new)
    BY <2>1, <2>2 DEF PublishAdvances, PublishRank
  <2> QED
    BY <1>2, <1>3, <2>1, <2>3
<1>6. CASE Lock(r, g)
  <2> DEFINE new == [pub[r][g] EXCEPT !.pc = "fan", !.todo = Open]
  <2>1. pub' = [pub EXCEPT ![r][g] = new] /\ pub[r][g].pc = "stored"
    BY <1>1, <1>6 DEF Lock
  <2>2. new.plan = pub[r][g].plan /\ new.pc = "fan"
    BY <1>1 DEF PubType
  <2> HIDE DEF new
  <2>3. PublishAdvances(pub[r][g], new)
    BY <2>1, <2>2 DEF PublishAdvances, PublishRank
  <2> QED
    BY <1>2, <1>3, <2>1, <2>3
<1>7. ASSUME NEW s \in Subs, Offer(r, g, s) PROVE GoroutineAdvances(r, g)
  <2> DEFINE new == [pub[r][g] EXCEPT !.todo = pub[r][g].todo \ {s}]
  <2>1. pub' = [pub EXCEPT ![r][g] = new] /\ s \in pub[r][g].todo
    BY <1>1, <1>7 DEF Offer
  <2>2. new.plan = pub[r][g].plan /\ new.pc = pub[r][g].pc /\ new.todo = pub[r][g].todo \ {s}
    BY <1>1 DEF PubType
  <2> HIDE DEF new
  <2>3. PublishAdvances(pub[r][g], new)
    BY <2>1, <2>2 DEF PublishAdvances
  <2> QED
    BY <1>3, <2>1, <2>3
<1>8. CASE Unlock(r, g)
  <2> DEFINE new == Publishing(Tail(pub[r][g].plan))
  <2>1. pub' = [pub EXCEPT ![r][g] = new] /\ pub[r][g].plan # <<>>
    BY <1>1, <1>8 DEF Unlock
  <2>2. pub[r][g].plan \in Seq(EventTypes)
    BY <1>1 DEF PubType
  <2>3. Len(Tail(pub[r][g].plan)) < Len(pub[r][g].plan)
    BY SMTT(30), <2>1, <2>2
  <2>4. new.plan = Tail(pub[r][g].plan)
    BY DEF Publishing, Quiet
  <2> HIDE DEF new
  <2>5. PublishAdvances(pub[r][g], new)
    BY <2>3, <2>4 DEF PublishAdvances
  <2> QED
    BY <1>2, <1>3, <2>1, <2>5
<1> QED
  BY <1>2, <1>4, <1>5, <1>6, <1>7, <1>8 DEF PublishStep

(* A step of a handler takes it forward.                                   *)
LEMMA HandlerStepAdvances ==
  ASSUME IInv, NEW r \in Requests, Arrive(r) \/ Unreachable(r) \/ HandlerStep(r)
  PROVE  HandlerAdvances(r)
<1>1. pub \in [Requests -> [Goroutines -> PubType]] /\ req \in [Requests -> ReqType]
  BY DEF IInv, Shape
<1>2. \A q \in Requests \ {r} : pub'[q] = pub[q]
  BY <1>1 DEF Arrive, Unreachable, HandlerStep, ShellStart, PumpsStart, WaitPumps, ShellFails,
              GiveUp, CallReturns, Respond, Publish
<1>3. /\ \A q \in Requests \ {r} : req'[q] = req[q]
      /\ \/ HandlerRank(req'[r]) > HandlerRank(req[r]) /\ left' = left
         \/ req'[r] = req[r] /\ r \notin left /\ left' = left \cup {r}
  BY <1>1 DEF Arrive, Unreachable, HandlerStep, ShellStart, PumpsStart, WaitPumps, ShellFails,
              GiveUp, CallReturns, Respond, Ready, HandlerRank
<1> QED
  BY <1>2, <1>3 DEF HandlerAdvances

(* Publish, the handlers and the pumps: every step goes forward, and what  *)
(* streams do, subscribe, read, leave or never read, moves no request. No  *)
(* subscriber and no failing INSERT makes Publish start over, so a request *)
(* publishes in a bounded number of steps for each event.                  *)
THEOREM EveryStepAdvances == Spec => [][Advances]_vars
<1>1. ASSUME IInv, Next PROVE Advances
  <2>1. ASSUME NEW r \in Requests, Arrive(r) \/ Unreachable(r) \/ HandlerStep(r) PROVE Advances
    BY <1>1, <2>1, HandlerStepAdvances DEF Advances
  <2>2. ASSUME NEW r \in Requests, NEW g \in Goroutines, PublishStep(r, g) PROVE Advances
    BY <1>1, <2>2, PublishStepAdvances DEF Advances
  <2>3. ASSUME NEW r \in Requests, Disconnect(r) \/ PipesReleased(r) PROVE Advances
    BY <2>3 DEF Disconnect, PipesReleased, Advances
  <2>4. ASSUME NEW s \in Subs, Subscribe(s) \/ Read(s) \/ Cancel(s) PROVE Advances
    BY <2>4 DEF Subscribe, Read, Cancel, Advances
  <2> QED
    BY <1>1, <2>1, <2>2, <2>3, <2>4 DEF Next
<1>2. IInv /\ [Next]_vars => [Advances]_vars
  BY <1>1
<1> QED
  BY <1>2, SpecIInv, PTL DEF Spec
=============================================================================
