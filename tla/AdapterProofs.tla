---------------------------- MODULE AdapterProofs ----------------------------
(***************************************************************************)
(* Proofs about the two adapters, for any number of connections, processes *)
(* and callers: pb-os-adapter's process table, and the session of          *)
(* pb-mcp-bridge.                                                          *)
(***************************************************************************)
EXTENDS ProcessTable, McpBridge, TLAPS

-----------------------------------------------------------------------------
(* The process table.                                                      *)

TableSpec == TableInit /\ [][TableNext]_tableVars

How == {"none", "exit"} \cup Signals

RecType == [state : {"absent", "running", "exited"}, exit : How, done : BOOLEAN]

Listing == [is : {"list"}, running : SUBSET Procs, exited : SUBSET Procs]
WaitAnswer == [is : {"wait"}, exited : BOOLEAN, exit : How, timed_out : BOOLEAN]
SpawnAnswer == [is : {"spawn"}, proc : Procs]
SignalAnswer == [is : {"signal"}, sent : BOOLEAN]
OtherAnswer == {Invalid, Internal} \cup SignalAnswer
AnsType == Listing \cup WaitAnswer \cup SpawnAnswer \cup OtherAnswer \cup {<<>>}

CallType == [pc : {"idle", "dispatch", "spawned", "waiting", "late", "signal", "list",
                   "answered", "cut"},
             op : Ops \cup {"none"}, proc : 0..MaxProcs, known : SUBSET Procs,
             over : SUBSET Procs, todo : SUBSET Procs, ans : AnsType]

TableShape ==
  /\ os \in [Procs -> {"none", "alive", "zombie", "reaped"}]
  /\ how \in [Procs -> How] /\ pending \in [Procs -> SUBSET Signals]
  /\ rec \in [Procs -> RecType] /\ conn \in [Conns -> CallType]
  /\ adapter \in {"serving", "stopping", "gone"}

(* A process that has ended has an end, and its record, once written, is   *)
(* that end; waiters are woken with it.                                    *)
RecordsTrue ==
  \A p \in Procs :
    /\ os[p] = "none" => rec[p].state = "absent"
    /\ os[p] \in {"zombie", "reaped"} => how[p] # "none"
    /\ rec[p].state = "exited" => os[p] = "reaped" /\ rec[p].exit = how[p]
    /\ rec[p].done => rec[p].state = "exited"

(* A process that is not in the table yet is in one handler's hands.       *)
SpawnsDistinct ==
  \A c \in Conns : conn[c].pc = "spawned" =>
    /\ conn[c].proc \in Procs /\ os[conn[c].proc] # "none" /\ rec[conn[c].proc].state = "absent"
    /\ \A d \in Conns : conn[d].pc = "spawned" /\ conn[d].proc = conn[c].proc => d = c

(* What holds of a call.  Requests about a process have one ...            *)
NamesProc(k) ==
  /\ k.op \in Signals \cup {"wait", "wait_forever"} => k.proc \in Procs
  /\ k.pc \in {"waiting", "late"} => k.op \in {"wait", "wait_forever"}
  /\ k.pc = "signal" => k.op \in Signals
  /\ k.pc = "answered" => k.ans # <<>>

(* ... what a wait has answered is so ...                                  *)
WaitTold(k) ==
  k.ans \in WaitAnswer =>
    /\ k.pc = "answered" /\ k.proc \in Procs
    /\ k.ans.timed_out \/ k.ans.exited
    /\ k.ans.exited => os[k.proc] = "reaped" /\ k.ans.exit = how[k.proc]

(* ... a process that a client can know of is in the table, as long as     *)
(* there is one ...                                                        *)
InTable(p) == p \in Procs /\ rec[p].state # "absent"

KnownInTable(k) ==
  adapter # "gone" => /\ \A p \in k.known : InTable(p)
                      /\ \A p \in k.todo : InTable(p)
                      /\ k.ans \in SpawnAnswer => InTable(k.ans.proc)

(* ... and a listing has it or is about to look at it.                     *)
ListComplete(k) ==
  /\ k.pc = "list" => k.ans \in Listing
  /\ k.ans \in Listing => /\ k.pc \in {"list", "cut", "answered"}
                          /\ k.pc = "answered" => k.todo = {}
                          /\ k.known \subseteq k.todo \cup k.ans.running \cup k.ans.exited

(* A process told to have ended, before this call or by it, has its end in *)
(* the table, and no answer to a call that came after says otherwise.      *)
Over(p) == p \in Procs /\ rec[p].state = "exited"

OverInTable(k) ==
  adapter # "gone" => /\ \A p \in k.over : Over(p)
                      /\ k.ans \in WaitAnswer /\ k.ans.exited => Over(k.proc)
                      /\ k.ans \in Listing => \A p \in k.ans.exited : Over(p)

EndKept(k) ==
  /\ k.ans \in Listing => \A p \in k.over : p \notin k.ans.running
  /\ k.ans \in WaitAnswer /\ k.proc \in k.over => k.ans.exited
  /\ k.ans \in SignalAnswer => k.pc = "answered" /\ (k.proc \in k.over => ~k.ans.sent)

CallOK(k) == /\ NamesProc(k) /\ WaitTold(k) /\ KnownInTable(k) /\ ListComplete(k)
             /\ OverInTable(k) /\ EndKept(k)

(* The inductive invariant of the table.                                   *)
TableIInv == TableShape /\ RecordsTrue /\ SpawnsDistinct /\ \A c \in Conns : CallOK(conn[c])

(* The kinds of answer are told apart by what they are.                    *)
LEMMA AnswerKinds ==
  /\ \A a \in Listing : a.is = "list" /\ a # <<>>
  /\ \A a \in WaitAnswer : a.is = "wait" /\ a # <<>>
  /\ \A a \in SpawnAnswer : a.is = "spawn" /\ a # <<>>
  /\ \A a \in OtherAnswer : a.is \notin {"list", "wait", "spawn"} /\ a # <<>>
  /\ \A a \in SignalAnswer : a.is = "signal" /\ a # <<>>
  /\ Invalid \notin SignalAnswer /\ Internal \notin SignalAnswer
<1>1. \A a \in Listing : a.is = "list" /\ a # <<>>
  BY DEF Listing
<1>2. \A a \in WaitAnswer : a.is = "wait" /\ a # <<>>
  BY DEF WaitAnswer
<1>3. \A a \in SpawnAnswer : a.is = "spawn" /\ a # <<>>
  BY DEF SpawnAnswer
<1>4. \A a \in OtherAnswer : a.is \notin {"list", "wait", "spawn"} /\ a # <<>>
  BY DEF OtherAnswer, SignalAnswer, Invalid, Internal
<1>5. /\ \A a \in SignalAnswer : a.is = "signal" /\ a # <<>>
      /\ Invalid \notin SignalAnswer /\ Internal \notin SignalAnswer
  BY DEF SignalAnswer, Invalid, Internal
<1> QED
  BY <1>1, <1>2, <1>3, <1>4, <1>5

(* No process has been spawned.                                            *)
LEMMA TableInitIInv == TableInit => TableIInv
<1> SUFFICES ASSUME TableInit PROVE TableIInv
  OBVIOUS
<1>1. NoRecord \in RecType /\ NoRecord.state = "absent" /\ ~NoRecord.done
  BY DEF NoRecord, RecType, How
<1>2. <<>> \in AnsType
  BY DEF AnsType
<1>3. /\ NoCall \in CallType /\ NoCall.pc = "idle" /\ NoCall.op = "none" /\ NoCall.known = {}
      /\ NoCall.over = {} /\ NoCall.todo = {} /\ NoCall.ans = <<>>
  BY <1>2, TableAssumption DEF NoCall, CallType
<1>4. TableShape
  BY <1>1, <1>3 DEF TableInit, TableShape, How
<1>5. RecordsTrue
  BY <1>1 DEF TableInit, RecordsTrue
<1>6. SpawnsDistinct
  BY <1>3 DEF TableInit, SpawnsDistinct
<1>7. CallOK(NoCall)
  BY <1>2, <1>3, AnswerKinds DEF CallOK, NamesProc, WaitTold, KnownInTable, ListComplete, Signals,
          OverInTable, Over, EndKept
<1> QED
  BY <1>4, <1>5, <1>6, <1>7 DEF TableIInv, TableInit

(* What the rest of the system may do to a call that does nothing: ends    *)
(* stand, and nothing leaves the table while the adapter lives.            *)
Grows ==
  /\ \A p \in Procs : os[p] = "reaped" => os'[p] = "reaped" /\ how'[p] = how[p]
  /\ adapter' # "gone" => /\ adapter # "gone"
                          /\ \A p \in Procs :
                               /\ rec[p].state # "absent" => rec'[p].state # "absent"
                               /\ rec[p].state = "exited" => rec'[p].state = "exited"

(* Then what holds of a call goes on to hold.                              *)
LEMMA CallStays ==
  ASSUME Grows, NEW k \in CallType, CallOK(k)
  PROVE  CallOK(k)'
<1>1. NamesProc(k)' /\ ListComplete(k)' /\ EndKept(k)'
  BY DEF CallOK, NamesProc, ListComplete, EndKept
<1>2. WaitTold(k)'
  BY DEF CallOK, WaitTold, Grows
<1>3. KnownInTable(k)'
  BY DEF CallOK, KnownInTable, InTable, Grows
<1>4. OverInTable(k)'
  BY DEF CallOK, OverInTable, Over, Grows
<1> QED
  BY <1>1, <1>2, <1>3, <1>4 DEF CallOK

(* A call goes on: the invariant needs to be shown of that call only.      *)
LEMMA CallMoves ==
  ASSUME TableIInv, NEW c \in Conns, NEW N \in CallType, conn' = [conn EXCEPT ![c] = N],
         Grows, CallOK(N)', SpawnsDistinct', RecordsTrue',
         os' \in [Procs -> {"none", "alive", "zombie", "reaped"}], how' = how,
         pending' \in [Procs -> SUBSET Signals], rec' \in [Procs -> RecType], adapter' = adapter
  PROVE  TableIInv'
<1>1. conn \in [Conns -> CallType]
  BY DEF TableIInv, TableShape
<1>2. /\ conn' \in [Conns -> CallType] /\ conn'[c] = N
      /\ \A d \in Conns : d # c => conn'[d] = conn[d]
  BY <1>1
<1>3. TableShape'
  BY <1>2 DEF TableIInv, TableShape
<1>4. ASSUME NEW d \in Conns PROVE CallOK(conn[d])'
  <2>1. CASE d = c
    <3>1. conn'[d] = N
      BY <1>2, <2>1
    <3> QED
      BY <3>1 DEF CallOK, NamesProc, WaitTold, KnownInTable, ListComplete, InTable,
          OverInTable, Over, EndKept
  <2>2. CASE d # c
    <3> DEFINE k == conn[d]
    <3>1. k \in CallType /\ CallOK(k)
      BY <1>1 DEF TableIInv
    <3>2. ASSUME NEW j \in CallType, CallOK(j), j = conn'[d] PROVE CallOK(conn[d])'
      <4>1. CallOK(j)'
        BY <3>2, CallStays
      <4> QED
        BY <3>2, <4>1 DEF CallOK, NamesProc, WaitTold, KnownInTable, ListComplete, InTable,
          OverInTable, Over, EndKept
    <3> QED
      BY <1>2, <2>2, <3>1, <3>2
  <2> QED
    BY <2>1, <2>2
<1> QED
  BY <1>3, <1>4 DEF TableIInv
-----------------------------------------------------------------------------
(* Steps of a handler that touch nothing but its own call, and signals.    *)
LEMMA OwnStep ==
  ASSUME TableIInv, NEW c \in Conns, NEW N \in CallType, conn' = [conn EXCEPT ![c] = N],
         N.pc # "spawned", CallOK(N),
         pending' \in [Procs -> SUBSET Signals], UNCHANGED <<os, how, rec, adapter>>
  PROVE  TableIInv'
<1>1. /\ conn \in [Conns -> CallType] /\ os \in [Procs -> {"none", "alive", "zombie", "reaped"}]
      /\ rec \in [Procs -> RecType]
  BY DEF TableIInv, TableShape
<1>2. Grows
  BY DEF Grows
<1>3. CallOK(N)'
  BY <1>2, CallStays
<1>4. conn'[c] = N /\ \A d \in Conns : d # c => conn'[d] = conn[d]
  BY <1>1
<1>5. SpawnsDistinct'
  BY <1>4 DEF TableIInv, SpawnsDistinct
<1>6. RecordsTrue'
  BY DEF TableIInv, RecordsTrue
<1> QED
  BY <1>1, <1>2, <1>3, <1>5, <1>6, CallMoves

(* A handler answers: neither a listing nor a spawn.                       *)
LEMMA AnswerIInv ==
  ASSUME TableIInv, NEW c \in Conns, NEW ans \in WaitAnswer \cup OtherAnswer, Answer(c, ans),
         ans \in WaitAnswer =>
           /\ conn[c].proc \in Procs
           /\ ans.timed_out \/ ans.exited
           /\ ans.exited => /\ os[conn[c].proc] = "reaped" /\ ans.exit = how[conn[c].proc]
                            /\ Over(conn[c].proc),
         conn[c].proc \in conn[c].over => /\ ans \in WaitAnswer => ans.exited
                                          /\ ans \in SignalAnswer => ~ans.sent,
         pending' \in [Procs -> SUBSET Signals], UNCHANGED <<os, how, rec, adapter>>
  PROVE  TableIInv'
<1> DEFINE N == [conn[c] EXCEPT !.pc = "answered", !.ans = ans]
<1>1. conn \in [Conns -> CallType] /\ conn[c] \in CallType /\ CallOK(conn[c])
  BY DEF TableIInv, TableShape
<1>2. ans \in AnsType /\ ans \notin Listing /\ ans \notin SpawnAnswer /\ ans # <<>>
  BY AnswerKinds DEF AnsType
<1>3. /\ N \in CallType /\ N.pc = "answered" /\ N.ans = ans /\ N.op = conn[c].op
      /\ N.proc = conn[c].proc /\ N.known = conn[c].known /\ N.over = conn[c].over
      /\ N.todo = conn[c].todo
  BY <1>1, <1>2 DEF CallType
<1>4. conn' = [conn EXCEPT ![c] = N]
  BY <1>1 DEF Answer
<1> HIDE DEF N
<1>5. NamesProc(N) /\ WaitTold(N) /\ ListComplete(N)
  BY <1>1, <1>2, <1>3 DEF CallOK, NamesProc, WaitTold, ListComplete
<1>6. KnownInTable(N) /\ OverInTable(N)
  BY <1>1, <1>2, <1>3 DEF CallOK, KnownInTable, OverInTable
<1>7. EndKept(N)
  BY <1>2, <1>3 DEF EndKept
<1> QED
  BY <1>3, <1>4, <1>5, <1>6, <1>7, OwnStep DEF CallOK

(* A handler goes on to wait, or to send a signal.                         *)
LEMMA GoIInv ==
  ASSUME TableIInv, NEW c \in Conns, NEW at \in {"waiting", "late", "signal"}, Go(c, at),
         conn[c].pc \in {"dispatch", "waiting"},
         at = "signal" => conn[c].op \in Signals,
         at # "signal" => conn[c].op \in {"wait", "wait_forever"},
         UNCHANGED <<os, how, pending, rec, adapter>>
  PROVE  TableIInv'
<1> DEFINE N == [conn[c] EXCEPT !.pc = at]
<1>1. /\ conn \in [Conns -> CallType] /\ conn[c] \in CallType /\ CallOK(conn[c])
      /\ pending \in [Procs -> SUBSET Signals]
  BY DEF TableIInv, TableShape
<1>2. /\ N \in CallType /\ N.pc = at /\ N.ans = conn[c].ans /\ N.op = conn[c].op
      /\ N.proc = conn[c].proc /\ N.known = conn[c].known /\ N.over = conn[c].over
      /\ N.todo = conn[c].todo
  BY <1>1 DEF CallType
<1>3. conn' = [conn EXCEPT ![c] = N]
  BY <1>1 DEF Go
<1> HIDE DEF N
<1>4. conn[c].ans \notin Listing /\ conn[c].ans \notin SignalAnswer /\ conn[c].ans \notin WaitAnswer
  BY <1>1 DEF CallOK, ListComplete, EndKept, WaitTold
<1>5. NamesProc(N) /\ WaitTold(N) /\ ListComplete(N)
  BY <1>1, <1>2, <1>4 DEF CallOK, NamesProc, WaitTold, ListComplete
<1>6. KnownInTable(N) /\ OverInTable(N)
  BY <1>1, <1>2, <1>4 DEF CallOK, KnownInTable, OverInTable
<1>7. EndKept(N)
  BY <1>2, <1>4 DEF EndKept
<1> QED
  BY <1>1, <1>2, <1>3, <1>5, <1>6, <1>7, OwnStep DEF CallOK

(* A request arrives; its client knows only of processes in the table.     *)
LEMMA HandleConnIInv ==
  ASSUME TableIInv, NEW c \in Conns, HandleConn(c)
  PROVE  TableIInv'
<1>1. /\ conn \in [Conns -> CallType] /\ pending \in [Procs -> SUBSET Signals]
      /\ adapter # "gone" /\ MaxProcs \in Nat
  BY TableAssumption DEF TableIInv, TableShape, HandleConn
<1>2. PICK op \in Ops, p \in Procs :
        conn' = [conn EXCEPT ![c] = [NoCall EXCEPT !.pc = "dispatch", !.op = op,
                                                  !.known = Answered, !.over = ToldOver,
                                                  !.proc = IF op \in {"list", "spawn"} THEN 0 ELSE p]]
  BY DEF HandleConn
<1> DEFINE x == IF op \in {"list", "spawn"} THEN 0 ELSE p
           N == [NoCall EXCEPT !.pc = "dispatch", !.op = op, !.known = Answered,
                               !.over = ToldOver, !.proc = x]
<1>3. x \in 0..MaxProcs /\ (op \notin {"list", "spawn"} => x \in Procs)
  BY <1>1 DEF Procs
<1>4. \A q \in Answered : InTable(q)
  <2> SUFFICES ASSUME NEW d \in Conns, conn[d].pc = "answered", conn[d].ans.is = "spawn"
               PROVE  InTable(conn[d].ans.proc)
    BY DEF Answered
  <2>1. conn[d].ans \in AnsType /\ CallOK(conn[d])
    BY <1>1 DEF TableIInv, CallType
  <2>2. conn[d].ans \in SpawnAnswer
    BY <2>1, AnswerKinds DEF AnsType, CallOK, NamesProc
  <2> QED
    BY <1>1, <2>1, <2>2 DEF CallOK, KnownInTable
<1>5. Answered \in SUBSET Procs
  BY <1>4 DEF InTable
<1>6. <<>> \in AnsType
  BY DEF AnsType
<1>a. ToldOver \in SUBSET Procs
  BY DEF ToldOver
<1>b. \A q \in ToldOver : rec[q].state = "exited"
  <2> SUFFICES ASSUME NEW q \in Procs, NEW d \in Conns, conn[d].pc = "answered",
                      \/ conn[d].ans.is = "wait" /\ conn[d].proc = q /\ conn[d].ans.exited
                      \/ conn[d].ans.is = "list" /\ q \in conn[d].ans.exited
               PROVE  rec[q].state = "exited"
    BY DEF ToldOver
  <2>1. conn[d].ans \in AnsType /\ CallOK(conn[d])
    BY <1>1 DEF TableIInv, CallType
  <2>2. /\ conn[d].ans.is = "wait" => conn[d].ans \in WaitAnswer
        /\ conn[d].ans.is = "list" => conn[d].ans \in Listing
    BY <2>1, AnswerKinds DEF AnsType, CallOK, NamesProc
  <2> QED
    BY <1>1, <2>1, <2>2 DEF CallOK, OverInTable, Over
<1>7. conn' = [conn EXCEPT ![c] = N]
  BY <1>2
<1> HIDE DEF x
<1>8. /\ N \in CallType /\ N.pc = "dispatch" /\ N.op = op /\ N.proc = x /\ N.known = Answered
      /\ N.over = ToldOver /\ N.todo = {} /\ N.ans = <<>>
  BY <1>3, <1>5, <1>6, <1>a DEF NoCall, CallType
<1> HIDE DEF N
<1>9. NamesProc(N) /\ WaitTold(N) /\ ListComplete(N)
  BY <1>3, <1>6, <1>8, AnswerKinds DEF NamesProc, WaitTold, ListComplete, Signals
<1>10. KnownInTable(N)
  BY <1>4, <1>6, <1>8, AnswerKinds DEF KnownInTable
<1>11. OverInTable(N) /\ EndKept(N)
  BY <1>8, <1>a, <1>b, AnswerKinds DEF OverInTable, EndKept, Over, OtherAnswer
<1> QED
  BY <1>1, <1>7, <1>8, <1>9, <1>10, <1>11, OwnStep DEF CallOK, HandleConn

(* cmd.Start: the next process is in this handler's hands.                 *)
LEMMA SpawnIInv ==
  ASSUME TableIInv, NEW c \in Conns, Spawn(c)
  PROVE  TableIInv'
<1>1. /\ conn \in [Conns -> CallType] /\ conn[c] \in CallType /\ CallOK(conn[c])
      /\ os \in [Procs -> {"none", "alive", "zombie", "reaped"}] /\ rec \in [Procs -> RecType]
      /\ pending \in [Procs -> SUBSET Signals] /\ conn[c].pc = "dispatch" /\ conn[c].op = "spawn"
      /\ RecordsTrue /\ SpawnsDistinct
  BY DEF TableIInv, TableShape, Spawn, At
<1>2. PICK p \in Procs : /\ os[p] = "none" /\ os' = [os EXCEPT ![p] = "alive"]
                         /\ conn' = [conn EXCEPT ![c].pc = "spawned", ![c].proc = p]
  BY DEF Spawn
<1>3. UNCHANGED <<how, pending, rec, adapter>>
  BY DEF Spawn
<1>4. PICK N \in CallType :
        /\ conn' = [conn EXCEPT ![c] = N] /\ N.pc = "spawned" /\ N.proc = p /\ N.ans = conn[c].ans
        /\ N.op = conn[c].op /\ N.known = conn[c].known /\ N.over = conn[c].over /\ N.todo = conn[c].todo
  <2> DEFINE M == [conn[c] EXCEPT !.pc = "spawned", !.proc = p]
  <2>1. p \in 0..MaxProcs
    BY DEF Procs
  <2>2. /\ M \in CallType /\ M.pc = "spawned" /\ M.proc = p /\ M.ans = conn[c].ans
        /\ M.op = conn[c].op /\ M.known = conn[c].known /\ M.over = conn[c].over /\ M.todo = conn[c].todo
    BY <1>1, <2>1 DEF CallType
  <2>3. conn' = [conn EXCEPT ![c] = M]
    BY <1>1, <1>2
  <2> QED
    BY <2>2, <2>3
<1>6. Grows
  BY <1>1, <1>2, <1>3 DEF Grows
<1>7. CallOK(N)'
  <2>1. conn[c].ans \notin Listing \cup WaitAnswer \cup SignalAnswer
    BY <1>1 DEF CallOK, ListComplete, WaitTold, EndKept
  <2>2. NamesProc(N)' /\ ListComplete(N)' /\ WaitTold(N)'
    BY <1>1, <1>4, <2>1 DEF NamesProc, ListComplete, WaitTold, Signals
  <2>3. KnownInTable(N)'
    BY <1>1, <1>3, <1>4 DEF CallOK, KnownInTable, InTable
  <2>4. OverInTable(N)' /\ EndKept(N)'
    BY <1>1, <1>3, <1>4, <2>1 DEF CallOK, OverInTable, Over, EndKept
  <2> QED
    BY <2>2, <2>3, <2>4 DEF CallOK
<1>8. conn'[c] = N /\ \A d \in Conns : d # c => conn'[d] = conn[d]
  BY <1>1, <1>4
<1>9. RecordsTrue'
  BY <1>1, <1>2, <1>3 DEF RecordsTrue
<1>10. SpawnsDistinct'
  <2>1. rec[p].state = "absent" /\ \A d \in Conns : conn[d].pc = "spawned" => conn[d].proc # p
    BY <1>1, <1>2 DEF RecordsTrue, SpawnsDistinct
  <2>2. \A q \in Procs : os[q] # "none" => os'[q] # "none"
    BY <1>1, <1>2
  <2>3. os'[p] # "none"
    BY <1>1, <1>2
  <2> QED
    BY <1>1, <1>3, <1>4, <1>8, <2>1, <2>2, <2>3 DEF SpawnsDistinct
<1> QED
  BY <1>1, <1>2, <1>3, <1>4, <1>6, <1>7, <1>9, <1>10, CallMoves

(* The record enters the table and spawn is answered.                      *)
LEMMA InsertIInv ==
  ASSUME TableIInv, NEW c \in Conns, Insert(c)
  PROVE  TableIInv'
<1> DEFINE p == conn[c].proc
           a == [is |-> "spawn", proc |-> p]
           R == [rec[p] EXCEPT !.state = "running"]
<1>1. /\ conn \in [Conns -> CallType] /\ conn[c] \in CallType /\ CallOK(conn[c])
      /\ os \in [Procs -> {"none", "alive", "zombie", "reaped"}] /\ rec \in [Procs -> RecType]
      /\ pending \in [Procs -> SUBSET Signals] /\ conn[c].pc = "spawned"
      /\ RecordsTrue /\ SpawnsDistinct
  BY DEF TableIInv, TableShape, Insert, At
<1>2. p \in Procs /\ os[p] # "none" /\ rec[p].state = "absent"
  BY <1>1 DEF SpawnsDistinct
<1>3. a \in SpawnAnswer /\ a.proc = p /\ a \in AnsType /\ a # <<>>
      /\ a \notin Listing /\ a \notin WaitAnswer /\ a \notin SignalAnswer
  <2>1. a \in SpawnAnswer /\ a.proc = p
    BY <1>2 DEF SpawnAnswer
  <2> QED
    BY <2>1, AnswerKinds DEF AnsType
<1>4. R \in RecType /\ R.state = "running" /\ R.done = rec[p].done
  BY <1>1, <1>2 DEF RecType
<1>5. /\ conn' = [conn EXCEPT ![c] = [conn[c] EXCEPT !.pc = "answered", !.ans = a]]
      /\ rec' = [rec EXCEPT ![p] = R]
      /\ UNCHANGED <<os, how, pending, adapter>>
  BY <1>1, <1>2 DEF Insert, Answer
<1> HIDE DEF a, R
<1>6. PICK N \in CallType :
        /\ conn' = [conn EXCEPT ![c] = N] /\ N.pc = "answered" /\ N.proc = p /\ N.ans = a
        /\ N.op = conn[c].op /\ N.known = conn[c].known /\ N.over = conn[c].over /\ N.todo = conn[c].todo
  <2> DEFINE M == [conn[c] EXCEPT !.pc = "answered", !.ans = a]
  <2>1. /\ M \in CallType /\ M.pc = "answered" /\ M.proc = p /\ M.ans = a
        /\ M.op = conn[c].op /\ M.known = conn[c].known /\ M.over = conn[c].over /\ M.todo = conn[c].todo
    BY <1>1, <1>3 DEF CallType
  <2> QED
    BY <1>5, <2>1
<1>7. /\ rec' \in [Procs -> RecType] /\ rec'[p] = R /\ \A q \in Procs : q # p => rec'[q] = rec[q]
      /\ conn'[c] = N /\ \A d \in Conns : d # c => conn'[d] = conn[d]
  BY <1>1, <1>2, <1>4, <1>5, <1>6
<1>8. Grows
  BY <1>2, <1>4, <1>5, <1>7 DEF Grows
<1>9. CallOK(N)'
  <2>1. NamesProc(N)' /\ ListComplete(N)' /\ WaitTold(N)'
    BY <1>1, <1>3, <1>6 DEF CallOK, NamesProc, ListComplete, WaitTold
  <2>2. KnownInTable(N)'
    BY <1>1, <1>2, <1>3, <1>4, <1>5, <1>6, <1>7 DEF CallOK, KnownInTable, InTable
  <2>3. OverInTable(N)' /\ EndKept(N)'
    BY <1>1, <1>2, <1>3, <1>5, <1>6, <1>7 DEF CallOK, OverInTable, Over, EndKept
  <2> QED
    BY <2>1, <2>2, <2>3 DEF CallOK
<1>10. RecordsTrue'
  BY <1>1, <1>2, <1>4, <1>5, <1>7 DEF RecordsTrue
<1>11. SpawnsDistinct'
  BY <1>1, <1>5, <1>6, <1>7 DEF SpawnsDistinct
<1> QED
  BY <1>1, <1>5, <1>6, <1>7, <1>8, <1>9, <1>10, <1>11, CallMoves

(* What wait answers from a record: if it ended, how it ended.             *)
LEMMA WaitResultTrue ==
  ASSUME TableIInv, NEW p \in Procs, NEW late \in BOOLEAN
  PROVE  LET a == WaitResult(p, late)
         IN  /\ a \in WaitAnswer /\ a.timed_out = late
             /\ a.exited = (rec[p].state = "exited")
             /\ a.exited => os[p] = "reaped" /\ a.exit = how[p]
<1>1. rec[p] \in RecType /\ RecordsTrue
  BY DEF TableIInv, TableShape
<1>2. rec[p].exit \in How /\ (rec[p].state = "exited") \in BOOLEAN
  BY <1>1 DEF RecType
<1>3. WaitResult(p, late) \in WaitAnswer
  BY <1>2 DEF WaitResult, WaitAnswer
<1>4. /\ WaitResult(p, late).timed_out = late /\ WaitResult(p, late).exit = rec[p].exit
      /\ WaitResult(p, late).exited = (rec[p].state = "exited")
  BY DEF WaitResult
<1> QED
  BY <1>1, <1>3, <1>4 DEF RecordsTrue

(* process.wait.                                                           *)
LEMMA WaitIInv ==
  ASSUME TableIInv, NEW c \in Conns,
         WaitGet(c) \/ WaitDone(c) \/ WaitTimer(c) \/ WaitLate(c) \/ WaitCancelled(c)
  PROVE  TableIInv'
<1>1. /\ pending \in [Procs -> SUBSET Signals] /\ UNCHANGED <<os, how, pending, rec, adapter>>
  BY DEF TableIInv, TableShape, WaitGet, WaitDone, WaitTimer, WaitLate, WaitCancelled
<1>2. /\ conn[c].pc \in {"dispatch", "waiting", "late"} /\ conn[c].op \in {"wait", "wait_forever"}
      /\ conn[c].proc \in Procs
  BY DEF TableIInv, CallOK, NamesProc, WaitGet, WaitDone, WaitTimer, WaitLate, WaitCancelled, At
<1>3. Invalid \in OtherAnswer /\ Internal \in OtherAnswer
  BY DEF OtherAnswer
<1>4. /\ \A a \in OtherAnswer : a \notin WaitAnswer
      /\ \A a \in WaitAnswer : a \notin SignalAnswer
      /\ Invalid \notin SignalAnswer /\ Internal \notin SignalAnswer
  BY AnswerKinds
<1>a. conn[c].proc \in conn[c].over => rec[conn[c].proc].state = "exited"
  BY DEF TableIInv, CallOK, OverInTable, Over, WaitGet, WaitDone, WaitTimer, WaitLate, WaitCancelled, At
<1>5. \/ Answer(c, Invalid)
      \/ Answer(c, Internal)
      \/ Answer(c, WaitResult(conn[c].proc, FALSE)) /\ rec[conn[c].proc].state = "exited"
      \/ Answer(c, WaitResult(conn[c].proc, TRUE))
      \/ Go(c, "waiting") /\ conn[c].pc = "dispatch"
      \/ Go(c, "late") /\ conn[c].pc = "waiting"
  <2>1. CASE WaitGet(c)
    BY <2>1, Zenon DEF WaitGet, At
  <2>2. CASE WaitDone(c)
    BY <1>2, <2>2 DEF WaitDone, TableIInv, RecordsTrue
  <2> QED
    BY <2>1, <2>2 DEF WaitTimer, WaitLate, WaitCancelled, At
<1>6. CASE Answer(c, Invalid) \/ Answer(c, Internal)
  BY <1>1, <1>3, <1>4, <1>6, AnswerIInv
<1>7. CASE Answer(c, WaitResult(conn[c].proc, FALSE)) /\ rec[conn[c].proc].state = "exited"
  BY <1>1, <1>2, <1>4, <1>7, AnswerIInv, WaitResultTrue DEF Over
<1>8. CASE Answer(c, WaitResult(conn[c].proc, TRUE))
  BY <1>1, <1>2, <1>4, <1>8, <1>a, AnswerIInv, WaitResultTrue DEF Over
<1>9. CASE \/ Go(c, "waiting") /\ conn[c].pc = "dispatch"
           \/ Go(c, "late") /\ conn[c].pc = "waiting"
  BY <1>1, <1>2, <1>9, GoIInv
<1> QED
  BY <1>5, <1>6, <1>7, <1>8, <1>9

(* process.terminate and process.kill.                                     *)
LEMMA SignalIInv ==
  ASSUME TableIInv, NEW c \in Conns, SignalGet(c) \/ SendSignal(c) \/ SignalRefused(c)
  PROVE  TableIInv'
<1>1. /\ pending \in [Procs -> SUBSET Signals] /\ UNCHANGED <<os, how, rec, adapter>>
      /\ conn[c].op \in Signals /\ conn[c].proc \in Procs
  BY DEF TableIInv, TableShape, CallOK, NamesProc, SignalGet, SendSignal, SignalRefused, At
<1>2. /\ Invalid \in OtherAnswer /\ Internal \in OtherAnswer
      /\ \A b \in BOOLEAN : Sent(b) \in OtherAnswer /\ Sent(b).sent = b
  BY DEF OtherAnswer, SignalAnswer, Sent
<1>3. /\ \A a \in OtherAnswer : a \notin WaitAnswer
      /\ Invalid \notin SignalAnswer /\ Internal \notin SignalAnswer
  BY AnswerKinds
<1>4. CASE SignalGet(c)
  <2>1. /\ UNCHANGED pending /\ conn[c].pc = "dispatch"
        /\ Answer(c, Invalid) \/ Answer(c, Sent(FALSE)) \/ Go(c, "signal")
    BY <1>4, Zenon DEF SignalGet, At
  <2>2. CASE Answer(c, Invalid) \/ Answer(c, Sent(FALSE))
    BY <1>1, <1>2, <1>3, <2>1, <2>2, AnswerIInv
  <2>3. CASE Go(c, "signal")
    BY <1>1, <2>1, <2>3, GoIInv
  <2> QED
    BY <2>1, <2>2, <2>3
<1>5. CASE SendSignal(c)
  <2>1. pending' \in [Procs -> SUBSET Signals]
    BY ZenonT(60), <1>1, <1>5 DEF SendSignal
  <2>2. \/ Answer(c, Sent(FALSE))
        \/ Answer(c, Sent(TRUE)) /\ os[conn[c].proc] # "reaped"
    BY <1>5 DEF SendSignal
  <2>3. os[conn[c].proc] # "reaped" => conn[c].proc \notin conn[c].over
    BY <1>1, <1>5 DEF TableIInv, RecordsTrue, CallOK, OverInTable, Over, SendSignal, At
  <2> QED
    BY <1>1, <1>2, <1>3, <2>1, <2>2, <2>3, AnswerIInv
<1>6. CASE SignalRefused(c)
  <2>1. UNCHANGED pending /\ Answer(c, Internal)
    BY <1>6 DEF SignalRefused
  <2> QED
    BY <1>1, <1>2, <1>3, <2>1, AnswerIInv
<1> QED
  BY <1>4, <1>5, <1>6

(* process.list: every known process is among the records looked at.       *)
LEMMA ListIInv ==
  ASSUME TableIInv, NEW c \in Conns, ListRecords(c) \/ Summarize(c) \/ ListAnswer(c)
  PROVE  TableIInv'
<1>1. /\ conn \in [Conns -> CallType] /\ conn[c] \in CallType /\ CallOK(conn[c])
      /\ pending \in [Procs -> SUBSET Signals] /\ adapter # "gone"
      /\ UNCHANGED <<os, how, pending, rec, adapter>>
  BY DEF TableIInv, TableShape, ListRecords, Summarize, ListAnswer, At
<1>2. (\A p \in conn[c].known : InTable(p)) /\ (\A p \in conn[c].over : Over(p))
  BY <1>1 DEF CallOK, KnownInTable, OverInTable
<1>3. CASE ListRecords(c)
  <2> DEFINE T == {p \in Procs : rec[p].state # "absent"}
             a == [is |-> "list", running |-> {}, exited |-> {}]
             N == [conn[c] EXCEPT !.pc = "list", !.todo = T, !.ans = a]
  <2>1. a \in Listing /\ a \in AnsType /\ a.running = {} /\ a.exited = {}
    BY DEF Listing, AnsType
  <2>2. a \notin WaitAnswer /\ a \notin SpawnAnswer /\ a \notin SignalAnswer
    BY <2>1, AnswerKinds
  <2>3. T \in SUBSET Procs /\ (\A p \in T : InTable(p)) /\ conn[c].known \subseteq T
    BY <1>2 DEF InTable
  <2>4. conn' = [conn EXCEPT ![c] = N] /\ conn[c].op = "list"
    BY <1>1, <1>3 DEF ListRecords
  <2> HIDE DEF T, a
  <2>5. /\ N \in CallType /\ N.pc = "list" /\ N.todo = T /\ N.ans = a /\ N.op = conn[c].op
        /\ N.proc = conn[c].proc /\ N.known = conn[c].known /\ N.over = conn[c].over
    BY <1>1, <2>1, <2>3 DEF CallType
  <2> HIDE DEF N
  <2>6. NamesProc(N) /\ WaitTold(N) /\ ListComplete(N)
    BY <2>1, <2>2, <2>3, <2>4, <2>5 DEF NamesProc, WaitTold, ListComplete, Signals
  <2>7. KnownInTable(N)
    BY <1>2, <2>2, <2>3, <2>5 DEF KnownInTable
  <2>8. OverInTable(N) /\ EndKept(N)
    BY <1>2, <2>1, <2>2, <2>5 DEF OverInTable, EndKept
  <2> QED
    BY <1>1, <2>4, <2>5, <2>6, <2>7, <2>8, OwnStep DEF CallOK
<1>4. CASE Summarize(c)
  <2>1. PICK p \in conn[c].todo :
          conn' = [conn EXCEPT ![c].todo = @ \ {p},
                               ![c].ans.running = IF rec[p].state = "running" THEN @ \cup {p} ELSE @,
                               ![c].ans.exited = IF rec[p].state = "exited" THEN @ \cup {p} ELSE @]
    BY <1>4 DEF Summarize
  <2>2. /\ conn[c].pc = "list" /\ conn[c].ans \in Listing /\ p \in Procs /\ InTable(p)
        /\ conn[c].known \subseteq conn[c].todo \cup conn[c].ans.running \cup conn[c].ans.exited
    BY <1>1, <1>4 DEF Summarize, At, CallOK, ListComplete, KnownInTable, InTable
  <2> DEFINE u == IF rec[p].state = "running" THEN conn[c].ans.running \cup {p} ELSE conn[c].ans.running
             e == IF rec[p].state = "exited" THEN conn[c].ans.exited \cup {p} ELSE conn[c].ans.exited
             a == [conn[c].ans EXCEPT !.running = u, !.exited = e]
             T == conn[c].todo \ {p}
             N == [conn[c] EXCEPT !.todo = T, !.ans = a]
  <2>3. /\ u \in SUBSET Procs /\ e \in SUBSET Procs /\ T \in SUBSET Procs /\ T \subseteq conn[c].todo
        /\ conn[c].known \subseteq T \cup u \cup e
    <3>1. conn[c].ans.running \in SUBSET Procs /\ conn[c].ans.exited \in SUBSET Procs
      BY <2>2 DEF Listing
    <3>2. rec[p].state \in {"running", "exited"}
      BY <2>2 DEF InTable, TableIInv, TableShape, RecType
    <3>3. conn[c].todo \in SUBSET Procs
      BY <1>1 DEF CallType
    <3> QED
      BY <2>2, <3>1, <3>2, <3>3
  <2>4. conn' = [conn EXCEPT ![c] = N]
    BY ZenonT(60), <1>1, <2>1, <2>2 DEF CallType, Listing
  <2> HIDE DEF u, e
  <2>5. a \in Listing /\ a.running = u /\ a.exited = e
    BY <2>2, <2>3 DEF Listing
  <2>a. (\A q \in e : Over(q)) /\ (\A q \in conn[c].over : q \notin u)
    <3>1. /\ \A q \in conn[c].ans.exited : Over(q)
          /\ \A q \in conn[c].over : q \notin conn[c].ans.running
      BY <1>1, <2>2 DEF CallOK, OverInTable, EndKept
    <3> QED
      BY <1>2, <2>2, <3>1 DEF u, e, Over
  <2>6. a \in AnsType /\ a \notin WaitAnswer /\ a \notin SpawnAnswer /\ a \notin SignalAnswer
    BY <2>5, AnswerKinds DEF AnsType
  <2> HIDE DEF a, T
  <2>7. /\ N \in CallType /\ N.pc = "list" /\ N.todo = T /\ N.ans = a /\ N.op = conn[c].op
        /\ N.proc = conn[c].proc /\ N.known = conn[c].known /\ N.over = conn[c].over
    BY <1>1, <2>2, <2>3, <2>6 DEF CallType
  <2> HIDE DEF N
  <2>8. NamesProc(N) /\ WaitTold(N) /\ ListComplete(N)
    BY <1>1, <2>3, <2>5, <2>6, <2>7 DEF CallOK, NamesProc, WaitTold, ListComplete
  <2>9. KnownInTable(N)
    BY <1>1, <1>2, <2>3, <2>6, <2>7 DEF CallOK, KnownInTable
  <2>10. OverInTable(N) /\ EndKept(N)
    BY <1>2, <2>5, <2>6, <2>7, <2>a DEF OverInTable, EndKept
  <2> QED
    BY <1>1, <2>4, <2>7, <2>8, <2>9, <2>10, OwnStep DEF CallOK
<1>5. CASE ListAnswer(c)
  <2> DEFINE N == [conn[c] EXCEPT !.pc = "answered"]
  <2>1. conn[c].pc = "list" /\ conn[c].todo = {} /\ conn[c].ans \in Listing
    BY <1>1, <1>5 DEF ListAnswer, At, CallOK, ListComplete
  <2>2. conn[c].ans # <<>> /\ conn[c].ans \notin WaitAnswer /\ conn[c].ans \notin SignalAnswer
    BY <2>1, AnswerKinds
  <2>3. conn' = [conn EXCEPT ![c] = N]
    BY <1>1, <1>5 DEF ListAnswer, Go
  <2>4. /\ N \in CallType /\ N.pc = "answered" /\ N.todo = conn[c].todo /\ N.ans = conn[c].ans
        /\ N.op = conn[c].op /\ N.proc = conn[c].proc /\ N.known = conn[c].known /\ N.over = conn[c].over
    BY <1>1 DEF CallType
  <2> HIDE DEF N
  <2>5. NamesProc(N) /\ WaitTold(N) /\ ListComplete(N)
    BY <1>1, <2>1, <2>2, <2>4 DEF CallOK, NamesProc, WaitTold, ListComplete
  <2>6. KnownInTable(N) /\ OverInTable(N) /\ EndKept(N)
    BY <1>1, <2>2, <2>4 DEF CallOK, KnownInTable, OverInTable, EndKept
  <2> QED
    BY <1>1, <2>3, <2>4, <2>5, <2>6, OwnStep DEF CallOK
<1> QED
  BY <1>3, <1>4, <1>5

-----------------------------------------------------------------------------
(* Processes and their reapers: the calls do nothing.                      *)
LEMMA ProcessIInv ==
  ASSUME TableIInv, NEW p \in Procs,
         WaitReturns(p) \/ Reap(p) \/ \E by \in Signals \cup {"exit"} : Ends(p, by)
  PROVE  TableIInv'
<1>1. /\ os \in [Procs -> {"none", "alive", "zombie", "reaped"}] /\ rec \in [Procs -> RecType]
      /\ how \in [Procs -> How] /\ conn \in [Conns -> CallType] /\ RecordsTrue /\ SpawnsDistinct
  BY DEF TableIInv, TableShape
<1>2. UNCHANGED <<pending, conn, adapter>>
  BY DEF WaitReturns, Reap, Ends
<1>3. ASSUME TableShape', RecordsTrue', SpawnsDistinct', Grows PROVE TableIInv'
  <2>1. ASSUME NEW c \in Conns PROVE CallOK(conn[c])'
    <3>1. ASSUME NEW k \in CallType, CallOK(k), k = conn[c] PROVE CallOK(conn[c])'
      <4>1. CallOK(k)' /\ conn'[c] = k
        BY <1>2, <1>3, <3>1, CallStays
      <4> QED
        BY <4>1 DEF CallOK, NamesProc, WaitTold, KnownInTable, ListComplete, InTable,
          OverInTable, Over, EndKept
    <3> QED
      BY <1>1, <3>1 DEF TableIInv
  <2> QED
    BY <1>3, <2>1 DEF TableIInv
<1>4. CASE WaitReturns(p)
  <2>1. /\ os[p] = "zombie" /\ os' = [os EXCEPT ![p] = "reaped"] /\ UNCHANGED <<how, rec>>
    BY <1>4 DEF WaitReturns
  <2>2. TableShape'
    BY <1>2, <2>1 DEF TableIInv, TableShape
  <2>3. RecordsTrue' /\ Grows
    BY <1>1, <1>2, <2>1 DEF RecordsTrue, Grows
  <2>4. SpawnsDistinct'
    BY <1>1, <1>2, <2>1 DEF SpawnsDistinct
  <2> QED
    BY <1>3, <2>2, <2>3, <2>4
<1>5. CASE Reap(p)
  <2> DEFINE R == [state |-> "exited", exit |-> how[p], done |-> TRUE]
  <2>1. /\ os[p] = "reaped" /\ rec[p].state = "running" /\ rec' = [rec EXCEPT ![p] = R]
        /\ UNCHANGED <<os, how>>
    BY <1>5 DEF Reap
  <2>2. R \in RecType /\ R.state = "exited" /\ R.exit = how[p] /\ R.done
    BY <1>1 DEF RecType
  <2> HIDE DEF R
  <2>3. rec' \in [Procs -> RecType] /\ rec'[p] = R /\ \A q \in Procs : q # p => rec'[q] = rec[q]
    BY <1>1, <2>1, <2>2
  <2>4. TableShape'
    BY <1>2, <2>1, <2>3 DEF TableIInv, TableShape
  <2>5. RecordsTrue' /\ Grows
    BY <1>1, <1>2, <2>1, <2>2, <2>3 DEF RecordsTrue, Grows
  <2>6. SpawnsDistinct'
    BY <1>1, <1>2, <2>1, <2>3 DEF SpawnsDistinct
  <2> QED
    BY <1>3, <2>4, <2>5, <2>6
<1>6. CASE \E by \in Signals \cup {"exit"} : Ends(p, by)
  <2>1. PICK by \in Signals \cup {"exit"} :
          /\ os[p] = "alive" /\ os' = [os EXCEPT ![p] = "zombie"] /\ how' = [how EXCEPT ![p] = by]
          /\ UNCHANGED rec
    BY <1>6 DEF Ends
  <2>2. by # "none" /\ by \in How
    BY DEF Signals, How
  <2>3. TableShape'
    BY <1>1, <1>2, <2>1, <2>2 DEF TableIInv, TableShape
  <2>4. RecordsTrue' /\ Grows
    BY <1>1, <1>2, <2>1, <2>2 DEF RecordsTrue, Grows
  <2>5. SpawnsDistinct'
    BY <1>1, <1>2, <2>1 DEF SpawnsDistinct
  <2> QED
    BY <1>3, <2>3, <2>4, <2>5
<1> QED
  BY <1>4, <1>5, <1>6

(* The adapter is told to stop, and goes with its table.                   *)
LEMMA StopIInv ==
  ASSUME TableIInv, Stop \/ RunReturns
  PROVE  TableIInv'
<1>1. /\ rec \in [Procs -> RecType] /\ conn \in [Conns -> CallType] /\ RecordsTrue /\ SpawnsDistinct
      /\ UNCHANGED <<os, how, pending>>
  BY DEF TableIInv, TableShape, Stop, RunReturns
<1>2. CASE Stop
  <2>1. adapter = "serving" /\ adapter' = "stopping" /\ UNCHANGED <<rec, conn>>
    BY <1>2 DEF Stop
  <2>2. TableShape' /\ RecordsTrue' /\ SpawnsDistinct'
    BY <1>1, <2>1 DEF TableIInv, TableShape, RecordsTrue, SpawnsDistinct
  <2>3. \A c \in Conns : CallOK(conn[c])'
    BY <1>1, <2>1 DEF TableIInv, CallOK, NamesProc, WaitTold, KnownInTable, ListComplete, InTable,
          OverInTable, Over, EndKept
  <2> QED
    BY <2>2, <2>3 DEF TableIInv
<1>3. CASE RunReturns
  <2>1. /\ adapter' = "gone" /\ rec' = [p \in Procs |-> NoRecord]
        /\ conn' = [c \in Conns |-> IF conn[c].pc \in {"idle", "answered"} THEN conn[c]
                                    ELSE [conn[c] EXCEPT !.pc = "cut"]]
    BY <1>3 DEF RunReturns
  <2>2. NoRecord \in RecType /\ NoRecord.state = "absent" /\ ~NoRecord.done
    BY DEF NoRecord, RecType, How
  <2>3. ASSUME NEW c \in Conns
        PROVE  /\ conn'[c] \in CallType /\ conn'[c].pc # "spawned"
               /\ \/ conn'[c] = conn[c]
                  \/ conn'[c].pc = "cut" /\ conn[c].pc \notin {"idle", "answered"}
               /\ conn'[c].op = conn[c].op /\ conn'[c].proc = conn[c].proc /\ conn'[c].ans = conn[c].ans
               /\ conn'[c].known = conn[c].known /\ conn'[c].over = conn[c].over
               /\ conn'[c].todo = conn[c].todo
    <3>1. conn[c] \in CallType
      BY <1>1
    <3>2. CASE conn[c].pc \in {"idle", "answered"}
      BY <2>1, <3>1, <3>2
    <3>3. CASE conn[c].pc \notin {"idle", "answered"}
      <4>1. conn'[c] = [conn[c] EXCEPT !.pc = "cut"]
        BY <2>1, <3>3
      <4> QED
        BY <3>1, <3>3, <4>1 DEF CallType
    <3> QED
      BY <3>2, <3>3
  <2>4. conn' \in [Conns -> CallType]
    BY <2>1, <2>3
  <2>5. TableShape' /\ RecordsTrue'
    BY <1>1, <2>1, <2>2, <2>4 DEF TableIInv, TableShape, RecordsTrue
  <2>6. SpawnsDistinct'
    BY <2>3 DEF SpawnsDistinct
  <2>7. ASSUME NEW c \in Conns PROVE CallOK(conn[c])'
    <3>1. CallOK(conn[c])
      BY DEF TableIInv
    <3>2. /\ NamesProc(conn[c])' /\ WaitTold(conn[c])' /\ ListComplete(conn[c])'
          /\ EndKept(conn[c])'
      BY <1>1, <2>3, <3>1 DEF CallOK, NamesProc, WaitTold, ListComplete, EndKept
    <3>3. KnownInTable(conn[c])' /\ OverInTable(conn[c])'
      BY <2>1 DEF KnownInTable, OverInTable
    <3> QED
      BY <3>2, <3>3 DEF CallOK
  <2> QED
    BY <2>5, <2>6, <2>7 DEF TableIInv
<1> QED
  BY <1>2, <1>3

-----------------------------------------------------------------------------
(* Every step of the table's specification preserves the invariant.        *)
LEMMA TableNextIInv == TableIInv /\ [TableNext]_tableVars => TableIInv'
<1> SUFFICES ASSUME TableIInv, [TableNext]_tableVars PROVE TableIInv'
  OBVIOUS
<1>1. ASSUME NEW c \in Conns, BadRequest(c) PROVE TableIInv'
  <2>1. Invalid \in OtherAnswer /\ Invalid \notin WaitAnswer /\ Invalid \notin SignalAnswer
    BY AnswerKinds DEF OtherAnswer
  <2>2. pending' \in [Procs -> SUBSET Signals] /\ UNCHANGED <<os, how, rec, adapter>> /\ Answer(c, Invalid)
    BY <1>1 DEF BadRequest, TableIInv, TableShape
  <2> QED
    BY <2>1, <2>2, AnswerIInv
<1>2. ASSUME NEW c \in Conns, HandleConn(c) \/ Serve(c) PROVE TableIInv'
  BY <1>1, <1>2, HandleConnIInv, SpawnIInv, InsertIInv, WaitIInv, SignalIInv, ListIInv DEF Serve
<1>3. ASSUME NEW p \in Procs,
             WaitReturns(p) \/ Reap(p) \/ \E by \in Signals \cup {"exit"} : Ends(p, by)
      PROVE  TableIInv'
  BY <1>3, ProcessIInv
<1>4. CASE UNCHANGED tableVars
  <2>1. TableShape' /\ RecordsTrue' /\ SpawnsDistinct'
    BY <1>4 DEF tableVars, TableIInv, TableShape, RecordsTrue, SpawnsDistinct
  <2>2. \A c \in Conns : CallOK(conn[c])'
    BY <1>4 DEF tableVars, TableIInv, CallOK, NamesProc, WaitTold, KnownInTable, ListComplete, InTable,
          OverInTable, Over, EndKept
  <2> QED
    BY <2>1, <2>2 DEF TableIInv
<1> QED
  BY <1>2, <1>3, <1>4, StopIInv DEF TableNext

(* The inductive invariant holds in every reachable state.                 *)
LEMMA TableSpecIInv == TableSpec => []TableIInv
<1> QED
  BY TableInitIInv, TableNextIInv, PTL DEF TableSpec

(* Type correctness of the process table.                                  *)
THEOREM TableTypeCorrect == TableSpec => []TableTypeOK
<1>1. TableIInv => TableTypeOK
  BY DEF TableIInv, TableShape, RecordsTrue, RecType, CallType, How, TableTypeOK
<1> QED
  BY <1>1, TableSpecIInv, PTL

(* process.wait answers with the end of its process, never with a record   *)
(* half written by the reaper.                                             *)
THEOREM WaitersSeeTheEnd == TableSpec => []WaitTellsExit
<1>1. ASSUME TableIInv PROVE WaitTellsExit
  <2> SUFFICES ASSUME NEW c \in Conns, conn[c].pc = "answered", conn[c].ans.is = "wait"
               PROVE  /\ conn[c].ans.timed_out \/ conn[c].ans.exited
                      /\ conn[c].ans.exited =>
                           conn[c].ans.exit = how[conn[c].proc] /\ how[conn[c].proc] # "none"
    BY DEF WaitTellsExit
  <2>1. conn[c].ans \in AnsType /\ CallOK(conn[c]) /\ RecordsTrue
    BY <1>1 DEF TableIInv, TableShape, CallType
  <2>2. conn[c].ans \in WaitAnswer
    BY <2>1, AnswerKinds DEF AnsType, CallOK, NamesProc
  <2> QED
    BY <2>1, <2>2 DEF CallOK, WaitTold, RecordsTrue
<1> QED
  BY <1>1, TableSpecIInv, PTL

(* process.list has every process whose spawn was answered before.         *)
THEOREM ListingsComplete == TableSpec => []SpawnedIsListed
<1>1. ASSUME TableIInv PROVE SpawnedIsListed
  <2> SUFFICES ASSUME NEW c \in Conns, conn[c].pc = "answered", conn[c].ans.is = "list"
               PROVE  conn[c].known \subseteq conn[c].ans.running \cup conn[c].ans.exited
    BY DEF SpawnedIsListed
  <2>1. conn[c].ans \in AnsType /\ CallOK(conn[c])
    BY <1>1 DEF TableIInv, TableShape, CallType
  <2>2. conn[c].ans \in Listing
    BY <2>1, AnswerKinds DEF AnsType, CallOK, NamesProc
  <2> QED
    BY <2>1, <2>2 DEF CallOK, ListComplete
<1> QED
  BY <1>1, TableSpecIInv, PTL

(* What process.wait or process.list told of an end, from the record the   *)
(* reaper writes under its lock, no request that begins later takes back.  *)
THEOREM ToldEndsStand == TableSpec => []EndIsFinal
<1>1. ASSUME TableIInv PROVE EndIsFinal
  <2> SUFFICES ASSUME NEW c \in Conns, conn[c].pc = "answered", NEW p \in conn[c].over
               PROVE  /\ conn[c].ans.is = "list" => p \notin conn[c].ans.running
                      /\ conn[c].ans.is = "wait" /\ conn[c].proc = p => conn[c].ans.exited
                      /\ conn[c].ans.is = "signal" /\ conn[c].proc = p => ~conn[c].ans.sent
    BY DEF EndIsFinal
  <2>1. conn[c].ans \in AnsType /\ CallOK(conn[c])
    BY <1>1 DEF TableIInv, TableShape, CallType
  <2>2. /\ conn[c].ans.is = "list" => conn[c].ans \in Listing
        /\ conn[c].ans.is = "wait" => conn[c].ans \in WaitAnswer
    BY <2>1, AnswerKinds DEF AnsType, CallOK, NamesProc
  <2>3. conn[c].ans.is = "signal" => conn[c].ans \in SignalAnswer
    BY <2>1, AnswerKinds DEF AnsType, CallOK, NamesProc, OtherAnswer, Invalid, Internal
  <2> QED
    BY <2>1, <2>2, <2>3 DEF CallOK, EndKept
<1> QED
  BY <1>1, TableSpecIInv, PTL

(* Who waits for a process has a reaper that will wake him, or has been    *)
(* woken: the end of a record and its done channel come together.          *)
WaitersHaveReaper ==
  adapter # "gone" =>
    /\ \A p \in Procs : rec[p].state = "exited" => rec[p].done
    /\ \A c \in Conns : conn[c].pc \in {"waiting", "late", "signal"} => InTable(conn[c].proc)

(* A record of the table stays, and waiters wait for records.              *)
LEMMA WaitersStep ==
  ASSUME TableIInv, WaitersHaveReaper, TableNext
  PROVE  WaitersHaveReaper'
<1> USE DEF InTable, At, Go, Answer
<1> SUFFICES ASSUME adapter' # "gone"
             PROVE  /\ \A p \in Procs : rec'[p].state = "exited" => rec'[p].done
                    /\ \A d \in Conns : conn'[d].pc \in {"waiting", "late", "signal"} =>
                         conn'[d].proc \in Procs /\ rec'[conn'[d].proc].state # "absent"
  BY DEF WaitersHaveReaper
<1>0. /\ rec \in [Procs -> RecType] /\ conn \in [Conns -> CallType] /\ adapter # "gone"
      /\ \A p \in Procs : rec[p].state = "exited" => rec[p].done
      /\ \A d \in Conns : conn[d].pc \in {"waiting", "late", "signal"} =>
           conn[d].proc \in Procs /\ rec[conn[d].proc].state # "absent"
      /\ \A d \in Conns : NamesProc(conn[d])
  <2>1. adapter # "gone"
    BY ZenonT(60) DEF TableNext, Serve, HandleConn, BadRequest, Spawn, Insert, WaitGet, WaitDone, WaitTimer,
           WaitLate, WaitCancelled, SignalGet, SendSignal, SignalRefused, ListRecords, Summarize, ListAnswer,
           WaitReturns, Reap, Ends, Stop, RunReturns
  <2> QED
    BY <2>1 DEF TableIInv, TableShape, WaitersHaveReaper, CallOK
<1>1. ASSUME NEW c \in Conns, HandleConn(c) \/ Serve(c)
      PROVE  /\ rec' \in [Procs -> RecType]
             /\ \A p \in Procs : \/ rec'[p] = rec[p]
                                 \/ rec'[p].state = "running"
             /\ \A d \in Conns \ {c} : conn'[d] = conn[d]
             /\ conn'[c].pc \in {"waiting", "late", "signal"} =>
                  /\ conn'[c].proc = conn[c].proc /\ rec' = rec
                  /\ \/ conn[c].pc \in {"waiting", "late", "signal"}
                     \/ /\ conn[c].op \in Signals \cup {"wait", "wait_forever"}
                        /\ rec[conn[c].proc].state # "absent"
  <2>0. DOMAIN conn = Conns /\ conn[c] \in CallType
    BY <1>0
  <2>1. CASE HandleConn(c)
    BY <1>0, <2>0, <2>1 DEF HandleConn, NoCall
  <2>2. CASE Insert(c)
    <3>1. rec' = [rec EXCEPT ![conn[c].proc].state = "running"]
      BY <2>2 DEF Insert
    <3>2. /\ rec' \in [Procs -> RecType]
          /\ \A p \in Procs : rec'[p] = rec[p] \/ rec'[p].state = "running"
      BY ZenonT(60), <1>0, <3>1 DEF RecType
    <3>3. conn'[c].pc = "answered" /\ \A d \in Conns \ {c} : conn'[d] = conn[d]
      BY <2>0, <2>2 DEF Insert, CallType
    <3> QED
      BY <3>2, <3>3
  <2>a. ASSUME rec' = rec, conn'[c].pc = "answered", \A d \in Conns \ {c} : conn'[d] = conn[d]
        PROVE  /\ rec' \in [Procs -> RecType]
               /\ \A p \in Procs : rec'[p] = rec[p]
               /\ conn'[c].pc \notin {"waiting", "late", "signal"}
    BY <1>0, <2>a
  <2>b. \A ans : Answer(c, ans) => /\ conn'[c].pc = "answered"
                                   /\ \A d \in Conns \ {c} : conn'[d] = conn[d]
    BY <2>0 DEF CallType
  <2>c. \A pc : Go(c, pc) => /\ conn'[c].pc = pc /\ conn'[c].proc = conn[c].proc
                             /\ \A d \in Conns \ {c} : conn'[d] = conn[d]
    BY <2>0 DEF CallType
  <2> HIDE DEF Answer, Go
  <2>3. CASE WaitGet(c)
    <3>1. rec' = rec /\ conn[c].op \in {"wait", "wait_forever"}
      BY <2>3 DEF WaitGet
    <3>2. CASE rec[conn[c].proc].state = "absent"
      <4>1. Answer(c, Invalid)
        BY <2>3, <3>2 DEF WaitGet
      <4> QED
        BY <2>a, <2>b, <3>1, <4>1
    <3>3. CASE rec[conn[c].proc].state = "exited"
      <4>1. Answer(c, WaitResult(conn[c].proc, FALSE))
        BY <2>3, <3>3 DEF WaitGet
      <4> QED
        BY <2>a, <2>b, <3>1, <4>1
    <3>4. CASE rec[conn[c].proc].state \notin {"absent", "exited"}
      <4>1. Go(c, "waiting")
        BY <2>3, <3>4, Zenon DEF WaitGet
      <4> QED
        BY <1>0, <2>c, <3>1, <3>4, <4>1
    <3> QED
      BY <3>2, <3>3, <3>4
  <2>4. CASE SignalGet(c)
    <3>1. rec' = rec /\ conn[c].op \in Signals
      BY <2>4 DEF SignalGet
    <3>2. CASE rec[conn[c].proc].state = "absent"
      <4>1. Answer(c, Invalid)
        BY <2>4, <3>2 DEF SignalGet
      <4> QED
        BY <2>a, <2>b, <3>1, <4>1
    <3>3. CASE rec[conn[c].proc].state = "exited"
      <4>1. Answer(c, Sent(FALSE))
        BY <2>4, <3>3 DEF SignalGet
      <4> QED
        BY <2>a, <2>b, <3>1, <4>1
    <3>4. CASE rec[conn[c].proc].state \notin {"absent", "exited"}
      <4>1. Go(c, "signal")
        BY <2>4, <3>4, Zenon DEF SignalGet
      <4> QED
        BY <1>0, <2>c, <3>1, <3>4, <4>1
    <3> QED
      BY <3>2, <3>3, <3>4
  <2>5. CASE WaitDone(c) \/ WaitLate(c) \/ WaitCancelled(c) \/ BadRequest(c) \/ SendSignal(c)
           \/ SignalRefused(c)
    <3>1. rec' = rec /\ \E ans : Answer(c, ans)
      BY <2>5 DEF WaitDone, WaitLate, WaitCancelled, BadRequest, SendSignal, SignalRefused
    <3> QED
      BY <2>a, <2>b, <3>1
  <2>6. CASE WaitTimer(c) \/ ListAnswer(c)
    BY <1>0, <2>c, <2>6 DEF WaitTimer, ListAnswer
  <2>7. CASE Spawn(c) \/ ListRecords(c) \/ Summarize(c)
    <3>1. rec' = rec /\ conn'[c].pc \in {"spawned", "list"} /\ \A d \in Conns \ {c} : conn'[d] = conn[d]
      <4>1. CASE Spawn(c)
        BY <2>0, <4>1 DEF Spawn, CallType
      <4>2. CASE ListRecords(c)
        BY <2>0, <4>2 DEF ListRecords, CallType
      <4>3. CASE Summarize(c)
        <5>1. PICK p \in conn[c].todo :
                conn' = [conn EXCEPT ![c].todo = @ \ {p},
                           ![c].ans.running = IF rec[p].state = "running" THEN @ \cup {p} ELSE @,
                           ![c].ans.exited = IF rec[p].state = "exited" THEN @ \cup {p} ELSE @]
          BY <4>3 DEF Summarize
        <5>2. conn'[c].pc = conn[c].pc /\ \A d \in Conns \ {c} : conn'[d] = conn[d]
          <6>1. conn[c].ans \in Listing
            BY <4>3 DEF TableIInv, CallOK, ListComplete, Summarize
          <6> QED
            BY <2>0, <5>1, <6>1 DEF CallType, Listing
        <5> QED
          BY <4>3, <5>2 DEF Summarize
      <4> QED
        BY <2>7, <4>1, <4>2, <4>3
    <3> QED
      BY <1>0, <3>1
  <2> QED
    BY <1>1, <2>1, <2>2, <2>3, <2>4, <2>5, <2>6, <2>7 DEF Serve
<1>2. CASE \E c \in Conns : HandleConn(c) \/ Serve(c)
  BY <1>0, <1>1, <1>2 DEF NamesProc
<1>3. ASSUME NEW p \in Procs, Reap(p)
      PROVE  /\ \A q \in Procs : rec'[q].state = "exited" => rec'[q].done
             /\ \A q \in Procs : rec[q].state # "absent" => rec'[q].state # "absent"
             /\ conn' = conn
  BY <1>0, <1>3 DEF Reap
<1>4. CASE \E p \in Procs : Reap(p)
  BY <1>0, <1>3, <1>4
<1>5. CASE Stop \/ \E p \in Procs : WaitReturns(p) \/ \E by \in Signals \cup {"exit"} : Ends(p, by)
  BY <1>0, <1>5 DEF Stop, WaitReturns, Ends
<1>6. ~RunReturns
  BY DEF RunReturns
<1> QED
  BY <1>2, <1>4, <1>5, <1>6 DEF TableNext

(* process.wait and the reaper: as long as the adapter runs, a waiter's    *)
(* process is in the table, and a record that has its end has woken its    *)
(* waiters. No wakeup is lost, so that a wait without a timeout blocks     *)
(* only while its process runs.                                            *)
THEOREM NoLostWakeup == TableSpec => []WaitersHaveReaper
<1>1. TableInit => WaitersHaveReaper
  BY DEF TableInit, WaitersHaveReaper, NoRecord, NoCall
<1>2. TableIInv /\ WaitersHaveReaper /\ [TableNext]_tableVars => WaitersHaveReaper'
  <2> SUFFICES ASSUME TableIInv, WaitersHaveReaper, UNCHANGED tableVars PROVE WaitersHaveReaper'
    BY WaitersStep
  <2> QED
    BY DEF tableVars, WaitersHaveReaper, InTable
<1> QED
  BY <1>1, <1>2, TableSpecIInv, PTL DEF TableSpec

-----------------------------------------------------------------------------
(* The MCP bridge.                                                         *)

BridgeSpec == BridgeInit /\ [][BridgeNext]_bridgeVars

Messages == Users \cup {Nobody, ReadError}

BridgeShape ==
  /\ server \in {"up", "dead"} /\ notes \in 0..MaxNotes
  /\ stdin \in Seq(Messages) /\ stdout \in Seq(Messages)
  /\ done \in BOOLEAN /\ piped \in BOOLEAN /\ cancelled \in BOOLEAN
  /\ lock \in Users \cup {Nobody}
  /\ trip \in [Users -> {"idle", "want", "answered", "failed"} \cup Holding]
  /\ got \in [Users -> Seq(Messages)]
  /\ main \in Asking \cup {"listen", "register", "serve", "gone"}

(* The holder of callMu is the one whose round trip is under way; a trip   *)
(* begins with nothing read; who drains does so on closed pipes.           *)
OneTrip ==
  /\ done => ~piped
  /\ \A u \in Users : /\ (trip[u] \in Holding) = (lock = u)
                      /\ trip[u] \in {"idle", "want", "write", "blocked"} => got[u] = <<>>
                      /\ trip[u] = "draining" => ~piped

(* With a server that speaks only when asked: nothing is in the pipes of a *)
(* session in use but the request, or the answer, of the trip under way.   *)
Clear == piped /\ server = "up" => stdin = <<>> /\ stdout = <<>>

InStep ==
  notes = 0 =>
    /\ (lock = Nobody \/ \E u \in Users : trip[u] \in {"write", "blocked"}) => Clear
    /\ \A u \in Users :
         /\ trip[u] = "reading" /\ got[u] = <<>> /\ piped =>
              \/ stdin = <<u>> /\ stdout = <<>>
              \/ stdin = <<>> /\ stdout = <<u>>
         /\ trip[u] = "reading" /\ got[u] # <<>> =>
              Clear /\ got[u] \in {<<u>>, <<ReadError>>}
         /\ trip[u] = "answered" => got[u] = <<u>>

ToolsBound == tools = "registered" => main \in {"register", "serve", "gone"}

(* The inductive invariant of the bridge.                                  *)
BridgeIInv == BridgeShape /\ OneTrip /\ InStep /\ ToolsBound

(* The session is new.                                                     *)
LEMMA BridgeInitIInv == BridgeInit => BridgeIInv
<1> SUFFICES ASSUME BridgeInit PROVE BridgeIInv
  OBVIOUS
<1>1. BridgeShape
  <2>1. <<>> \in Seq(Messages) /\ 0 \in 0..MaxNotes
    BY BridgeAssumption
  <2>2. got \in [Users -> Seq(Messages)]
    BY <2>1 DEF BridgeInit
  <2>3. trip \in [Users -> {"idle", "want", "answered", "failed"} \cup Holding]
    BY DEF BridgeInit
  <2> QED
    BY <2>1, <2>2, <2>3 DEF BridgeInit, BridgeShape, Asking
<1>2. OneTrip
  BY BridgeAssumption DEF BridgeInit, OneTrip, Holding, Users
<1>3. InStep /\ ToolsBound
  BY DEF BridgeInit, InStep, ToolsBound, Clear
<1> QED
  BY <1>1, <1>2, <1>3 DEF BridgeIInv

(* Nobody is no user of the session.                                       *)
LEMMA NobodyElse == Nobody \notin Users /\ Main \in Users
BY BridgeAssumption DEF Users

(* callMu is taken.                                                        *)
LEMMA TakeLockIInv ==
  ASSUME BridgeIInv, NEW u \in Users, TakeLock(u)
  PROVE  BridgeIInv'
<1>1. /\ trip[u] = "want" /\ lock = Nobody /\ BridgeShape /\ OneTrip /\ InStep /\ ToolsBound
      /\ UNCHANGED <<server, stdin, stdout, notes, done, piped, cancelled, got, main, tools>>
  BY DEF BridgeIInv, TakeLock, pipeVars, runVars
<1>2. \/ trip' = [trip EXCEPT ![u] = "failed"] /\ lock' = lock
      \/ trip' = [trip EXCEPT ![u] = "write"] /\ lock' = u
  BY DEF TakeLock, Trip
<1>3. BridgeShape'
  BY <1>1, <1>2 DEF BridgeShape, Holding
<1>4. OneTrip'
  BY <1>1, <1>2, NobodyElse DEF BridgeShape, OneTrip, Holding
<1>5. InStep' /\ ToolsBound'
  BY <1>1, <1>2 DEF BridgeShape, InStep, ToolsBound, Clear
<1> QED
  BY <1>3, <1>4, <1>5 DEF BridgeIInv

(* A message is written, at once or when the server has made room for it:  *)
(* a request, or the notification.                                         *)
LEMMA WrittenIInv ==
  ASSUME BridgeIInv, NEW u \in Users, trip[u] \in {"write", "blocked"}, Written(u)
  PROVE  BridgeIInv'
<1>1. /\ BridgeShape /\ OneTrip /\ InStep /\ ToolsBound /\ lock = u /\ got[u] = <<>>
      /\ piped /\ server = "up"
      /\ UNCHANGED <<server, stdout, notes, done, piped, cancelled, got, tools>>
  BY DEF BridgeIInv, Written, Reachable, OneTrip, Holding
<1>2. \A v \in Users : v # u => trip[v] \notin Holding
  BY <1>1 DEF OneTrip
<1>3. notes = 0 => stdin = <<>> /\ stdout = <<>>
  BY <1>1 DEF InStep, Clear
<1>4. CASE ~Notification(u)
  <2>1. /\ stdin' = Append(stdin, u) /\ trip' = [trip EXCEPT ![u] = "reading"] /\ lock' = lock
        /\ main' = main
    BY <1>4 DEF Written, Trip
  <2>2. u \in Messages /\ stdin' \in Seq(Messages)
    BY <1>1, <2>1 DEF Messages, BridgeShape
  <2>3. BridgeShape'
    BY <1>1, <2>1, <2>2 DEF BridgeShape, Holding
  <2>4. OneTrip'
    BY <1>1, <1>2, <2>1 DEF BridgeShape, OneTrip, Holding
  <2>5. notes = 0 => stdin' = <<u>> /\ stdout = <<>>
    <3>1. Append(<<>>, u) = <<u>>
      OBVIOUS
    <3> QED
      BY <1>3, <2>1, <3>1
  <2>6. InStep'
    BY <1>1, <1>2, <2>1, <2>5, NobodyElse DEF BridgeShape, InStep, Holding
  <2> QED
    BY <1>1, <2>1, <2>3, <2>4, <2>6 DEF BridgeIInv, ToolsBound
<1>5. CASE Notification(u)
  <2>1. /\ stdin' = stdin /\ trip' = [trip EXCEPT ![u] = "idle"] /\ lock' = Nobody
        /\ main = "initialized" /\ main' = "tools/list"
    BY <1>5 DEF Written, Trip, Notification
  <2>2. BridgeShape'
    BY <1>1, <2>1 DEF BridgeShape, Holding, Asking
  <2>3. OneTrip'
    BY <1>1, <1>2, <2>1, NobodyElse DEF BridgeShape, OneTrip, Holding
  <2>4. InStep'
    BY <1>1, <1>2, <1>3, <2>1 DEF BridgeShape, InStep, Clear, Holding
  <2> QED
    BY <1>1, <2>1, <2>2, <2>3, <2>4 DEF BridgeIInv, ToolsBound
<1> QED
  BY <1>4, <1>5

(* A message waits for room in the pipe, or cannot be written.             *)
LEMMA WriteIInv ==
  ASSUME BridgeIInv, NEW u \in Users, WriteBlocks(u) \/ WriteFails(u)
  PROVE  BridgeIInv'
<1>1. /\ BridgeShape /\ OneTrip /\ InStep /\ ToolsBound
      /\ trip[u] \in {"write", "blocked"} /\ lock = u /\ got[u] = <<>>
      /\ UNCHANGED <<server, stdin, stdout, notes, done, piped, cancelled, got, main, tools>>
  BY DEF BridgeIInv, WriteBlocks, WriteFails, pipeVars, runVars, OneTrip, Holding
<1>2. \A v \in Users : v # u => trip[v] \notin Holding
  BY <1>1 DEF OneTrip
<1>3. \/ trip' = [trip EXCEPT ![u] = "blocked"] /\ lock' = lock
      \/ trip' = [trip EXCEPT ![u] = "failed"] /\ lock' = Nobody
  BY DEF WriteBlocks, WriteFails, Trip
<1>4. BridgeShape'
  BY <1>1, <1>3 DEF BridgeShape, Holding
<1>5. OneTrip'
  BY <1>1, <1>2, <1>3, NobodyElse DEF BridgeShape, OneTrip, Holding
<1>6. InStep'
  BY <1>1, <1>2, <1>3 DEF BridgeShape, InStep, Clear, Holding
<1> QED
  BY <1>1, <1>4, <1>5, <1>6 DEF BridgeIInv, ToolsBound

(* The reader gets a message, or an error when there can be none.          *)
LEMMA ReadIInv ==
  ASSUME BridgeIInv, NEW u \in Users, ReadMCPMessage(u)
  PROVE  BridgeIInv'
<1>1. /\ trip[u] \in {"reading", "draining"} /\ got[u] = <<>> /\ BridgeShape /\ OneTrip /\ InStep
      /\ ToolsBound /\ lock = u
      /\ UNCHANGED <<server, stdin, notes, done, piped, cancelled, lock, trip, main, tools>>
  BY DEF BridgeIInv, ReadMCPMessage, runVars, OneTrip, Holding
<1>2. \A v \in Users : v # u => trip[v] \notin Holding
  BY <1>1 DEF OneTrip
<1>3. CASE piped /\ stdout # <<>>
  <2>1. got' = [got EXCEPT ![u] = <<Head(stdout)>>] /\ stdout' = Tail(stdout)
    BY <1>3 DEF ReadMCPMessage
  <2>2. /\ Head(stdout) \in Messages /\ <<Head(stdout)>> \in Seq(Messages)
        /\ Tail(stdout) \in Seq(Messages) /\ <<Head(stdout)>> # <<>>
    BY <1>1, <1>3 DEF BridgeShape
  <2>3. got'[u] = <<Head(stdout)>> /\ \A v \in Users : v # u => got'[v] = got[v]
    BY <1>1, <2>1 DEF BridgeShape
  <2>4. BridgeShape'
    BY <1>1, <2>1, <2>2 DEF BridgeShape
  <2>5. OneTrip'
    BY <1>1, <2>3 DEF OneTrip
  <2>6. notes = 0 => stdin = <<>> /\ Tail(stdout) = <<>> /\ Head(stdout) = u
    <3>1. trip[u] = "reading"
      BY <1>1, <1>3 DEF OneTrip
    <3>2. notes = 0 => stdin = <<>> /\ stdout = <<u>>
      BY <1>1, <1>3, <3>1 DEF InStep
    <3>3. Tail(<<u>>) = <<>> /\ Head(<<u>>) = u
      OBVIOUS
    <3> QED
      BY <3>2, <3>3
  <2>7. InStep'
    BY <1>1, <1>2, <2>1, <2>2, <2>3, <2>6, NobodyElse DEF InStep, Clear, Holding
  <2> QED
    BY <1>1, <2>4, <2>5, <2>7 DEF BridgeIInv, ToolsBound
<1>4. CASE ~(piped /\ stdout # <<>>)
  <2>1. /\ ~(piped /\ server = "up") /\ got' = [got EXCEPT ![u] = <<ReadError>>] /\ stdout' = stdout
    BY <1>1, <1>4 DEF ReadMCPMessage, BridgeShape
  <2>2. ReadError \in Messages
    BY DEF Messages
  <2>3. <<ReadError>> \in Seq(Messages) /\ <<ReadError>> # <<>>
    BY <2>2
  <2>4. got'[u] = <<ReadError>> /\ \A v \in Users : v # u => got'[v] = got[v]
    BY <1>1, <2>1 DEF BridgeShape
  <2>5. BridgeShape'
    BY <1>1, <2>1, <2>3 DEF BridgeShape
  <2>6. OneTrip'
    BY <1>1, <2>4 DEF OneTrip
  <2>7. InStep'
    BY <1>1, <1>2, <2>1, <2>3, <2>4, NobodyElse DEF InStep, Clear, Holding
  <2> QED
    BY <1>1, <2>5, <2>6, <2>7 DEF BridgeIInv, ToolsBound
<1> QED
  BY <1>3, <1>4

(* The trip ends with what was read, or is drained.                        *)
LEMMA TripEndsIInv ==
  ASSUME BridgeIInv, NEW u \in Users, TakeResponse(u) \/ Drained(u)
  PROVE  BridgeIInv'
<1>1. /\ got[u] # <<>> /\ BridgeShape /\ OneTrip /\ InStep /\ ToolsBound /\ lock' = Nobody
      /\ UNCHANGED <<server, stdin, stdout, notes, done, piped, cancelled, got, main, tools>>
  BY DEF BridgeIInv, TakeResponse, Drained, pipeVars, runVars
<1>2. /\ trip[u] \in {"reading", "draining"} /\ lock = u
      /\ \A v \in Users : v # u => trip[v] \notin Holding
  BY <1>1 DEF OneTrip, TakeResponse, Drained, Holding
<1>3. \/ trip' = [trip EXCEPT ![u] = "failed"]
      \/ /\ trip' = [trip EXCEPT ![u] = "answered"] /\ trip[u] = "reading" /\ got[u] # <<ReadError>>
  BY DEF TakeResponse, Drained, Trip
<1>4. notes = 0 => Clear
  BY <1>1, <1>2 DEF InStep, Clear, OneTrip
<1>5. BridgeShape'
  BY <1>1, <1>3 DEF BridgeShape, Holding
<1>6. OneTrip'
  BY <1>1, <1>2, <1>3, NobodyElse DEF BridgeShape, OneTrip, Holding
<1>7. InStep'
  BY <1>1, <1>2, <1>3, <1>4 DEF BridgeShape, InStep, Clear, Holding
<1> QED
  BY <1>1, <1>5, <1>6, <1>7 DEF BridgeIInv, ToolsBound

(* The session is over for a trip under way.                               *)
LEMMA TripOverIInv ==
  ASSUME BridgeIInv, NEW u \in Users, CancelTrip(u) \/ SeeDone(u)
  PROVE  BridgeIInv'
<1>1. /\ trip[u] = "reading" /\ trip' = [trip EXCEPT ![u] = "draining"] /\ piped' = FALSE
      /\ server' \in {"up", "dead"} /\ done' \in BOOLEAN
      /\ BridgeShape /\ OneTrip /\ InStep /\ ToolsBound
      /\ UNCHANGED <<stdin, stdout, notes, cancelled, lock, got, main, tools>>
  BY DEF BridgeIInv, BridgeShape, OneTrip, CancelTrip, SeeDone, Close, Trip, pipeVars, runVars
<1>2. BridgeShape'
  BY <1>1 DEF BridgeShape, Holding
<1>3. OneTrip'
  BY <1>1 DEF BridgeShape, OneTrip, Holding
<1>4. InStep' /\ ToolsBound'
  BY <1>1 DEF BridgeShape, InStep, Clear, ToolsBound
<1> QED
  BY <1>2, <1>3, <1>4 DEF BridgeIInv

(* The server.                                                             *)
LEMMA ServerIInv ==
  ASSUME BridgeIInv, ServerReplies \/ ServerNotifies
  PROVE  BridgeIInv'
<1>1. /\ server = "up" /\ BridgeShape /\ OneTrip /\ InStep /\ ToolsBound
      /\ UNCHANGED <<server, done, piped, cancelled, lock, trip, got, main, tools>>
  BY DEF BridgeIInv, ServerReplies, ServerNotifies, runVars
<1>2. OneTrip' /\ ToolsBound'
  BY <1>1 DEF OneTrip, ToolsBound
<1>3. CASE ServerReplies
  <2>1. /\ stdin # <<>> /\ stdout' = Append(stdout, Head(stdin)) /\ stdin' = Tail(stdin)
        /\ notes' = notes
    BY <1>3 DEF ServerReplies
  <2>2. stdout' \in Seq(Messages) /\ stdin' \in Seq(Messages)
    BY <1>1, <2>1 DEF BridgeShape
  <2>3. BridgeShape'
    BY <1>1, <2>1, <2>2 DEF BridgeShape
  <2>4. ASSUME NEW u \in Users, stdin = <<u>>, stdout = <<>> PROVE stdin' = <<>> /\ stdout' = <<u>>
    BY <2>1, <2>4
  <2>5. notes = 0 => (Clear => ~piped)
    BY <1>1, <2>1 DEF Clear
  <2>6. InStep'
    BY <1>1, <2>1, <2>4, <2>5 DEF InStep, Clear
  <2> QED
    BY <1>2, <2>3, <2>6 DEF BridgeIInv
<1>4. CASE ServerNotifies
  <2>1. /\ stdout' = Append(stdout, Nobody) /\ notes' = notes + 1 /\ notes < MaxNotes /\ stdin' = stdin
    BY <1>4 DEF ServerNotifies
  <2>2. stdout' \in Seq(Messages) /\ notes' \in 0..MaxNotes /\ notes' # 0
    BY <1>1, <2>1, BridgeAssumption DEF BridgeShape, Messages
  <2>3. BridgeShape'
    BY <1>1, <2>1, <2>2 DEF BridgeShape
  <2>4. InStep'
    BY <2>2 DEF InStep
  <2> QED
    BY <1>2, <2>3, <2>4 DEF BridgeIInv
<1> QED
  BY <1>3, <1>4

(* The session ends, or the bridge does: pipes and server only close, and  *)
(* the trips go on.                                                        *)
LEMMA TeardownIInv ==
  ASSUME BridgeIInv, server' \in {server, "dead"}, piped' \in BOOLEAN, piped' => piped,
         done' \in BOOLEAN, done' => ~piped', cancelled' \in BOOLEAN,
         tools' = tools, main' = main \/ main' = "gone",
         UNCHANGED <<stdin, stdout, notes, lock, trip, got>>
  PROVE  BridgeIInv'
<1>1. BridgeShape /\ OneTrip /\ InStep /\ ToolsBound
  BY DEF BridgeIInv
<1>2. BridgeShape'
  BY <1>1 DEF BridgeShape
<1>3. server' = "up" => server = "up"
  OBVIOUS
<1>4. OneTrip'
  BY <1>1, Zenon DEF OneTrip
<1>5. Clear => Clear'
  BY <1>3 DEF Clear
<1>6. InStep' /\ ToolsBound'
  BY <1>1, <1>3, <1>5 DEF InStep, ToolsBound
<1> QED
  BY <1>2, <1>4, <1>6 DEF BridgeIInv

(* run goes on, and registers the tools once the socket is bound.          *)
LEMMA RunIInv ==
  ASSUME BridgeIInv, Listen \/ RegisterTool \/ Registered
  PROVE  BridgeIInv'
<1>1. /\ BridgeShape /\ OneTrip /\ InStep /\ ToolsBound
      /\ UNCHANGED <<server, stdin, stdout, notes, done, piped, cancelled, lock, trip, got>>
  BY DEF BridgeIInv, Listen, RegisterTool, Registered, pipeVars
<1>2. main' \in {"register", "serve"}
  BY DEF Listen, RegisterTool, Registered, Run
<1>3. BridgeShape' /\ ToolsBound'
  BY <1>1, <1>2 DEF BridgeShape, ToolsBound
<1>4. OneTrip' /\ InStep'
  BY <1>1 DEF OneTrip, InStep, Clear
<1> QED
  BY <1>3, <1>4 DEF BridgeIInv

(* A trip is asked for, or refused before it begins.                       *)
LEMMA AskIInv ==
  ASSUME BridgeIInv, NEW u \in Users, NEW at \in {"want", "failed"},
         trip[u] = "idle", Trip(u, at),
         UNCHANGED <<pipeVars, done, piped, cancelled, lock, got, runVars>>
  PROVE  BridgeIInv'
<1>1. /\ BridgeShape /\ OneTrip /\ InStep /\ ToolsBound /\ trip' = [trip EXCEPT ![u] = at]
      /\ UNCHANGED <<server, stdin, stdout, notes, done, piped, cancelled, lock, got, main, tools>>
  BY DEF BridgeIInv, pipeVars, runVars, Trip
<1>2. BridgeShape'
  BY <1>1 DEF BridgeShape, Holding
<1>3. OneTrip'
  BY <1>1 DEF BridgeShape, OneTrip, Holding
<1>4. InStep' /\ ToolsBound'
  BY <1>1 DEF BridgeShape, InStep, Clear, ToolsBound
<1> QED
  BY <1>2, <1>3, <1>4 DEF BridgeIInv

(* run uses an answer and is ready to ask again.                           *)
LEMMA AskedIInv ==
  ASSUME BridgeIInv, Asked
  PROVE  BridgeIInv'
<1>1. /\ BridgeShape /\ OneTrip /\ InStep /\ ToolsBound
      /\ main \in Asking /\ main' \in {"initialized", "listen"}
      /\ trip[Main] = "answered" /\ trip' = [trip EXCEPT ![Main] = "idle"]
      /\ got' = [got EXCEPT ![Main] = <<>>]
      /\ UNCHANGED <<server, stdin, stdout, notes, done, piped, cancelled, lock, tools>>
  BY DEF BridgeIInv, Asked, Run, Trip, pipeVars
<1>2. /\ trip'[Main] = "idle" /\ got'[Main] = <<>>
      /\ \A v \in Users : v # Main => trip'[v] = trip[v] /\ got'[v] = got[v]
  BY <1>1, NobodyElse DEF BridgeShape
<1>3. <<>> \in Seq(Messages)
  OBVIOUS
<1>4. BridgeShape'
  BY <1>1, <1>3, NobodyElse DEF BridgeShape, Asking
<1>5. OneTrip'
  BY <1>1, <1>2, NobodyElse DEF OneTrip, Holding
<1>6. InStep'
  BY <1>1, <1>2 DEF InStep, Clear
<1>7. ToolsBound'
  BY <1>1 DEF ToolsBound, Asking
<1> QED
  BY <1>4, <1>5, <1>6, <1>7 DEF BridgeIInv

(* Every step of the bridge's specification preserves the invariant.       *)
LEMMA BridgeNextIInv == BridgeIInv /\ [BridgeNext]_bridgeVars => BridgeIInv'
<1> SUFFICES ASSUME BridgeIInv, [BridgeNext]_bridgeVars PROVE BridgeIInv'
  OBVIOUS
<1>1. ASSUME NEW u \in Users, RoundTrip(u) \/ ServerReads(u) PROVE BridgeIInv'
  <2>1. CASE WriteRequest(u) \/ ServerReads(u)
    BY <2>1, WrittenIInv DEF WriteRequest, ServerReads
  <2> QED
    BY <1>1, <2>1, TakeLockIInv, WriteIInv, ReadIInv, TripEndsIInv, TripOverIInv DEF RoundTrip
<1>2. ASSUME NEW c \in Callers, Dispatch(c) \/ MethodNotFound(c) PROVE BridgeIInv'
  <2>1. c \in Users
    BY DEF Users
  <2> QED
    BY <1>2, <2>1, AskIInv DEF Dispatch, MethodNotFound
<1>3. CASE Ask
  BY <1>3, AskIInv, NobodyElse DEF Ask
<1>4. CASE \/ AskFails \/ RegisterFails \/ BridgeExits \/ ServerEnds \/ WatchCrash
           \/ CancelOnCrash \/ Interrupt
  <2>1. done \in BOOLEAN /\ cancelled \in BOOLEAN /\ piped \in BOOLEAN /\ (done => ~piped)
    BY DEF BridgeIInv, BridgeShape, OneTrip
  <2>2. CASE AskFails \/ RegisterFails
    BY <2>1, <2>2, TeardownIInv, Zenon DEF AskFails, RegisterFails, Close, Run
  <2>3. CASE BridgeExits
    BY <2>1, <2>3, TeardownIInv, Zenon DEF BridgeExits, Run, pipeVars
  <2>4. CASE ServerEnds
    BY <2>1, <2>4, TeardownIInv, Zenon DEF ServerEnds, runVars
  <2>5. CASE WatchCrash
    BY <2>1, <2>5, TeardownIInv, Zenon DEF WatchCrash, pipeVars, runVars
  <2>6. CASE CancelOnCrash
    BY <2>1, <2>6, TeardownIInv, Zenon DEF CancelOnCrash, pipeVars, runVars
  <2>7. CASE Interrupt
    BY <2>1, <2>7, TeardownIInv, Zenon DEF Interrupt, pipeVars, runVars
  <2> QED
    BY <1>4, <2>2, <2>3, <2>4, <2>5, <2>6, <2>7
<1>5. CASE UNCHANGED bridgeVars
  BY <1>5, TeardownIInv DEF bridgeVars, BridgeIInv, BridgeShape, OneTrip
<1> QED
  BY <1>1, <1>2, <1>3, <1>4, <1>5, AskedIInv, RunIInv, ServerIInv DEF BridgeNext

(* The inductive invariant holds in every reachable state.                 *)
LEMMA BridgeSpecIInv == BridgeSpec => []BridgeIInv
<1> QED
  BY BridgeInitIInv, BridgeNextIInv, PTL DEF BridgeSpec

(* Type correctness of the session, its trips and its lock.                *)
THEOREM BridgeTypeCorrect == BridgeSpec => []BridgeTypeOK
<1>1. BridgeIInv => BridgeTypeOK
  BY DEF BridgeIInv, BridgeShape, OneTrip, BridgeTypeOK
<1> QED
  BY <1>1, BridgeSpecIInv, PTL

(* roundTrip, which does not compare ids, answers a call with its own      *)
(* response all the same while the server speaks only when asked.          *)
THEOREM RepliesMatch == BridgeSpec => []ReplyMatches
<1>1. BridgeIInv => ReplyMatches
  BY DEF BridgeIInv, InStep, ReplyMatches
<1> QED
  BY <1>1, BridgeSpecIInv, PTL

(* Tools are registered only after the socket is bound.                    *)
THEOREM RegisteredIsBound == BridgeSpec => []RegisteredAnswers
<1>1. BridgeIInv => RegisteredAnswers
  BY DEF BridgeIInv, ToolsBound, RegisteredAnswers, Running
<1> QED
  BY <1>1, BridgeSpecIInv, PTL

(* A step of u's trip that waits neither for the server nor for a caller.  *)
FreeToGo(u) ==
  \/ trip[u] = "write"
  \/ trip[u] = "blocked" /\ ~Reachable
  \/ trip[u] = "reading" /\ (cancelled \/ done \/ got[u] # <<>> \/ ~piped \/ server = "dead")
  \/ trip[u] = "draining" /\ (got[u] # <<>> \/ ~piped \/ server = "dead")

(* Once the server has ended or the bridge is told to stop, callMu is held *)
(* by a trip that is free to go, or by the one writer that is blocked on a *)
(* server that lives; and a session that is over has no such writer.       *)
HolderMayGo ==
  /\ lock # Nobody /\ (server = "dead" \/ cancelled) =>
       lock \in Users /\ (FreeToGo(lock) \/ (Reachable /\ trip[lock] = "blocked"))
  /\ done => ~Reachable
  /\ \A u, v \in Users : trip[u] = "blocked" /\ trip[v] \in Holding => u = v

(* roundTrip and close: a teardown leaves nobody blocked on the session    *)
(* but a writer, and one whose server is dead or pipe closed not either.   *)
THEOREM TeardownUnblocks == BridgeSpec => []HolderMayGo
<1>1. BridgeIInv => HolderMayGo
  <2> SUFFICES ASSUME BridgeIInv PROVE HolderMayGo
    OBVIOUS
  <2>1. /\ lock \in Users \cup {Nobody} /\ server \in {"up", "dead"} /\ (done => ~piped)
        /\ \A u \in Users : /\ (trip[u] \in Holding) = (lock = u)
                            /\ trip[u] = "draining" => ~piped
    BY DEF BridgeIInv, BridgeShape, OneTrip
  <2>2. lock # Nobody => lock \in Users /\ trip[lock] \in Holding
    BY <2>1
  <2>3. ASSUME lock # Nobody, server = "dead" \/ cancelled
        PROVE  lock \in Users /\ (FreeToGo(lock) \/ (Reachable /\ trip[lock] = "blocked"))
    BY <2>1, <2>2, <2>3 DEF FreeToGo, Reachable, Holding
  <2>4. \A u, v \in Users : trip[u] = "blocked" /\ trip[v] \in Holding => u = v
    BY <2>1 DEF Holding
  <2> QED
    BY <2>1, <2>3, <2>4 DEF HolderMayGo, Reachable
<1> QED
  BY <1>1, BridgeSpecIInv, PTL
=============================================================================
