------------------------- MODULE PackageManagerProofs -------------------------
(***************************************************************************)
(* Proofs about PackageManager, for any number of Installers, Boxfiles,    *)
(* commands and adapter processes.                                         *)
(***************************************************************************)
EXTENDS PackageManager, TLAPS

Owning == {"wait", "health", "save", "undo"}

(* TypeOK in parts, with what an Installer does at each place.             *)
Shape ==
  /\ rows \in {"none", "active", "unavailable"}
  /\ proc \in [Procs -> ProcType] /\ inst \in [Installers -> InstType]
  /\ launches \in 0..MaxLaunches /\ commands \in 0..MaxCommands
  /\ sock \in 0..MaxLaunches

Unstarted == \A p \in Procs : p > launches => proc[p] = NoProc

Hands == \A i \in Installers :
           /\ inst[i].own <= launches /\ inst[i].held <= launches
           /\ inst[i].pc \in Owning => inst[i].own # 0 /\ inst[i].op = "install"
           /\ inst[i].res = "installed" /\ inst[i].op = "install" => inst[i].own # 0
           /\ inst[i].res = "installed" => ~Working(i)
           /\ inst[i].pc = "launch" => inst[i].op = "install"
           /\ inst[i].pc \in {"signal", "linger"} => inst[i].held # 0

(* Past the poll, a declared primitive has been seen in the registry.      *)
RowsSeen == \A i \in Installers :
              inst[i].pc \in {"health", "save"} /\ inst[i].box.prims = "own" => rows # "none"

(* The first install, alone: the only live adapter is its own, and rows    *)
(* come from that one.                                                     *)
AfterRegister == {"registered", "exited", "crashed"}

SoleAlone ==
  \A i \in Installers : inst[i].sole /\ Working(i) =>
    /\ \A j \in Installers : j # i => ~Working(j)
    /\ inst[i].pc \in {"lookup", "launch"} => rows = "none" /\ \A p \in Procs : ~Alive(p)
    /\ inst[i].pc \in {"wait", "health", "save"} =>
         /\ \A p \in Procs : Alive(p) => p = inst[i].own
         /\ rows # "none" => proc[inst[i].own].st \in AfterRegister

(* The inductive invariant.                                                *)
IInv == /\ Shape /\ Unstarted /\ Hands /\ RowsSeen /\ RecordedHasRows
        /\ NoStrayAdapter /\ DeadSocketMeansCrash /\ SoleAlone /\ FirstInstallAnswered

-----------------------------------------------------------------------------
(* What an operation starts from.                                          *)
LEMMA IdleType ==
  ASSUME NEW h \in 0..MaxLaunches
  PROVE  Idle(h) \in InstType
BY BoundsAssumption DEF Idle, InstType, Manifests

(* The operation of one Installer begins; the others only lose the claim   *)
(* to be alone.                                                            *)
LEMMA BeginType ==
  ASSUME NEW i \in Installers, NEW new \in InstType, inst \in [Installers -> InstType],
         Begin(i, new)
  PROVE  /\ inst' \in [Installers -> InstType] /\ inst'[i] = new
         /\ \A j \in Installers : j # i => inst'[j] = [inst[j] EXCEPT !.sole = FALSE]
<1>1. \A j \in Installers : [inst[j] EXCEPT !.sole = FALSE] \in InstType
  BY DEF InstType
<1>2. inst' = [j \in Installers |-> IF j = i THEN new ELSE [inst[j] EXCEPT !.sole = FALSE]]
  BY DEF Begin
<1> QED
  BY <1>1, <1>2

(* Nothing is installed yet.                                               *)
LEMMA InitIInv == Init => IInv
<1> SUFFICES ASSUME Init PROVE IInv
  OBVIOUS
<1>1. NoProc \in ProcType /\ NoProc.st = "none"
  BY DEF NoProc, ProcType
<1>2. Idle(0) \in InstType
  BY IdleType, BoundsAssumption
<1>3. Shape
  BY <1>1, <1>2, BoundsAssumption DEF Init, Shape
<1>4. Unstarted
  BY DEF Init, Unstarted
<1>5. Hands /\ RowsSeen /\ SoleAlone /\ FirstInstallAnswered
  BY BoundsAssumption DEF Init, Hands, Owning, RowsSeen, SoleAlone, FirstInstallAnswered, Idle, Working
<1>6. RecordedHasRows
  BY DEF Init, RecordedHasRows, NoRecord
<1>7. NoStrayAdapter /\ DeadSocketMeansCrash
  BY <1>1 DEF Init, NoStrayAdapter, DeadSocketMeansCrash, Alive
<1> QED
  BY <1>3, <1>4, <1>5, <1>6, <1>7 DEF IInv

-----------------------------------------------------------------------------
(* An Installer without work begins an operation that has launched nothing. *)
LEMMA BeginIInv ==
  ASSUME IInv, NEW i \in Installers, NEW new \in InstType, Begin(i, new),
         ~Working(i), inst[i].pc # "killed",
         new.own = 0, new.held = inst[i].held, new.pc \in {"lookup", "done"},
         new.res # "installed", new.sole => Sole(i),
         UNCHANGED <<record, rows, proc, sock, launches>>, commands' \in 0..MaxCommands
  PROVE  IInv'
<1>1. /\ inst \in [Installers -> InstType] /\ inst[i].held \in 0..MaxLaunches
      /\ inst[i].held <= launches
  BY DEF IInv, Shape, Hands, InstType
<1>2. /\ inst' \in [Installers -> InstType] /\ inst'[i] = new
      /\ \A j \in Installers : j # i => inst'[j] = [inst[j] EXCEPT !.sole = FALSE]
  BY <1>1, BeginType
<1>3. \A j \in Installers : j # i =>
        /\ inst'[j].pc = inst[j].pc /\ inst'[j].own = inst[j].own /\ inst'[j].held = inst[j].held
        /\ inst'[j].op = inst[j].op /\ inst'[j].box = inst[j].box /\ inst'[j].res = inst[j].res
        /\ ~inst'[j].sole
  BY <1>1, <1>2 DEF InstType
<1>4. Shape' /\ Unstarted'
  BY <1>2 DEF IInv, Shape, Unstarted
<1>5. Hands' /\ RowsSeen'
  BY <1>1, <1>2, <1>3 DEF IInv, Hands, Owning, RowsSeen, Shape, Working
<1>6. RecordedHasRows' /\ DeadSocketMeansCrash'
  BY DEF IInv, RecordedHasRows, DeadSocketMeansCrash
<1>7. NoStrayAdapter'
  BY <1>3 DEF IInv, NoStrayAdapter, Alive, Working
<1>8. SoleAlone'
  BY <1>2, <1>3 DEF SoleAlone, Sole, Working, Alive
<1>9. FirstInstallAnswered'
  BY <1>2, <1>3 DEF FirstInstallAnswered
<1> QED
  BY <1>4, <1>5, <1>6, <1>7, <1>8, <1>9 DEF IInv

(* An install command begins, or is refused.                               *)
LEMMA CommandIInv ==
  ASSUME IInv, NEW i \in Installers, NEW m \in Manifests, NEW a, Command(i, m, a)
  PROVE  IInv'
<1>1. inst \in [Installers -> InstType] /\ inst[i].held \in 0..MaxLaunches
  BY DEF IInv, Shape, InstType
<1>2. UNCHANGED <<record, rows, proc, sock, launches>> /\ commands' \in 0..MaxCommands
  BY BoundsAssumption DEF IInv, Shape, Command
<1>3. ~Working(i) /\ inst[i].pc # "killed"
  BY DEF Command
<1> DEFINE cmd == [Idle(inst[i].held) EXCEPT !.op = "install", !.box = m, !.sole = Sole(i)]
<1>4. Sole(i) \in BOOLEAN
  BY DEF Sole
<1>5. cmd \in InstType /\ cmd.own = 0 /\ cmd.held = inst[i].held
      /\ cmd.sole = Sole(i) /\ cmd.res = "none"
  BY <1>1, <1>4, IdleType DEF InstType, Idle
<1> HIDE DEF cmd
<1>6. Begin(i, IF a /\ PathOK(m) THEN [cmd EXCEPT !.pc = "lookup"]
               ELSE [cmd EXCEPT !.pc = "done", !.res = "refused"])
  BY DEF Command, cmd
<1>7. CASE a /\ PathOK(m)
  <2> DEFINE n == [cmd EXCEPT !.pc = "lookup"]
  <2>1. n \in InstType /\ n.own = 0 /\ n.held = inst[i].held
        /\ n.sole = Sole(i) /\ n.pc = "lookup" /\ n.res = "none"
    BY <1>5 DEF InstType
  <2>2. Begin(i, n)
    BY <1>6, <1>7
  <2> QED
    BY <1>2, <1>3, <2>1, <2>2, BeginIInv
<1>8. CASE ~(a /\ PathOK(m))
  <2> DEFINE n == [cmd EXCEPT !.pc = "done", !.res = "refused"]
  <2>1. n \in InstType /\ n.own = 0 /\ n.held = inst[i].held
        /\ n.sole = Sole(i) /\ n.pc = "done" /\ n.res = "refused"
    BY <1>5 DEF InstType
  <2>2. Begin(i, n)
    BY <1>6, <1>8
  <2> QED
    BY <1>2, <1>3, <2>1, <2>2, BeginIInv
<1> QED
  BY <1>7, <1>8

(* A remove command begins.                                                *)
LEMMA RemoveIInv ==
  ASSUME IInv, NEW i \in Installers, Remove(i)
  PROVE  IInv'
<1>1. inst \in [Installers -> InstType] /\ inst[i].held \in 0..MaxLaunches
  BY DEF IInv, Shape, InstType
<1>2. UNCHANGED <<record, rows, proc, sock, launches>> /\ commands' \in 0..MaxCommands
  BY BoundsAssumption DEF IInv, Shape, Remove
<1> DEFINE n == [Idle(inst[i].held) EXCEPT !.op = "remove", !.pc = "lookup"]
<1>3. n \in InstType /\ n.own = 0 /\ n.held = inst[i].held /\ ~n.sole /\ n.pc = "lookup"
      /\ n.res = "none"
  BY <1>1, IdleType DEF InstType, Idle
<1>4. Begin(i, n) /\ ~Working(i) /\ inst[i].pc # "killed"
  BY DEF Remove
<1> QED
  BY <1>2, <1>3, <1>4, BeginIInv

-----------------------------------------------------------------------------
(* Steps of an Installer at work.                                          *)

(* Processes are killed, told to stop or kept, and nothing else.           *)
ProcMoves ==
  /\ proc' \in [Procs -> ProcType]
  /\ \A p \in Procs : /\ proc'[p].st = proc[p].st \/ (Alive(p) /\ proc'[p].st = "crashed")
                      /\ proc[p].kept => proc'[p].kept
                      /\ p > launches => proc'[p] = proc[p]

(* The Installer goes on to another place: its operation, its manifest and *)
(* its adapter stay.                                                       *)
InstMoves(i, N) ==
  /\ inst' = [inst EXCEPT ![i] = N]
  /\ N.op = inst[i].op /\ N.box = inst[i].box /\ N.own = inst[i].own /\ N.sole = inst[i].sole
  /\ N.held \in {inst[i].held, 0}
  /\ Working(i)

(* Such a move preserves the invariant, if it leaves nothing it owns and   *)
(* says nothing is installed that has no rows.                             *)
LEMMA MoveIInv ==
  ASSUME IInv, NEW i \in Installers, NEW N \in InstType, InstMoves(i, N), ProcMoves,
         N.pc \in Owning => inst[i].pc \in Owning,
         N.pc \in {"lookup", "launch"} => inst[i].pc = "lookup",
         N.pc \in {"wait", "health", "save"} => inst[i].pc \in {"wait", "health", "save"},
         N.pc = "launch" => inst[i].op = "install",
         N.pc \in {"signal", "linger"} => N.held # 0,
         N.pc \in {"health", "save"} /\ inst[i].box.prims = "own" => rows # "none",
         inst[i].pc \in Owning /\ N.pc \notin Owning \cup {"killed"} =>
           proc'[inst[i].own].kept \/ proc'[inst[i].own].st \notin {"starting", "bound", "registered"},
         N.res = "installed" => inst[i].pc = "save" /\ N.pc = "done",
         rows' = rows \/ (rows = "active" /\ rows' = "unavailable"),
         record'.prims = "own" => record.prims = "own" \/ rows # "none",
         UNCHANGED <<sock, launches, commands>>
  PROVE  IInv'
<1>1. /\ inst \in [Installers -> InstType] /\ proc \in [Procs -> ProcType]
      /\ launches \in 0..MaxLaunches /\ rows \in {"none", "active", "unavailable"}
  BY DEF IInv, Shape
<1>2. /\ inst' \in [Installers -> InstType] /\ inst'[i] = N
      /\ \A j \in Installers : j # i => inst'[j] = inst[j]
  BY <1>1 DEF InstMoves
<1>3. /\ N.op = inst[i].op /\ N.box = inst[i].box /\ N.own = inst[i].own /\ N.sole = inst[i].sole
      /\ N.held \in {inst[i].held, 0} /\ Working(i)
  BY DEF InstMoves
<1>4. /\ rows' \in {"none", "active", "unavailable"} /\ (rows # "none" => rows' # "none")
      /\ (rows = "none" => rows' = "none")
  BY <1>1
<1>5. \A p \in Procs : Alive(p)' => Alive(p)
  BY DEF Alive, ProcMoves
<1>6. Shape' /\ Unstarted'
  BY <1>1, <1>2, <1>4 DEF IInv, Shape, Unstarted, ProcMoves
<1>7. Hands'
  BY <1>1, <1>2, <1>3 DEF IInv, Hands, Owning, Working
<1>8. RowsSeen'
  BY <1>2, <1>3, <1>4 DEF IInv, RowsSeen
<1>9. RecordedHasRows'
  BY <1>4 DEF IInv, RecordedHasRows
<1>10. DeadSocketMeansCrash'
  BY DEF IInv, Shape, DeadSocketMeansCrash, ProcMoves, Alive, Procs
<1>11. NoStrayAdapter'
  <2> SUFFICES ASSUME NEW p \in Procs, Alive(p)', ~proc'[p].kept
               PROVE  \E j \in Installers : inst'[j].own = p /\ inst'[j].pc \in Owning \cup {"killed"}
    BY DEF NoStrayAdapter, Owning
  <2>1. Alive(p) /\ ~proc[p].kept
    BY <1>5 DEF ProcMoves
  <2>2. PICK j \in Installers : inst[j].own = p /\ inst[j].pc \in Owning \cup {"killed"}
    BY <2>1 DEF IInv, NoStrayAdapter, Owning
  <2>3. CASE j # i
    BY <1>2, <2>2, <2>3
  <2>4. CASE j = i
    <3>1. inst[i].pc \in Owning
      BY <1>3, <2>2, <2>4 DEF Working
    <3>2. N.pc \in Owning \cup {"killed"}
      BY <2>2, <2>4, <3>1 DEF Alive
    <3> QED
      BY <1>2, <1>3, <2>2, <2>4, <3>2
  <2> QED
    BY <2>3, <2>4
<1>12. \A p \in Procs : proc[p].st \in AfterRegister => proc'[p].st \in AfterRegister
  BY DEF AfterRegister, ProcMoves
<1>13. \A j \in Installers : inst[j].pc \in Owning => inst[j].own \in Procs
  BY <1>1, BoundsAssumption DEF IInv, Hands, InstType, Procs
<1>14. SoleAlone'
  <2> SUFFICES ASSUME NEW j \in Installers, inst'[j].sole, Working(j)'
               PROVE  /\ \A k \in Installers : k # j => ~Working(k)'
                      /\ inst'[j].pc \in {"lookup", "launch"} =>
                           rows' = "none" /\ \A p \in Procs : ~Alive(p)'
                      /\ inst'[j].pc \in {"wait", "health", "save"} =>
                           /\ \A p \in Procs : Alive(p)' => p = inst'[j].own
                           /\ rows' # "none" => proc'[inst'[j].own].st \in AfterRegister
    BY DEF SoleAlone
  <2>1. Working(j) /\ inst[j].sole
    BY <1>2, <1>3 DEF Working
  <2>2. j = i
    BY <1>3, <2>1 DEF IInv, SoleAlone
  <2>3. \A k \in Installers : k # i => ~Working(k)'
    BY <1>2, <2>1, <2>2 DEF IInv, SoleAlone, Working
  <2>4. ASSUME N.pc \in {"lookup", "launch"}
        PROVE  rows' = "none" /\ \A p \in Procs : ~Alive(p)'
    BY <1>4, <1>5, <2>1, <2>2, <2>4 DEF IInv, SoleAlone
  <2>5. ASSUME N.pc \in {"wait", "health", "save"}
        PROVE  /\ \A p \in Procs : Alive(p)' => p = N.own
               /\ rows' # "none" => proc'[inst[i].own].st \in AfterRegister
    <3>1. inst[i].pc \in {"wait", "health", "save"} /\ inst[i].own \in Procs
      BY <1>13, <2>5 DEF Owning
    <3>2. /\ \A p \in Procs : Alive(p) => p = inst[i].own
          /\ rows # "none" => proc[inst[i].own].st \in AfterRegister
      BY <2>1, <2>2, <3>1 DEF IInv, SoleAlone
    <3> QED
      BY <1>3, <1>4, <1>5, <1>12, <3>1, <3>2
  <2> QED
    BY <1>2, <1>3, <2>2, <2>3, <2>4, <2>5
<1>15. FirstInstallAnswered'
  <2> SUFFICES ASSUME NEW j \in Installers, inst'[j].sole, inst'[j].res = "installed",
                      inst'[j].op = "install", inst'[j].box.prims = "own"
               PROVE  proc'[inst'[j].own].st \in AfterRegister /\ rows' # "none"
    BY DEF FirstInstallAnswered, AfterRegister
  <2>1. inst'[j].own = inst[j].own /\ inst[j].sole /\ inst[j].op = "install" /\ inst[j].box.prims = "own"
    BY <1>2, <1>3
  <2>2. proc[inst[j].own].st \in AfterRegister /\ rows # "none" /\ inst[j].own \in Procs
    <3>1. CASE inst[j].res = "installed"
      <4>1. inst[j].own \in Procs
        BY <1>1, <2>1, <3>1, BoundsAssumption DEF IInv, Hands, InstType, Procs
      <4> QED
        BY <2>1, <3>1, <4>1 DEF IInv, FirstInstallAnswered, AfterRegister
    <3>2. CASE j = i /\ inst[i].pc = "save"
      BY <1>3, <1>13, <2>1, <3>2 DEF IInv, RowsSeen, SoleAlone, Owning
    <3> QED
      BY <1>2, <3>1, <3>2
  <2> QED
    BY <1>4, <1>12, <2>1, <2>2
<1> QED
  BY <1>6, <1>7, <1>8, <1>9, <1>10, <1>11, <1>14, <1>15 DEF IInv

(* The record of an Installer after Go and after Returns.                  *)
LEMMA GoMoves ==
  ASSUME IInv, NEW i \in Installers, Working(i),
         NEW at \in {"lookup", "launch", "wait", "health", "save", "undo", "unrecord", "drain",
                     "signal", "linger", "delete", "killed"},
         Go(i, at)
  PROVE  \E N \in InstType : InstMoves(i, N) /\ N.pc = at /\ N.res # "installed" /\ N.held = inst[i].held
<1> DEFINE N == [inst[i] EXCEPT !.pc = at]
<1>1. inst \in [Installers -> InstType] /\ inst[i] \in InstType
  BY DEF IInv, Shape
<1>2. /\ N \in InstType /\ N.pc = at /\ N.res = inst[i].res /\ N.held = inst[i].held
      /\ N.op = inst[i].op /\ N.box = inst[i].box /\ N.own = inst[i].own /\ N.sole = inst[i].sole
  BY <1>1 DEF InstType
<1>3. inst' = [inst EXCEPT ![i] = N]
  BY <1>1 DEF Go
<1>4. inst[i].res # "installed"
  BY DEF IInv, Hands
<1> QED
  BY <1>2, <1>3, <1>4 DEF InstMoves

(* An operation that returns makes such a move.                            *)
LEMMA ReturnMoves ==
  ASSUME IInv, NEW i \in Installers, Working(i),
         NEW res \in {"skipped", "installed", "failed", "not_installed", "removed"},
         Returns(i, res)
  PROVE  \E N \in InstType : InstMoves(i, N) /\ N.pc = "done" /\ N.res = res
<1> DEFINE h == IF i \in LongLived THEN inst[i].held ELSE 0
           N == [inst[i] EXCEPT !.pc = "done", !.res = res, !.held = h]
<1>1. inst \in [Installers -> InstType] /\ inst[i] \in InstType /\ 0 \in 0..MaxLaunches
  BY BoundsAssumption DEF IInv, Shape
<1>2. h \in 0..MaxLaunches /\ h \in {inst[i].held, 0}
  BY <1>1 DEF InstType
<1>3. inst' = [inst EXCEPT ![i] = N]
  BY <1>1 DEF Returns
<1> HIDE DEF h
<1>4. /\ N \in InstType /\ N.pc = "done" /\ N.res = res /\ N.held = h
      /\ N.op = inst[i].op /\ N.box = inst[i].box /\ N.own = inst[i].own /\ N.sole = inst[i].sole
  BY <1>1, <1>2 DEF InstType
<1> QED
  BY <1>2, <1>3, <1>4 DEF InstMoves

(* Processes that are left alone, or of which one is killed.               *)
LEMMA ProcsStay ==
  ASSUME IInv, UNCHANGED proc
  PROVE  ProcMoves
BY DEF IInv, Shape, ProcMoves

(* A killed process is none of the living.                                 *)
LEMMA KilledMoves ==
  ASSUME IInv, NEW p \in Procs, p <= launches, proc' = Killed(p)
  PROVE  ProcMoves /\ proc'[p].st \notin {"starting", "bound", "registered"}
<1> DEFINE st == IF Alive(p) THEN "crashed" ELSE proc[p].st
           N == [proc[p] EXCEPT !.st = st]
<1>1. proc \in [Procs -> ProcType] /\ proc[p] \in ProcType /\ launches \in Nat /\ p \in Nat
  BY DEF IInv, Shape, Procs
<1>2. st \in {"none", "exited", "crashed"} /\ (st = proc[p].st \/ (Alive(p) /\ st = "crashed"))
  <2>1. CASE Alive(p)
    BY <2>1
  <2>2. CASE ~Alive(p)
    BY <1>1, <2>2 DEF Alive, ProcType
  <2> QED
    BY <2>1, <2>2
<1>3. proc' = [proc EXCEPT ![p] = N]
  BY <1>1 DEF Killed
<1> HIDE DEF st
<1>4. N \in ProcType /\ N.st = st /\ N.kept = proc[p].kept
  BY <1>1, <1>2 DEF ProcType
<1> QED
  BY <1>1, <1>2, <1>3, <1>4 DEF ProcMoves

-----------------------------------------------------------------------------
(* Steps that leave the processes alone: to another place in the code ...  *)
LEMMA GoStepIInv ==
  ASSUME IInv, NEW i \in Installers,
         \/ LookupExisting(i) /\ record.version # inst[i].box.version
         \/ Poll(i) \/ WaitTimesOut(i) \/ HealthPasses(i) \/ HealthFails(i) \/ SaveFails(i)
         \/ LookupInstalled(i) /\ record # NoRecord
         \/ Drain(i) \/ CommandDies(i)
  PROVE  IInv'
<1>1. ProcMoves /\ UNCHANGED <<record, sock, launches, commands>>
  BY ProcsStay DEF LookupExisting, Poll, WaitTimesOut, HealthPasses, HealthFails, SaveFails,
       LookupInstalled, Drain, CommandDies
<1>2. rows \in {"none", "active", "unavailable"}
  BY DEF IInv, Shape
<1>3. CASE LookupExisting(i) /\ record.version # inst[i].box.version
  <2>1. PICK N \in InstType : InstMoves(i, N) /\ N.pc = "launch" /\ N.res # "installed"
    BY <1>3, GoMoves DEF LookupExisting, At, Working
  <2> QED
    BY <1>1, <1>3, <2>1, MoveIInv DEF LookupExisting, At, Owning
<1>4. CASE Poll(i)
  <2>1. PICK at \in {"health", "save"} : Go(i, at)
    BY <1>4 DEF Poll, AfterWait
  <2>2. PICK N \in InstType : InstMoves(i, N) /\ N.pc = at /\ N.res # "installed"
    BY <1>4, <2>1, GoMoves DEF Poll, At, Working
  <2> QED
    BY <1>1, <1>4, <2>2, MoveIInv DEF Poll, At, Owning
<1>5. CASE WaitTimesOut(i)
  <2>1. PICK N \in InstType : InstMoves(i, N) /\ N.pc = "undo" /\ N.res # "installed"
    BY <1>5, GoMoves DEF WaitTimesOut, At, Working
  <2> QED
    BY <1>1, <1>5, <2>1, MoveIInv DEF WaitTimesOut, At, Owning
<1>6. CASE HealthPasses(i)
  <2>1. PICK N \in InstType : InstMoves(i, N) /\ N.pc = "save" /\ N.res # "installed"
    BY <1>6, GoMoves DEF HealthPasses, At, Working
  <2> QED
    BY <1>1, <1>6, <2>1, MoveIInv DEF HealthPasses, At, Owning
<1>7. CASE HealthFails(i)
  <2>1. PICK N \in InstType : InstMoves(i, N) /\ N.pc = "undo" /\ N.res # "installed"
    BY <1>7, GoMoves DEF HealthFails, At, Working
  <2> QED
    BY <1>1, <1>7, <2>1, MoveIInv DEF HealthFails, At, Owning
<1>8. CASE SaveFails(i)
  <2>1. PICK N \in InstType : InstMoves(i, N) /\ N.pc = "undo" /\ N.res # "installed"
    BY <1>8, GoMoves DEF SaveFails, At, Working
  <2> QED
    BY <1>1, <1>8, <2>1, MoveIInv DEF SaveFails, At, Owning
<1>9. CASE LookupInstalled(i) /\ record # NoRecord
  <2>1. PICK N \in InstType : InstMoves(i, N) /\ N.pc = "drain" /\ N.res # "installed"
    BY <1>9, GoMoves DEF LookupInstalled, At, Working
  <2> QED
    BY <1>1, <1>9, <2>1, MoveIInv DEF LookupInstalled, At, Owning
<1>10. CASE Drain(i)
  <2>1. PICK at \in {"signal", "delete"} : Go(i, at) /\ (at = "signal" => inst[i].held # 0)
    BY <1>10 DEF Drain
  <2>2. PICK N \in InstType : InstMoves(i, N) /\ N.pc = at /\ N.res # "installed" /\ N.held = inst[i].held
    BY <1>10, <2>1, GoMoves DEF Drain, At, Working
  <2> QED
    BY <1>1, <1>10, <2>1, <2>2, MoveIInv DEF Drain, At, Owning
<1>11. CASE CommandDies(i)
  <2>1. Go(i, "killed")
    BY <1>11 DEF CommandDies, Go
  <2>2. PICK N \in InstType : InstMoves(i, N) /\ N.pc = "killed" /\ N.res # "installed"
    BY <1>11, <2>1, GoMoves DEF CommandDies
  <2> QED
    BY <1>1, <1>11, <2>2, MoveIInv DEF CommandDies, Owning
<1> QED
  BY <1>3, <1>4, <1>5, <1>6, <1>7, <1>8, <1>9, <1>10, <1>11

(* ... or to the end of the command.                                       *)
LEMMA ReturnStepIInv ==
  ASSUME IInv, NEW i \in Installers,
         \/ LookupExisting(i) /\ record.version = inst[i].box.version
         \/ LaunchFails(i) \/ UndoRecord(i)
         \/ LookupInstalled(i) /\ record = NoRecord
         \/ DeleteRecord(i)
  PROVE  IInv'
<1>1. ProcMoves /\ UNCHANGED <<rows, sock, launches, commands>>
  BY ProcsStay DEF LookupExisting, LaunchFails, UndoRecord, LookupInstalled, DeleteRecord
<1>2. record' \in {record, NoRecord} /\ NoRecord.prims # "own"
  BY DEF LookupExisting, LaunchFails, UndoRecord, LookupInstalled, DeleteRecord, NoRecord
<1>3. Working(i) /\ inst[i].pc \notin Owning
  BY DEF LookupExisting, LaunchFails, UndoRecord, LookupInstalled, DeleteRecord, At, Working, Owning
<1>4. PICK res \in {"skipped", "failed", "not_installed", "removed"} : Returns(i, res)
  BY DEF LookupExisting, LaunchFails, UndoRecord, LookupInstalled, DeleteRecord
<1>5. PICK N \in InstType : InstMoves(i, N) /\ N.pc = "done" /\ N.res = res
  BY <1>3, <1>4, ReturnMoves
<1> QED
  BY <1>1, <1>2, <1>3, <1>5, MoveIInv DEF Owning

(* store.Save: the adapter is kept.                                        *)
LEMMA SaveIInv ==
  ASSUME IInv, NEW i \in Installers, Save(i)
  PROVE  IInv'
<1>1. /\ proc \in [Procs -> ProcType] /\ inst[i].pc = "save" /\ launches \in Nat
      /\ inst[i].own \in Procs /\ inst[i].own <= launches
  BY BoundsAssumption DEF IInv, Shape, Hands, Owning, InstType, Procs, Save, At
<1> DEFINE M == [proc[inst[i].own] EXCEPT !.kept = TRUE]
<1>2. M \in ProcType /\ M.kept /\ M.st = proc[inst[i].own].st
  BY <1>1 DEF ProcType
<1>3. proc' = [proc EXCEPT ![inst[i].own] = M]
  BY <1>1 DEF Save
<1> HIDE DEF M
<1>4. ProcMoves /\ proc'[inst[i].own].kept
  BY <1>1, <1>2, <1>3 DEF ProcMoves, Procs
<1>5. PICK N \in InstType : InstMoves(i, N) /\ N.pc = "done" /\ N.res = "installed"
  BY <1>1, ReturnMoves DEF Save, Working
<1>6. record'.prims = "own" => rows # "none"
  BY <1>1 DEF Save, IInv, RowsSeen
<1> QED
  BY <1>1, <1>4, <1>5, <1>6, MoveIInv DEF Save, Owning

(* The two places where an Installer kills a process of its own.           *)
LEMMA KillStepIInv ==
  ASSUME IInv, NEW i \in Installers, UndoLaunch(i) \/ Kill(i)
  PROVE  IInv'
<1>1. inst \in [Installers -> InstType] /\ inst[i] \in InstType /\ 0 \in 0..MaxLaunches
  BY BoundsAssumption DEF IInv, Shape
<1>2. PICK at \in {"unrecord", "delete"} : inst' = [inst EXCEPT ![i].pc = at, ![i].held = 0]
  BY DEF UndoLaunch, Kill
<1> DEFINE N == [inst[i] EXCEPT !.pc = at, !.held = 0]
<1>3. /\ N \in InstType /\ N.pc = at /\ N.res # "installed" /\ N.held = 0
      /\ N.op = inst[i].op /\ N.box = inst[i].box /\ N.own = inst[i].own /\ N.sole = inst[i].sole
  <2>1. inst[i].res # "installed"
    BY DEF IInv, Hands, UndoLaunch, Kill, At, Working
  <2> QED
    BY <1>1, <2>1 DEF InstType
<1>4. inst' = [inst EXCEPT ![i] = N]
  BY <1>1, <1>2
<1> HIDE DEF N
<1>5. InstMoves(i, N)
  BY <1>3, <1>4 DEF InstMoves, UndoLaunch, Kill, At, Working
<1>6. CASE UndoLaunch(i)
  <2>1. inst[i].own \in Procs /\ inst[i].own <= launches /\ proc' = Killed(inst[i].own)
    BY <1>1, <1>6, BoundsAssumption DEF IInv, Hands, Owning, InstType, Procs, UndoLaunch, At
  <2>2. ProcMoves /\ proc'[inst[i].own].st \notin {"starting", "bound", "registered"}
    BY <2>1, KilledMoves
  <2> QED
    BY <1>3, <1>5, <1>6, <2>2, MoveIInv DEF UndoLaunch, At, Owning
<1>7. CASE Kill(i)
  <2>1. inst[i].held \in Procs /\ inst[i].held <= launches /\ proc' = Killed(inst[i].held)
    BY <1>1, <1>7, BoundsAssumption DEF IInv, Hands, InstType, Procs, Kill, At
  <2>2. ProcMoves
    BY <2>1, KilledMoves
  <2> QED
    BY <1>3, <1>5, <1>7, <2>2, MoveIInv DEF Kill, At, Owning
<1> QED
  BY <1>6, <1>7

(* SIGTERM changes nothing but what the process has been told.             *)
LEMMA SignalIInv ==
  ASSUME IInv, NEW i \in Installers, Signal(i)
  PROVE  IInv'
<1>1. /\ proc \in [Procs -> ProcType] /\ inst[i].pc = "signal" /\ launches \in Nat
      /\ inst[i].held \in Procs /\ inst[i].held <= launches
  BY BoundsAssumption DEF IInv, Shape, Hands, InstType, Procs, Signal, At
<1> DEFINE M == [proc[inst[i].held] EXCEPT !.term = TRUE]
<1>2. M \in ProcType /\ M.kept = proc[inst[i].held].kept /\ M.st = proc[inst[i].held].st
  BY ZenonT(60), <1>1 DEF ProcType
<1>3. proc' = [proc EXCEPT ![inst[i].held] = M]
  BY <1>1 DEF Signal
<1> HIDE DEF M
<1>4. ProcMoves
  BY <1>1, <1>2, <1>3 DEF ProcMoves, Procs
<1>5. PICK N \in InstType : InstMoves(i, N) /\ N.pc = "linger" /\ N.res # "installed" /\ N.held = inst[i].held
  BY <1>1, GoMoves DEF Signal, Working
<1>6. N.held # 0
  BY <1>1, <1>5 DEF Procs
<1> QED
  BY <1>1, <1>4, <1>5, <1>6, MoveIInv DEF Signal, Owning

-----------------------------------------------------------------------------
(* Launches.                                                               *)

(* A process that was never started, and the launched one in its place.    *)
LEMMA StartFacts ==
  ASSUME IInv, launches < MaxLaunches, NEW M \in ProcType, M.st = "starting",
         proc' = [proc EXCEPT ![launches + 1] = M], launches' = launches + 1,
         UNCHANGED <<sock, rows>>
  PROVE  /\ launches + 1 \in Procs /\ launches' \in 0..MaxLaunches /\ launches \in Nat
         /\ proc' \in [Procs -> ProcType] /\ proc'[launches + 1] = M
         /\ \A p \in Procs : p # launches + 1 => proc'[p] = proc[p]
         /\ proc[launches + 1] = NoProc
         /\ Unstarted' /\ DeadSocketMeansCrash'
<1>1. /\ proc \in [Procs -> ProcType] /\ launches \in 0..MaxLaunches /\ sock \in 0..MaxLaunches
      /\ MaxLaunches \in Nat /\ Unstarted /\ DeadSocketMeansCrash
  BY BoundsAssumption DEF IInv, Shape
<1>2. launches + 1 \in Procs /\ launches' \in 0..MaxLaunches /\ launches \in Nat
  BY <1>1 DEF Procs
<1>3. proc[launches + 1] = NoProc
  BY <1>1, <1>2 DEF Unstarted
<1>4. /\ proc' \in [Procs -> ProcType] /\ proc'[launches + 1] = M
      /\ \A p \in Procs : p # launches + 1 => proc'[p] = proc[p]
  BY <1>1, <1>2
<1>5. Unstarted'
  BY <1>1, <1>2, <1>4 DEF Unstarted, Procs
<1>6. DeadSocketMeansCrash'
  <2>1. sock # 0 => sock \in Procs /\ sock # launches + 1
    BY <1>1, <1>3 DEF DeadSocketMeansCrash, NoProc, Procs
  <2> QED
    BY <1>1, <1>4, <2>1 DEF DeadSocketMeansCrash
<1> QED
  BY <1>2, <1>3, <1>4, <1>5, <1>6

(* The install launches its adapter and waits for it.                      *)
LEMMA LaunchIInv ==
  ASSUME IInv, NEW i \in Installers, Launch(i)
  PROVE  IInv'
<1> DEFINE p == launches + 1
           M == [proc[p] EXCEPT !.st = "starting"]
           N == [inst[i] EXCEPT !.pc = "wait", !.own = p, !.held = p]
<1>1. /\ inst \in [Installers -> InstType] /\ proc \in [Procs -> ProcType]
      /\ inst[i].pc = "launch" /\ launches < MaxLaunches /\ launches \in 0..MaxLaunches
      /\ Hands /\ MaxLaunches \in Nat
  BY BoundsAssumption DEF IInv, Shape, Launch, At
<1>2. p \in Procs /\ p \in 0..MaxLaunches /\ p # 0
  BY <1>1 DEF Procs
<1>3. M \in ProcType /\ M.st = "starting" /\ M.kept = proc[p].kept
  BY <1>1, <1>2 DEF ProcType
<1>4. /\ N \in InstType /\ N.pc = "wait" /\ N.own = p /\ N.held = p /\ N.op = inst[i].op
      /\ N.box = inst[i].box /\ N.sole = inst[i].sole /\ N.res = inst[i].res
  BY <1>1, <1>2 DEF InstType
<1>5. /\ proc' = [proc EXCEPT ![p] = M] /\ inst' = [inst EXCEPT ![i] = N] /\ launches' = p
      /\ UNCHANGED <<record, rows, sock, commands>>
  BY <1>1, <1>2 DEF Launch
<1> HIDE DEF M, N
<1>6. /\ proc' \in [Procs -> ProcType] /\ proc'[p] = M /\ launches' \in 0..MaxLaunches
      /\ \A q \in Procs : q # p => proc'[q] = proc[q]
      /\ Unstarted' /\ DeadSocketMeansCrash'
  BY <1>1, <1>3, <1>5, StartFacts
<1>7. /\ inst' \in [Installers -> InstType] /\ inst'[i] = N
      /\ \A j \in Installers : j # i => inst'[j] = inst[j]
  BY <1>1, <1>4, <1>5
<1>8. Shape' /\ RecordedHasRows'
  BY <1>5, <1>6, <1>7 DEF IInv, Shape, RecordedHasRows
<1>9. inst[i].op = "install" /\ inst[i].res # "installed" /\ Working(i)
  BY <1>1 DEF Hands, Working
<1>10. Hands'
  <2>1. \A j \in Installers : inst[j].own \in 0..MaxLaunches /\ inst[j].held \in 0..MaxLaunches
    BY <1>1 DEF InstType
  <2> QED
    BY <1>1, <1>2, <1>4, <1>5, <1>7, <1>9, <2>1 DEF Hands, Owning, Working
<1>11. RowsSeen'
  BY <1>4, <1>5, <1>7 DEF IInv, RowsSeen
<1>12. NoStrayAdapter'
  BY <1>1, <1>4, <1>6, <1>7 DEF IInv, NoStrayAdapter, Alive
<1>13. SoleAlone'
  BY <1>1, <1>4, <1>5, <1>6, <1>7, <1>9 DEF IInv, SoleAlone, Working, Alive
<1>14. FirstInstallAnswered'
  <2> SUFFICES ASSUME NEW j \in Installers, inst'[j].sole, inst'[j].res = "installed",
                      inst'[j].op = "install", inst'[j].box.prims = "own"
               PROVE  proc'[inst'[j].own].st \in AfterRegister /\ rows' # "none"
    BY DEF FirstInstallAnswered, AfterRegister
  <2>1. j # i /\ inst'[j] = inst[j]
    BY <1>4, <1>7, <1>9
  <2>2. inst[j].own \in Procs /\ inst[j].own # p
    BY <1>1, <2>1 DEF Hands, InstType, Procs
  <2> QED
    BY <1>5, <1>6, <2>1, <2>2 DEF IInv, FirstInstallAnswered, AfterRegister
<1> QED
  BY <1>6, <1>8, <1>10, <1>11, <1>12, <1>13, <1>14 DEF IInv

(* LaunchInstalled: the adapter is kept from the start.                    *)
LEMMA LaunchInstalledIInv ==
  ASSUME IInv, NEW i \in Installers, LaunchInstalled(i)
  PROVE  IInv'
<1> DEFINE p == launches + 1
           M == [st |-> "starting", term |-> FALSE, kept |-> TRUE]
           N == [Idle(p) EXCEPT !.op = "launch", !.pc = "done", !.res = "installed"]
<1>1. /\ inst \in [Installers -> InstType] /\ launches < MaxLaunches /\ launches \in 0..MaxLaunches
      /\ Hands /\ MaxLaunches \in Nat /\ ~Working(i) /\ inst[i].pc # "killed"
  BY BoundsAssumption DEF IInv, Shape, LaunchInstalled
<1>2. p \in 0..MaxLaunches
  BY <1>1
<1>3. M \in ProcType /\ M.st = "starting" /\ M.kept
  BY DEF ProcType
<1>4. /\ N \in InstType /\ N.pc = "done" /\ N.own = 0 /\ N.held = p /\ N.op = "launch" /\ ~N.sole
  BY <1>2, IdleType DEF InstType, Idle
<1>5. /\ proc' = [proc EXCEPT ![p] = M] /\ Begin(i, N) /\ launches' = p
      /\ UNCHANGED <<record, rows, sock>> /\ commands' \in 0..MaxCommands
  BY BoundsAssumption DEF LaunchInstalled, IInv, Shape
<1> HIDE DEF M, N
<1>6. /\ proc' \in [Procs -> ProcType] /\ proc'[p] = M /\ launches' \in 0..MaxLaunches
      /\ \A q \in Procs : q # p => proc'[q] = proc[q]
      /\ Unstarted' /\ DeadSocketMeansCrash'
  BY <1>1, <1>3, <1>5, StartFacts
<1>7. /\ inst' \in [Installers -> InstType] /\ inst'[i] = N
      /\ \A j \in Installers : j # i => inst'[j] = [inst[j] EXCEPT !.sole = FALSE]
  BY <1>1, <1>4, <1>5, BeginType
<1>8. \A j \in Installers : j # i =>
        /\ inst'[j].pc = inst[j].pc /\ inst'[j].own = inst[j].own /\ inst'[j].held = inst[j].held
        /\ inst'[j].op = inst[j].op /\ inst'[j].box = inst[j].box /\ inst'[j].res = inst[j].res
        /\ ~inst'[j].sole
  BY <1>1, <1>7 DEF InstType
<1>9. Shape' /\ RecordedHasRows'
  BY <1>5, <1>6, <1>7 DEF IInv, Shape, RecordedHasRows
<1>10. Hands'
  <2>1. \A j \in Installers : inst[j].own \in 0..MaxLaunches /\ inst[j].held \in 0..MaxLaunches
    BY <1>1 DEF InstType
  <2> QED
    BY <1>1, <1>4, <1>5, <1>7, <1>8, <2>1 DEF Hands, Owning, Working
<1>11. RowsSeen' /\ SoleAlone' /\ FirstInstallAnswered'
  BY <1>4, <1>5, <1>7, <1>8 DEF IInv, RowsSeen, SoleAlone, FirstInstallAnswered
<1>12. NoStrayAdapter'
  BY <1>1, <1>3, <1>6, <1>8 DEF IInv, NoStrayAdapter, Alive, Working
<1> QED
  BY <1>6, <1>9, <1>10, <1>11, <1>12 DEF IInv

-----------------------------------------------------------------------------
(* Adapter processes.                                                      *)

(* A live adapter goes on or ends; rows come only from one that registers. *)
LEMMA AdapterMoveIInv ==
  ASSUME IInv, NEW p \in Procs, Alive(p), NEW M \in ProcType, proc' = [proc EXCEPT ![p] = M],
         M.kept = proc[p].kept,
         proc[p].st \in AfterRegister => M.st \in AfterRegister,
         rows' = rows \/ (rows' = "active" /\ M.st = "registered"),
         sock' \in 0..MaxLaunches, DeadSocketMeansCrash',
         UNCHANGED <<record, inst, launches, commands>>
  PROVE  IInv'
<1>1. /\ inst \in [Installers -> InstType] /\ proc \in [Procs -> ProcType]
      /\ rows \in {"none", "active", "unavailable"} /\ Hands
  BY DEF IInv, Shape
<1>2. /\ proc' \in [Procs -> ProcType] /\ proc'[p] = M
      /\ \A q \in Procs : q # p => proc'[q] = proc[q]
  BY <1>1
<1>3. Shape' /\ Hands'
  BY <1>1, <1>2 DEF IInv, Shape, Hands, Working
<1>4. Unstarted'
  <2>1. NoProc.st = "none"
    BY DEF NoProc
  <2>2. ~(p > launches)
    BY <2>1 DEF IInv, Unstarted, Alive
  <2> QED
    BY <1>2, <2>2 DEF IInv, Unstarted
<1>5. rows # "none" => rows' # "none"
  BY <1>1
<1>6. RowsSeen' /\ RecordedHasRows'
  BY <1>5 DEF IInv, RowsSeen, RecordedHasRows
<1>7. NoStrayAdapter'
  BY <1>2 DEF IInv, NoStrayAdapter, Alive
<1>8. \A q \in Procs : proc[q].st \in AfterRegister => proc'[q].st \in AfterRegister
  BY <1>2
<1>9. \A q \in Procs : Alive(q)' => Alive(q)
  BY <1>2 DEF Alive
<1>10. \A j \in Installers : inst[j].pc \in Owning => inst[j].own \in Procs
  BY <1>1, BoundsAssumption DEF Hands, InstType, Procs
<1>11. SoleAlone'
  <2> SUFFICES ASSUME NEW j \in Installers, inst[j].sole, Working(j)
               PROVE  /\ \A k \in Installers : k # j => ~Working(k)
                      /\ inst[j].pc \in {"lookup", "launch"} =>
                           rows' = "none" /\ \A q \in Procs : ~Alive(q)'
                      /\ inst[j].pc \in {"wait", "health", "save"} =>
                           /\ \A q \in Procs : Alive(q)' => q = inst[j].own
                           /\ rows' # "none" => proc'[inst[j].own].st \in AfterRegister
    BY DEF SoleAlone, Working
  <2>1. \A k \in Installers : k # j => ~Working(k)
    BY DEF IInv, SoleAlone
  <2>2. inst[j].pc \notin {"lookup", "launch"}
    BY DEF IInv, SoleAlone
  <2>3. ASSUME inst[j].pc \in {"wait", "health", "save"}
        PROVE  /\ \A q \in Procs : Alive(q)' => q = inst[j].own
               /\ rows' # "none" => proc'[inst[j].own].st \in AfterRegister
    <3>1. /\ \A q \in Procs : Alive(q) => q = inst[j].own
          /\ rows # "none" => proc[inst[j].own].st \in AfterRegister
      BY <2>3 DEF IInv, SoleAlone
    <3>2. p = inst[j].own /\ inst[j].own \in Procs
      BY <1>10, <2>3, <3>1 DEF Owning
    <3> QED
      BY <1>2, <1>8, <1>9, <3>1, <3>2 DEF AfterRegister
  <2> QED
    BY <2>1, <2>2, <2>3
<1>12. FirstInstallAnswered'
  <2> SUFFICES ASSUME NEW j \in Installers, inst[j].sole, inst[j].res = "installed",
                      inst[j].op = "install", inst[j].box.prims = "own"
               PROVE  proc'[inst[j].own].st \in AfterRegister /\ rows' # "none"
    BY DEF FirstInstallAnswered, AfterRegister
  <2>1. inst[j].own \in Procs
    BY <1>1, BoundsAssumption DEF Hands, InstType, Procs
  <2> QED
    BY <1>5, <1>8, <2>1 DEF IInv, FirstInstallAnswered, AfterRegister
<1> QED
  BY <1>3, <1>4, <1>6, <1>7, <1>11, <1>12 DEF IInv

(* An adapter binds, registers, exits or crashes on its own.               *)
LEMMA AdapterStepIInv ==
  ASSUME IInv, NEW p \in Procs, AdapterStep(p)
  PROVE  IInv'
<1>1. /\ proc \in [Procs -> ProcType] /\ sock \in 0..MaxLaunches /\ DeadSocketMeansCrash
      /\ 0 \in 0..MaxLaunches /\ p \in 0..MaxLaunches /\ p # 0
  BY BoundsAssumption DEF IInv, Shape, Procs
<1>2. ASSUME NEW x \in {"bound", "registered", "exited", "crashed"}
      PROVE  LET M == [proc[p] EXCEPT !.st = x]
             IN  M \in ProcType /\ M.st = x /\ M.kept = proc[p].kept
  BY <1>1 DEF ProcType
<1>3. ASSUME NEW x \in {"bound", "registered", "exited", "crashed"}, proc' = [proc EXCEPT ![p].st = x]
      PROVE  /\ proc' = [proc EXCEPT ![p] = [proc[p] EXCEPT !.st = x]]
             /\ proc'[p].st = x /\ \A q \in Procs : q # p => proc'[q] = proc[q]
  BY <1>1, <1>2, <1>3
<1>4. sock # 0 => sock \in Procs
  BY <1>1 DEF Procs
<1>5. CASE Bind(p)
  <2>1. /\ proc[p].st = "starting" /\ proc' = [proc EXCEPT ![p].st = "bound"] /\ sock' = p
        /\ UNCHANGED <<record, rows, inst, launches, commands>>
    BY <1>5 DEF Bind
  <2>2. DeadSocketMeansCrash' /\ Alive(p) /\ proc[p].st \notin AfterRegister
    BY <1>3, <2>1 DEF DeadSocketMeansCrash, Alive, AfterRegister
  <2> QED
    BY <1>1, <1>2, <1>3, <2>1, <2>2, AdapterMoveIInv
<1>6. CASE RegisterRows(p)
  <2>1. /\ proc[p].st = "bound" /\ proc' = [proc EXCEPT ![p].st = "registered"] /\ rows' = "active"
        /\ UNCHANGED <<record, sock, inst, launches, commands>>
    BY <1>6 DEF RegisterRows
  <2>2. DeadSocketMeansCrash' /\ Alive(p) /\ proc[p].st \notin AfterRegister
    BY <1>1, <1>3, <1>4, <2>1 DEF DeadSocketMeansCrash, Alive, AfterRegister
  <2> QED
    BY <1>1, <1>2, <1>3, <2>1, <2>2, AdapterMoveIInv
<1>7. CASE RegisterRefused(p) \/ AdapterExits(p)
  <2>1. /\ proc[p].st \in {"bound", "registered"} /\ proc' = [proc EXCEPT ![p].st = "exited"]
        /\ sock' = 0 /\ UNCHANGED <<record, rows, inst, launches, commands>>
    BY <1>7 DEF RegisterRefused, AdapterExits, RunReturns
  <2>2. DeadSocketMeansCrash' /\ Alive(p) /\ "exited" \in AfterRegister
    BY <2>1 DEF DeadSocketMeansCrash, Alive, AfterRegister
  <2> QED
    BY <1>1, <1>2, <1>3, <2>1, <2>2, AdapterMoveIInv
<1>8. CASE AdapterCrashes(p)
  <2>1. /\ Alive(p) /\ proc' = [proc EXCEPT ![p].st = "crashed"]
        /\ UNCHANGED <<record, rows, sock, inst, launches, commands>>
    BY <1>8 DEF AdapterCrashes, Killed
  <2>2. DeadSocketMeansCrash' /\ "crashed" \in AfterRegister
    BY <1>1, <1>3, <1>4, <2>1 DEF DeadSocketMeansCrash, AfterRegister
  <2> QED
    BY <1>1, <1>2, <1>3, <2>1, <2>2, AdapterMoveIInv
<1> QED
  BY <1>5, <1>6, <1>7, <1>8 DEF AdapterStep

-----------------------------------------------------------------------------
(* Every step of the specification preserves the invariant.                *)
LEMMA NextIInv == IInv /\ [Next]_vars => IInv'
<1> SUFFICES ASSUME IInv, [Next]_vars PROVE IInv'
  OBVIOUS
<1>1. ASSUME NEW i \in Installers, InstallByName(i) \/ \E b \in Boxfiles : InstallFromPath(i, b)
      PROVE  IInv'
  BY <1>1, CommandIInv DEF InstallByName, InstallFromPath, Manifests
<1>2. ASSUME NEW i \in Installers, InstallStep(i) PROVE IInv'
  BY <1>2, GoStepIInv, ReturnStepIInv, LaunchIInv, SaveIInv, KillStepIInv DEF InstallStep
<1>3. ASSUME NEW i \in Installers, Remove(i) \/ RemoveStep(i) PROVE IInv'
  BY <1>3, RemoveIInv, GoStepIInv, ReturnStepIInv, SignalIInv, KillStepIInv DEF RemoveStep
<1>4. ASSUME NEW i \in Installers, LaunchInstalled(i) \/ CommandDies(i) PROVE IInv'
  BY <1>4, LaunchInstalledIInv, GoStepIInv
<1>5. ASSUME NEW p \in Procs, AdapterStep(p) PROVE IInv'
  BY <1>5, AdapterStepIInv
<1>6. CASE UNCHANGED vars
  <2>1. Shape' /\ Unstarted' /\ Hands' /\ RowsSeen'
    BY <1>6 DEF vars, IInv, Shape, Unstarted, Hands, RowsSeen, Working
  <2>2. RecordedHasRows' /\ NoStrayAdapter' /\ DeadSocketMeansCrash'
    BY <1>6 DEF vars, IInv, RecordedHasRows, NoStrayAdapter, DeadSocketMeansCrash, Alive
  <2>3. SoleAlone' /\ FirstInstallAnswered'
    BY <1>6 DEF vars, IInv, SoleAlone, FirstInstallAnswered, Working, Alive
  <2> QED
    BY <2>1, <2>2, <2>3 DEF IInv
<1> QED
  BY <1>1, <1>2, <1>3, <1>4, <1>5, <1>6 DEF Next

(* The inductive invariant holds in every reachable state.                 *)
LEMMA SpecIInv == Spec => []IInv
<1> QED
  BY InitIInv, NextIInv, PTL DEF Spec

(* Type correctness of the tables, the processes and the Installers.       *)
THEOREM TypeCorrect == Spec => []TypeOK
<1>1. IInv => TypeOK
  BY DEF IInv, Shape, Unstarted, Hands, Owning, TypeOK
<1> QED
  BY <1>1, SpecIInv, PTL

(* Installer.Install records a package that declares primitives only after *)
(* the registry had one of them, for any interleaving of commands.         *)
THEOREM RecordMeansRows == Spec => []RecordedHasRows
<1>1. IInv => RecordedHasRows
  BY DEF IInv
<1> QED
  BY <1>1, SpecIInv, PTL

(* A failed install leaves no adapter process behind, unless the command   *)
(* itself was killed.                                                      *)
THEOREM FailedInstallIsClean == Spec => []NoStrayAdapter
<1>1. IInv => NoStrayAdapter
  BY DEF IInv
<1> QED
  BY <1>1, SpecIInv, PTL

(* A socket path that leads nowhere was left by a crash: adapters that end *)
(* in an orderly way, of whatever version, take the path with them.        *)
THEOREM SocketTellsCrash == Spec => []DeadSocketMeansCrash
<1>1. IInv => DeadSocketMeansCrash
  BY DEF IInv
<1> QED
  BY <1>1, SpecIInv, PTL

(* The first install of a package, undisturbed, succeeds only after its    *)
(* own adapter registered.                                                 *)
THEOREM FirstInstallIsReal == Spec => []FirstInstallAnswered
<1>1. IInv => FirstInstallAnswered
  BY DEF IInv
<1> QED
  BY <1>1, SpecIInv, PTL

-----------------------------------------------------------------------------
(* The places of an operation, and the states of an adapter, in order.     *)
PlaceRank(pc) == CASE pc = "idle" -> 0 [] pc = "lookup" -> 1 [] pc = "launch" -> 2
                   [] pc = "wait" -> 3 [] pc = "health" -> 4 [] pc = "save" -> 5
                   [] pc = "undo" -> 6 [] pc = "unrecord" -> 7 [] pc = "drain" -> 8
                   [] pc = "signal" -> 9 [] pc = "linger" -> 10 [] pc = "delete" -> 11
                   [] pc = "done" -> 12 [] OTHER -> 13
ProcRank(st) == CASE st = "none" -> 0 [] st = "starting" -> 1 [] st = "bound" -> 2
                  [] st = "registered" -> 3 [] OTHER -> 4

InstallerAdvances(i) ==
  /\ PlaceRank(inst'[i].pc) > PlaceRank(inst[i].pc)
  /\ \A j \in Installers \ {i} : inst'[j] = inst[j]

AdapterAdvances(p) ==
  /\ ProcRank(proc'[p].st) > ProcRank(proc[p].st)
  /\ \A q \in Procs \ {p} : proc'[q] = proc[q]

(* A new command, or an operation goes forward, or an adapter does.        *)
Advances ==
  \/ commands' = commands + 1
  \/ commands' = commands /\ \E i \in Installers : InstallerAdvances(i)
  \/ UNCHANGED <<commands, inst>> /\ \E p \in Procs : AdapterAdvances(p)

(* Install with its rollback, Remove and the adapters: between two         *)
(* commands every step goes forward, in one operation or in one adapter.   *)
(* No retry, no poll and no rollback leads back to an earlier place, so    *)
(* a command has at most twelve steps of its own.                          *)
THEOREM EveryStepAdvances == Spec => [][Advances]_vars
<1>1. ASSUME IInv, Next PROVE Advances
  <2>0. /\ inst \in [Installers -> InstType] /\ proc \in [Procs -> ProcType]
        /\ \A i \in Installers : inst[i].pc \in Owning => inst[i].op = "install"
    BY <1>1 DEF IInv, Shape, Hands
  <2>1. CASE commands' = commands + 1
    BY <2>1 DEF Advances
  <2>2. ASSUME NEW i \in Installers,
               \/ InstallStep(i) \/ RemoveStep(i) \/ CommandDies(i)
        PROVE  Advances
    <3>1. commands' = commands
      BY <2>2 DEF InstallStep, RemoveStep, CommandDies, LookupExisting, Launch, LaunchFails, Poll,
           WaitTimesOut, HealthPasses, HealthFails, Save, SaveFails, UndoLaunch, UndoRecord,
           LookupInstalled, Drain, Signal, Kill, DeleteRecord
    <3>2. \A pc : Go(i, pc) => /\ inst'[i].pc = pc
                               /\ \A j \in Installers \ {i} : inst'[j] = inst[j]
      BY <2>0 DEF Go, InstType
    <3>3. \A res : Returns(i, res) => /\ inst'[i].pc = "done"
                                      /\ \A j \in Installers \ {i} : inst'[j] = inst[j]
      BY <2>0 DEF Returns, InstType
    <3>4. InstallerAdvances(i)
      <4>1. CASE LookupExisting(i) \/ LookupInstalled(i)
        BY <3>2, <3>3, <4>1 DEF LookupExisting, LookupInstalled, At, InstallerAdvances, PlaceRank
      <4>2. CASE Launch(i)
        <5>1. /\ inst[i].pc = "launch" /\ inst'[i].pc = "wait"
              /\ \A j \in Installers \ {i} : inst'[j] = inst[j]
          BY <2>0, <4>2 DEF Launch, At, InstType
        <5> QED
          BY <5>1 DEF InstallerAdvances, PlaceRank
      <4>3. CASE LaunchFails(i)
        BY <3>3, <4>3 DEF LaunchFails, At, InstallerAdvances, PlaceRank
      <4>4. CASE Poll(i) \/ WaitTimesOut(i)
        BY <3>2, <4>4 DEF Poll, WaitTimesOut, AfterWait, At, InstallerAdvances, PlaceRank
      <4>5. CASE HealthPasses(i) \/ HealthFails(i) \/ SaveFails(i)
        BY <3>2, <4>5 DEF HealthPasses, HealthFails, SaveFails, At, InstallerAdvances, PlaceRank
      <4>6. CASE Save(i) \/ UndoRecord(i) \/ DeleteRecord(i)
        BY <3>3, <4>6 DEF Save, UndoRecord, DeleteRecord, At, InstallerAdvances, PlaceRank
      <4>7. CASE UndoLaunch(i) \/ Kill(i)
        <5>1. /\ \/ inst[i].pc = "undo" /\ inst'[i].pc = "unrecord"
                 \/ inst[i].pc = "linger" /\ inst'[i].pc = "delete"
              /\ \A j \in Installers \ {i} : inst'[j] = inst[j]
          BY <2>0, <4>7 DEF UndoLaunch, Kill, At, InstType
        <5> QED
          BY <5>1 DEF InstallerAdvances, PlaceRank
      <4>8. CASE Drain(i) \/ Signal(i)
        BY <3>2, <4>8 DEF Drain, Signal, At, InstallerAdvances, PlaceRank
      <4>9. CASE CommandDies(i)
        <5>1. /\ inst'[i].pc = "killed" /\ inst[i].pc \in {"lookup", "launch", "wait", "health", "save", "undo",
                   "unrecord", "drain", "signal", "linger", "delete"}
              /\ \A j \in Installers \ {i} : inst'[j] = inst[j]
          BY <2>0, <4>9 DEF CommandDies, Working, InstType
        <5> QED
          BY <5>1 DEF InstallerAdvances, PlaceRank
      <4> QED
        BY <2>2, <4>1, <4>2, <4>3, <4>4, <4>5, <4>6, <4>7, <4>8, <4>9
           DEF InstallStep, RemoveStep
    <3> QED
      BY <3>1, <3>4 DEF Advances
  <2>3. ASSUME NEW p \in Procs, AdapterStep(p) PROVE Advances
    <3>1. UNCHANGED <<commands, inst>>
      BY <2>3 DEF AdapterStep, Bind, RegisterRows, RegisterRefused, AdapterExits, AdapterCrashes
    <3>2. \A q \in Procs \ {p} : proc'[q] = proc[q]
      BY <2>0, <2>3 DEF AdapterStep, Bind, RegisterRows, RegisterRefused, AdapterExits,
                        AdapterCrashes, RunReturns, Killed
    <3>3. /\ proc[p].st \in {"starting", "bound", "registered"}
          /\ \/ proc'[p].st \in {"exited", "crashed"}
             \/ proc[p].st = "starting" /\ proc'[p].st = "bound"
             \/ proc[p].st = "bound" /\ proc'[p].st = "registered"
      BY <2>0, <2>3 DEF AdapterStep, Bind, RegisterRows, RegisterRefused, AdapterExits,
                        AdapterCrashes, RunReturns, Killed, Alive, ProcType
    <3>4. AdapterAdvances(p)
      BY <3>2, <3>3 DEF AdapterAdvances, ProcRank
    <3> QED
      BY <3>1, <3>4 DEF Advances
  <2>4. ASSUME NEW i \in Installers,
               \/ InstallByName(i) \/ (\E b \in Boxfiles : InstallFromPath(i, b))
               \/ Remove(i) \/ LaunchInstalled(i)
        PROVE  Advances
    BY <2>1, <2>4 DEF InstallByName, InstallFromPath, Command, Remove, LaunchInstalled
  <2> QED
    BY <1>1, <2>2, <2>3, <2>4 DEF Next
<1>2. IInv /\ [Next]_vars => [Advances]_vars
  BY <1>1
<1> QED
  BY <1>2, SpecIInv, PTL DEF Spec
=============================================================================
