--------------------------- MODULE PackageManager ---------------------------
(***************************************************************************)
(* Installing, upgrading and removing one adapter package.  Every `pb      *)
(* package` command is a process of its own with its own Installer, whose  *)
(* map of launched processes starts empty; an Installer kept alive over    *)
(* several operations (as a program that embeds the package does) is in    *)
(* LongLived.  Installers share the table of installed packages, the table *)
(* of app primitives, the socket path and the adapters they launched.      *)
(*                                                                         *)
(* One package, since every statement is keyed by its name.                *)
(***************************************************************************)
EXTENDS Naturals

CONSTANTS Installers, LongLived,  \* the installers; those that outlive a command
          Boxfiles,               \* the declarations a command may name
          AppIsName,              \* TRUE: the adapter's app id is the package's name
          NoVersion,
          MaxLaunches,            \* bound: adapter processes
          MaxCommands             \* bound: commands in all

ASSUME BoundsAssumption == /\ LongLived \subseteq Installers
                           /\ MaxLaunches \in Nat /\ MaxCommands \in Nat
                           /\ AppIsName \in BOOLEAN

Procs == 1..MaxLaunches

-----------------------------------------------------------------------------
(* A Boxfile, by what its validation and conversion ask about it.  prims:  *)
(* the declared primitives ("none": the adapter registers what it finds);  *)
(* health: a healthcheck is declared; dst: a bootstrap file's destination. *)
Boxfile(v, type, binary, mcp, prims, health, dst) ==
  [version |-> v, type |-> type, binary |-> binary, mcp |-> mcp,
   prims |-> prims, health |-> health, dst |-> dst]

(* ValidateBoxfile.                                                        *)
ValidateBoxfile(b) ==
  /\ b.version # NoVersion
  /\ \/ b.type = "binary" /\ b.binary # "none"
     \/ b.type = "mcp" /\ (b.binary # "none" \/ b.mcp)
  /\ b.prims \in {"own", "none"}
  /\ b.dst = "inside"

(* BoxfileToManifest: an MCP adapter without a binary is the bridge beside *)
(* pb, a relative path is taken from the Boxfile's directory.              *)
BoxfileToManifest(b) ==
  [b EXCEPT !.binary = CASE b.type = "mcp" /\ @ = "none" -> "pb_dir"
                         [] @ = "relative" -> "absolute"
                         [] OTHER -> @]

(* The checks on the resolved manifest: {pb_dir} and {workspace} are       *)
(* absolute, an unknown template token is not a safe path.                 *)
PathOK(m) == m.binary \in {"absolute", "pb_dir"}

(* The registry's "os" package; it is not validated as a Boxfile is.       *)
Builtin == Boxfile("0.1.0", "binary", "pb_dir", FALSE, "own", TRUE, "inside")

-----------------------------------------------------------------------------
VARIABLES
  record,    \* installed_packages: the installed declaration, or NoRecord
  rows,      \* app_primitives of the package: none, active, unavailable
  proc,      \* adapter processes
  sock,      \* the process the socket path leads to; 0: no such file
  inst,      \* installer -> the operation it is at
  launches, commands

vars == <<record, rows, proc, sock, inst, launches, commands>>

NoRecord == [version |-> NoVersion, prims |-> "none"]
NoProc == [st |-> "none", term |-> FALSE, kept |-> FALSE]
Idle(p) == [op |-> "none", pc |-> "idle", box |-> Builtin,
            own |-> 0, held |-> p, res |-> "none", sole |-> FALSE]

Init == /\ record = NoRecord
        /\ rows = "none"
        /\ proc = [p \in Procs |-> NoProc]
        /\ sock = 0
        /\ inst = [i \in Installers |-> Idle(0)]
        /\ launches = 0 /\ commands = 0

Alive(p) == proc[p].st \in {"starting", "bound", "registered"}

Working(i) == inst[i].pc \notin {"idle", "done", "killed"}

At(i, pc) == inst[i].pc = pc
Go(i, pc) == inst' = [inst EXCEPT ![i].pc = pc]

(* A command ends; what the Installer holds lives on in a long-lived one.  *)
Returns(i, res) ==
  inst' = [inst EXCEPT ![i].pc = "done", ![i].res = res,
                       ![i].held = IF i \in LongLived THEN @ ELSE 0]

-----------------------------------------------------------------------------
(* Install.                                                                *)

(* History: nobody has installed the package before and nobody else works. *)
Sole(i) == /\ rows = "none" /\ \A p \in Procs : ~Alive(p)
           /\ \A j \in Installers \ {i} : ~Working(j)

(* Another command takes the claim to be alone away from those at work.    *)
Begin(i, new) ==
  inst' = [j \in Installers |-> IF j = i THEN new ELSE [inst[j] EXCEPT !.sole = FALSE]]

(* An install command whose manifest was found, or refused before any      *)
(* effect: by its validation, its path or its namespaces.                  *)
Command(i, m, accepted) ==
  /\ ~Working(i) /\ inst[i].pc # "killed"
  /\ commands < MaxCommands /\ commands' = commands + 1
  /\ LET cmd == [Idle(inst[i].held) EXCEPT !.op = "install", !.box = m, !.sole = Sole(i)]
     IN  Begin(i, IF accepted /\ PathOK(m) THEN [cmd EXCEPT !.pc = "lookup"]
                  ELSE [cmd EXCEPT !.pc = "done", !.res = "refused"])
  /\ UNCHANGED <<record, rows, proc, sock, launches>>

(* `pb package install <name>`: the manifest of the local registry.        *)
InstallByName(i) == Command(i, Builtin, TRUE)

(* `pb package install <path>`: the Boxfile is validated and converted.    *)
InstallFromPath(i, b) == Command(i, BoxfileToManifest(b), ValidateBoxfile(b))

(* store.Get: the same version is skipped.                                 *)
LookupExisting(i) ==
  /\ At(i, "lookup") /\ inst[i].op = "install"
  /\ IF record.version = inst[i].box.version THEN Returns(i, "skipped") ELSE Go(i, "launch")
  /\ UNCHANGED <<record, rows, proc, sock, launches, commands>>

(* The adapter is started and noted in the map, replacing what was there.  *)
Launch(i) ==
  /\ At(i, "launch") /\ launches < MaxLaunches
  /\ LET p == launches + 1
     IN  /\ proc' = [proc EXCEPT ![p].st = "starting"]
         /\ inst' = [inst EXCEPT ![i].pc = "wait", ![i].own = p, ![i].held = p]
         /\ launches' = p
  /\ UNCHANGED <<record, rows, sock, commands>>

(* The binary is missing, or the start or the lookup fails.                *)
LaunchFails(i) ==
  /\ \E pc \in {"lookup", "launch"} : At(i, pc)
  /\ inst[i].op = "install"
  /\ Returns(i, "failed")
  /\ UNCHANGED <<record, rows, proc, sock, launches, commands>>

AfterWait(i) == IF inst[i].box.health THEN "health" ELSE "save"

(* Mutant: the adapter counts as registered once it runs.                  *)
PollAlways(i) ==
  /\ At(i, "wait")
  /\ Go(i, AfterWait(i))
  /\ UNCHANGED <<record, rows, proc, sock, launches, commands>>

(* A poll of the registry: any row of a declared primitive will do, also   *)
(* an unavailable one or another adapter's; without declared primitives    *)
(* the first poll will do.                                                 *)
Poll(i) ==
  /\ At(i, "wait")
  /\ inst[i].box.prims = "none" \/ rows # "none"
  /\ Go(i, AfterWait(i))
  /\ UNCHANGED <<record, rows, proc, sock, launches, commands>>

(* Mutant: nothing ends the wait.                                          *)
NeverTimesOut(i) == FALSE /\ UNCHANGED vars

(* Mutant: the wait is over, so the install goes on.                       *)
TimeoutAccepted(i) ==
  /\ At(i, "wait")
  /\ Go(i, "save")
  /\ UNCHANGED <<record, rows, proc, sock, launches, commands>>

(* Ten seconds without a row, or with a registry that answers errors.      *)
WaitTimesOut(i) ==
  /\ At(i, "wait")
  /\ Go(i, "undo")
  /\ UNCHANGED <<record, rows, proc, sock, launches, commands>>

(* The healthcheck through the gateway and its router: any live adapter at *)
(* the socket answers it.                                                  *)
HealthPasses(i) ==
  /\ At(i, "health")
  /\ rows = "active" /\ sock # 0 /\ Alive(sock)
  /\ Go(i, "save")
  /\ UNCHANGED <<record, rows, proc, sock, launches, commands>>

(* It fails or times out; a dial that is refused marks the app.            *)
HealthFails(i) ==
  /\ At(i, "health")
  /\ rows' = IF rows = "active" /\ (sock = 0 \/ ~Alive(sock)) THEN "unavailable" ELSE rows
  /\ Go(i, "undo")
  /\ UNCHANGED <<record, proc, sock, launches, commands>>

(* store.Save: the record of any other version is overwritten.             *)
Save(i) ==
  /\ At(i, "save")
  /\ record' = [version |-> inst[i].box.version, prims |-> inst[i].box.prims]
  /\ proc' = [proc EXCEPT ![inst[i].own].kept = TRUE]
  /\ Returns(i, "installed")
  /\ UNCHANGED <<rows, sock, launches, commands>>

SaveFails(i) ==
  /\ At(i, "save")
  /\ Go(i, "undo")
  /\ UNCHANGED <<record, rows, proc, sock, launches, commands>>

(* A killed process leaves its socket file behind.                         *)
Killed(p) == [proc EXCEPT ![p].st = IF Alive(p) THEN "crashed" ELSE @]

(* Mutant: the launched adapter is left alone.                             *)
UndoForgetsProcess(i) ==
  /\ At(i, "undo")
  /\ inst' = [inst EXCEPT ![i].pc = "unrecord", ![i].held = 0]
  /\ UNCHANGED <<record, rows, proc, sock, launches, commands>>

(* rollback: kill, drop from the map ...                                   *)
UndoLaunch(i) ==
  /\ At(i, "undo")
  /\ proc' = Killed(inst[i].own)
  /\ inst' = [inst EXCEPT ![i].pc = "unrecord", ![i].held = 0]
  /\ UNCHANGED <<record, rows, sock, launches, commands>>

(* ... and remove the package's record, whatever version it is of; a       *)
(* failure of that is dropped.                                             *)
UndoRecord(i) ==
  /\ At(i, "unrecord")
  /\ record' \in {record, NoRecord}
  /\ Returns(i, "failed")
  /\ UNCHANGED <<rows, proc, sock, launches, commands>>

-----------------------------------------------------------------------------
(* Remove.                                                                 *)

Remove(i) ==
  /\ ~Working(i) /\ inst[i].pc # "killed"
  /\ commands < MaxCommands /\ commands' = commands + 1
  /\ Begin(i, [Idle(inst[i].held) EXCEPT !.op = "remove", !.pc = "lookup"])
  /\ UNCHANGED <<record, rows, proc, sock, launches>>

LookupInstalled(i) ==
  /\ At(i, "lookup") /\ inst[i].op = "remove"
  /\ IF record = NoRecord THEN Returns(i, "not_installed") ELSE Go(i, "drain")
  /\ UNCHANGED <<record, rows, proc, sock, launches, commands>>

(* MarkUnavailable(package name): changes rows only of an app of that      *)
(* name; its failure is only logged.                                       *)
Drain(i) ==
  /\ At(i, "drain")
  /\ rows' \in {rows, IF AppIsName /\ rows = "active" THEN "unavailable" ELSE rows}
  /\ Go(i, IF inst[i].held # 0 THEN "signal" ELSE "delete")
  /\ UNCHANGED <<record, proc, sock, launches, commands>>

(* SIGTERM to the process of the map ...                                   *)
Signal(i) ==
  /\ At(i, "signal")
  /\ proc' = [proc EXCEPT ![inst[i].held].term = TRUE]
  /\ Go(i, "linger")
  /\ UNCHANGED <<record, rows, sock, launches, commands>>

(* ... and SIGKILL when its socket is gone, or after five seconds.         *)
Kill(i) ==
  /\ At(i, "linger")
  /\ proc' = Killed(inst[i].held)
  /\ inst' = [inst EXCEPT ![i].pc = "delete", ![i].held = 0]
  /\ UNCHANGED <<record, rows, sock, launches, commands>>

DeleteRecord(i) ==
  /\ At(i, "delete")
  /\ \/ record' = NoRecord /\ Returns(i, "removed")
     \/ UNCHANGED record /\ Returns(i, "failed")
  /\ UNCHANGED <<rows, proc, sock, launches, commands>>

-----------------------------------------------------------------------------
(* LaunchInstalled, for an Installer that lives in a server: the adapter   *)
(* of the record is started and kept, without waiting or checking.         *)
LaunchInstalled(i) ==
  /\ i \in LongLived /\ ~Working(i) /\ inst[i].pc # "killed"
  /\ commands < MaxCommands /\ commands' = commands + 1
  /\ record # NoRecord /\ launches < MaxLaunches
  /\ LET p == launches + 1
     IN  /\ proc' = [proc EXCEPT ![p] = [st |-> "starting", term |-> FALSE, kept |-> TRUE]]
         /\ Begin(i, [Idle(p) EXCEPT !.op = "launch", !.pc = "done", !.res = "installed"])
         /\ launches' = p
  /\ UNCHANGED <<record, rows, sock>>

(* The command's process is killed in the middle; nothing is undone.       *)
CommandDies(i) ==
  /\ Working(i)
  /\ inst' = [inst EXCEPT ![i].pc = "killed"]
  /\ UNCHANGED <<record, rows, proc, sock, launches, commands>>

-----------------------------------------------------------------------------
(* Adapter processes.                                                      *)

(* listenUnix: whatever is at the path is removed, then bound; the adapter *)
(* serves from here on.                                                    *)
Bind(p) ==
  /\ proc[p].st = "starting"
  /\ proc' = [proc EXCEPT ![p].st = "bound"]
  /\ sock' = p
  /\ UNCHANGED <<record, rows, inst, launches, commands>>

(* app.register of the first manifest; the others follow.                  *)
RegisterRows(p) ==
  /\ proc[p].st = "bound"
  /\ proc' = [proc EXCEPT ![p].st = "registered"]
  /\ rows' = "active"
  /\ UNCHANGED <<record, sock, inst, launches, commands>>

(* Mutant: the listener's file outlives it.                                *)
ExitLeavesSocket(p) ==
  /\ proc' = [proc EXCEPT ![p].st = "exited"]
  /\ UNCHANGED sock

(* run returns and closes the listener, which unlinks the path, also when  *)
(* another adapter has bound it since.                                     *)
RunReturns(p) ==
  /\ proc' = [proc EXCEPT ![p].st = "exited"]
  /\ sock' = 0

(* The registration is refused, as a host gateway does, or lost.           *)
RegisterRefused(p) ==
  /\ proc[p].st = "bound"
  /\ RunReturns(p)
  /\ UNCHANGED <<record, rows, inst, launches, commands>>

(* After a signal.                                                         *)
AdapterExits(p) ==
  /\ proc[p].term /\ proc[p].st \in {"bound", "registered"}
  /\ RunReturns(p)
  /\ UNCHANGED <<record, rows, inst, launches, commands>>

AdapterCrashes(p) ==
  /\ Alive(p)
  /\ proc' = Killed(p)
  /\ UNCHANGED <<record, rows, sock, inst, launches, commands>>

-----------------------------------------------------------------------------
InstallStep(i) == \/ LookupExisting(i) \/ Launch(i) \/ LaunchFails(i) \/ Poll(i)
                  \/ WaitTimesOut(i) \/ HealthPasses(i) \/ HealthFails(i)
                  \/ Save(i) \/ SaveFails(i) \/ UndoLaunch(i) \/ UndoRecord(i)

RemoveStep(i) == \/ LookupInstalled(i) \/ Drain(i) \/ Signal(i)
                 \/ Kill(i) \/ DeleteRecord(i)

AdapterStep(p) == \/ Bind(p) \/ RegisterRows(p) \/ RegisterRefused(p)
                  \/ AdapterExits(p) \/ AdapterCrashes(p)

Next == \/ \E i \in Installers : \/ InstallByName(i)
                                 \/ \E b \in Boxfiles : InstallFromPath(i, b)
                                 \/ InstallStep(i)
                                 \/ Remove(i) \/ RemoveStep(i)
                                 \/ LaunchInstalled(i) \/ CommandDies(i)
        \/ \E p \in Procs : AdapterStep(p)

Spec == Init /\ [][Next]_vars

(* A command that has begun goes on; every wait in it has a time limit.    *)
(* Adapters owe nothing.                                                   *)
FairSpec == Spec /\ \A i \in Installers : WF_vars(InstallStep(i) \/ RemoveStep(i))

-----------------------------------------------------------------------------
(* Properties.                                                             *)

ProcType == [st : {"none", "starting", "bound", "registered", "exited", "crashed"},
             term : BOOLEAN, kept : BOOLEAN]

(* The manifests an Installer can have at hand.                            *)
Manifests == {BoxfileToManifest(b) : b \in Boxfiles} \cup {Builtin}

InstType == [op : {"none", "install", "remove", "launch"},
             pc : {"idle", "lookup", "launch", "wait", "health", "save", "undo",
                   "unrecord", "drain", "signal", "linger", "delete", "done", "killed"},
             box : Manifests,
             own : 0..MaxLaunches, held : 0..MaxLaunches,
             res : {"none", "refused", "skipped", "installed", "failed",
                    "not_installed", "removed"},
             sole : BOOLEAN]

(* Type invariant; an installer that works on an adapter has launched it,  *)
(* processes beyond the count were never started.                          *)
TypeOK ==
  /\ rows \in {"none", "active", "unavailable"}
  /\ proc \in [Procs -> ProcType]
  /\ inst \in [Installers -> InstType]
  /\ launches \in 0..MaxLaunches /\ commands \in 0..MaxCommands
  /\ sock \in 0..MaxLaunches
  /\ \A p \in Procs : p > launches => proc[p] = NoProc
  /\ \A i \in Installers : /\ inst[i].own <= launches /\ inst[i].held <= launches
                           /\ inst[i].pc \in {"wait", "health", "save", "undo"} =>
                                inst[i].own # 0 /\ inst[i].op = "install"
                           /\ inst[i].pc \in {"signal", "linger"} => inst[i].held # 0

(* A record is there only after the package's primitives were: an install  *)
(* of a package that declares some does not succeed before the registry    *)
(* has one of them, however installs, removals and crashes interleave.     *)
RecordedHasRows == record.prims = "own" => rows # "none"

(* A failed install leaves no adapter behind: one that lives was kept by a *)
(* successful install, is still in the hands of the command that launched  *)
(* it, or that command was killed.                                         *)
NoStrayAdapter ==
  \A p \in Procs : Alive(p) /\ ~proc[p].kept =>
    \E i \in Installers : /\ inst[i].own = p
                          /\ inst[i].pc \in {"wait", "health", "save", "undo", "killed"}

(* The path never leads to an adapter that closed its listener: who finds  *)
(* the socket dead has found a crash.                                      *)
DeadSocketMeansCrash ==
  sock # 0 => proc[sock].st \in {"bound", "registered", "crashed"}

(* The first install of a package with primitives, with no other command   *)
(* beside it, reports success only after its own adapter registered them.  *)
FirstInstallAnswered ==
  \A i \in Installers :
    /\ inst[i].sole /\ inst[i].res = "installed" /\ inst[i].op = "install"
    /\ inst[i].box.prims = "own"
    => proc[inst[i].own].st \in {"registered", "exited", "crashed"} /\ rows # "none"

(* Every command comes to an end, also over an adapter that never          *)
(* registers, never answers or ignores SIGTERM.                            *)
EveryCommandEnds == \A i \in Installers : Working(i) ~> ~Working(i)
=============================================================================
