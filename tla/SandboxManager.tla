---------------------------- MODULE SandboxManager ----------------------------
(***************************************************************************)
(* Sandbox records and the containers behind them: Manager                  *)
(* (internal/sandbox/manager.go) with its TTL reaper, over the sandboxes    *)
(* table (internal/control/sqlite_store.go), RouterDriver                   *)
(* (internal/sandbox/router.go) and the two runtime drivers it chooses from *)
(* (docker.go, kubernetes.go).                                              *)
(*                                                                          *)
(* Every operation reads a record, calls the driver and writes the whole    *)
(* record back, and nothing is held in between, so each of these is an      *)
(* action.  A client is one call of an operation, by a gateway handler or   *)
(* by a command of the pb program, which share the store.  List is an       *)
(* Inspect of every sandbox from one early read; Exec and the proxy         *)
(* handlers end in Touch.                                                   *)
(***************************************************************************)
EXTENDS Naturals, Sequences, FiniteSets

CONSTANTS Sandboxes,     \* identifiers; Create takes a fresh one
          Clients,       \* operations that may be under way at a time
          DockerSandboxes, \* those created with the Docker driver; the rest are pods
          TTL, IdleTTL,  \* LifecyclePolicy of every sandbox, 0 for none
          ReapLimit,     \* sandboxes the reaper lists at a time
          CallsMayFail,  \* whether a driver or store call may fail for no reason seen here
          MaxTime,       \* bound: the clock
          MaxOps,        \* bound: operations begun
          MaxCrashes     \* bound: processes that die

ASSUME SandboxAssumption ==
  /\ IsFiniteSet(Sandboxes)
  /\ DockerSandboxes \subseteq Sandboxes
  /\ TTL \in Nat
  /\ IdleTTL \in Nat
  /\ ReapLimit \in Nat \ {0}
  /\ CallsMayFail \in BOOLEAN
  /\ MaxTime \in Nat \ {0}
  /\ MaxOps \in Nat
  /\ MaxCrashes \in Nat

VARIABLES
  rec,      \* the stored record of a sandbox
  unit,     \* its container or pod
  born,     \* identifiers in use so far
  clock,    \* Unix time; 0 stands for "not set" in a record
  cpc,      \* where a client is
  target,   \* the sandbox a client works on
  mine,     \* a client's copy of the record
  leaked,   \* sandboxes whose Create ended before their record was written
  rpc,      \* where the reaper is
  victims,  \* what ListExpired gave the reaper and it has not dealt with yet
  ops, crashes \* used up so far, of MaxOps and MaxCrashes

clientVars == <<cpc, target, mine>>
reaperVars == <<rpc, victims>>
vars == <<rec, unit, born, leaked, clock, clientVars, reaperVars, ops, crashes>>

-----------------------------------------------------------------------------
(* A record, up to what the lifecycle reads of it: policy tells whether     *)
(* Config.Lifecycle is still what the sandbox was created with, and the     *)
(* status "stopped" stands for "creating" and "error" too.                  *)
Record == [status : {"running", "stopped", "destroyed"}, policy : BOOLEAN,
           created : Nat, accessed : Nat, expires : Nat]
NoRecord == [status |-> "none"]
Fresh(t) == [status |-> "stopped", policy |-> TRUE, created |-> t, accessed |-> 0,
             expires |-> 0]

Stored(s) == rec[s] # NoRecord

Docker(s) == s \in DockerSandboxes

(* A deleted pod lives on for its grace period; docker removes at once. *)
Unit == {"absent", "stopped", "running", "terminating"}
Removed(s) == IF Docker(s) \/ unit[s] = "absent" THEN "absent" ELSE "terminating"

ClientPC == {"idle", "new", "insert", "start", "started", "stop", "inspect", "touch",
             "upsert", "delete"}

(* The type invariant. *)
TypeOK ==
  /\ rec \in [Sandboxes -> Record \cup {NoRecord}]
  /\ unit \in [Sandboxes -> Unit]
  /\ born \subseteq Sandboxes
  /\ leaked \subseteq Sandboxes
  /\ clock \in 1..MaxTime
  /\ cpc \in [Clients -> ClientPC]
  /\ target \in [Clients -> Sandboxes]
  /\ mine \in [Clients -> Record]
  /\ rpc \in {"idle", "destroy", "delete"}
  /\ victims \in Seq(Sandboxes)
  /\ rpc # "idle" => victims # <<>>
  /\ ops \in 0..MaxOps
  /\ crashes \in 0..MaxCrashes

Init ==
  /\ rec = [s \in Sandboxes |-> NoRecord]
  /\ unit = [s \in Sandboxes |-> "absent"]
  /\ born = {}
  /\ leaked = {}
  /\ clock = 1
  /\ cpc = [c \in Clients |-> "idle"]
  /\ target \in [Clients -> Sandboxes]
  /\ mine = [c \in Clients |-> Fresh(0)]
  /\ rpc = "idle"
  /\ victims = <<>>
  /\ ops = 0
  /\ crashes = 0

-----------------------------------------------------------------------------
(* Pure parts of the manager. *)

(* Mutant: the later of the two limits. *)
ComputeExpiryLatest(created, accessed, policy) ==
  IF ~policy \/ (TTL = 0 /\ IdleTTL = 0) THEN 0
  ELSE IF TTL = 0 THEN accessed + IdleTTL
  ELSE IF IdleTTL = 0 \/ created + TTL > accessed + IdleTTL THEN created + TTL
  ELSE accessed + IdleTTL

(* The earlier of the absolute and the idle limit; 0 when there is none. *)
ComputeExpiry(created, accessed, policy) ==
  IF ~policy \/ (TTL = 0 /\ IdleTTL = 0) THEN 0
  ELSE IF TTL = 0 THEN accessed + IdleTTL
  ELSE IF IdleTTL = 0 \/ created + TTL <= accessed + IdleTTL THEN created + TTL
  ELSE accessed + IdleTTL

TouchLifecycle(r) ==
  [r EXCEPT !.accessed = clock, !.expires = ComputeExpiry(r.created, clock, r.policy)]

(* What the driver tells of a unit; one that is terminating still runs. *)
StatusOf(u) ==
  CASE u = "absent" -> "destroyed"
    [] u = "stopped" -> "stopped"
    [] OTHER -> "running"

(* RouterDriver finds the driver through the record. Docker then answers an *)
(* error for a container that is not there, Kubernetes "destroyed".         *)
Inspectable(s) == Stored(s) /\ (Docker(s) => unit[s] # "absent")

(* The driver of Kubernetes looks the configuration up in the store; that   *)
(* of Docker builds it from the container, which knows of no lifecycle.     *)
InspectKeepsPolicy(s) == ~Docker(s)

(* mergeSandboxState: the configuration is taken from the driver. *)
Merge(r, s) ==
  [r EXCEPT !.status = StatusOf(unit[s]), !.policy = @ /\ InspectKeepsPolicy(s)]

-----------------------------------------------------------------------------
(* Clients. *)

Begin(c, s, pc) ==
  /\ ops < MaxOps
  /\ cpc[c] = "idle"
  /\ ops' = ops + 1
  /\ target' = [target EXCEPT ![c] = s]
  /\ cpc' = [cpc EXCEPT ![c] = pc]

Goto(c, from, to) == cpc[c] = from /\ cpc' = [cpc EXCEPT ![c] = to]

(* Create: the driver makes the unit first; the times follow and then the   *)
(* record, by Touch and Upsert below.  The bound on the clock leaves room   *)
(* for the life of the sandbox.                                             *)
Create(c, s) ==
  /\ s \notin born
  /\ clock + TTL <= MaxTime
  /\ Begin(c, s, "new")
  /\ born' = born \cup {s}
  /\ unit' = [unit EXCEPT ![s] = "stopped"]
  /\ mine' = [mine EXCEPT ![c] = Fresh(clock)]
  /\ UNCHANGED <<rec, leaked, clock, reaperVars, crashes>>

(* The driver answers an error with the unit made: Kubernetes applies the   *)
(* pod before its service and its network policy and takes nothing back, an *)
(* answer may be lost with either driver.  An error that leaves nothing is  *)
(* no step.                                                                 *)
CreateFails(s) ==
  /\ CallsMayFail
  /\ s \notin born
  /\ ops < MaxOps
  /\ ops' = ops + 1
  /\ born' = born \cup {s}
  /\ unit' = [unit EXCEPT ![s] = "stopped"]
  /\ leaked' = leaked \cup {s}
  /\ UNCHANGED <<rec, clock, clientVars, reaperVars, crashes>>

(* Start, Stop, Inspect and Touch read the record first. *)
Get(c, s) ==
  /\ Stored(s)
  /\ \E pc \in {"start", "stop", "inspect", "touch"} : Begin(c, s, pc)
  /\ mine' = [mine EXCEPT ![c] = rec[s]]
  /\ UNCHANGED <<rec, unit, born, leaked, clock, reaperVars, crashes>>

(* Docker starts the container and waits for its server; Kubernetes waits   *)
(* for the pod, which starts by itself.                                     *)
DriverStart(c) ==
  LET s == target[c] IN
  /\ Stored(s)
  /\ IF Docker(s) THEN unit[s] # "absent" ELSE unit[s] \in {"running", "terminating"}
  /\ Goto(c, "start", "started")
  /\ unit' = [unit EXCEPT ![s] = IF Docker(s) THEN "running" ELSE @]
  /\ UNCHANGED <<rec, born, leaked, clock, target, mine, reaperVars, ops, crashes>>

(* Start fails, by its deadline if nothing else: a container may be left    *)
(* running.                                                                 *)
DriverStartFails(c) ==
  LET s == target[c] IN
  /\ Goto(c, "start", "idle")
  /\ \/ UNCHANGED unit
     \/ /\ Docker(s) /\ unit[s] # "absent"
        /\ unit' = [unit EXCEPT ![s] = "running"]
  /\ UNCHANGED <<rec, born, leaked, clock, target, mine, reaperVars, ops, crashes>>

(* Kubernetes only closes a port forwarding; the pod runs on. *)
DriverStop(c) ==
  LET s == target[c] IN
  /\ Inspectable(s)
  /\ Goto(c, "stop", "upsert")
  /\ unit' = [unit EXCEPT ![s] = IF Docker(s) THEN "stopped" ELSE @]
  /\ mine' = [mine EXCEPT ![c].status = "stopped"]
  /\ UNCHANGED <<rec, born, leaked, clock, target, reaperVars, ops, crashes>>

(* Mutant: the lifecycle policy is not kept. *)
RefreshDropsPolicy(c) ==
  LET s == target[c] IN
  /\ Inspectable(s)
  /\ \/ Goto(c, "started", "touch") \/ Goto(c, "inspect", "upsert")
  /\ mine' = [mine EXCEPT ![c] = [Merge(@, s) EXCEPT !.policy = FALSE]]
  /\ UNCHANGED <<rec, unit, born, leaked, clock, target, reaperVars, ops, crashes>>

(* refreshSandboxStatus, on behalf of Start, which then touches, and of     *)
(* Inspect and List.                                                        *)
Refresh(c) ==
  LET s == target[c] IN
  /\ Inspectable(s)
  /\ \/ Goto(c, "started", "touch") \/ Goto(c, "inspect", "upsert")
  /\ mine' = [mine EXCEPT ![c] = Merge(@, s)]
  /\ UNCHANGED <<rec, unit, born, leaked, clock, target, reaperVars, ops, crashes>>

(* Stop or the refresh fails: the operation ends and writes nothing. *)
DriverError(c) ==
  /\ CallsMayFail \/ ~Inspectable(target[c])
  /\ \E pc \in {"stop", "started", "inspect"} : Goto(c, pc, "idle")
  /\ UNCHANGED <<rec, unit, born, leaked, clock, target, mine, reaperVars, ops, crashes>>

Touch(c) ==
  /\ Goto(c, "touch", "upsert") \/ Goto(c, "new", "insert")
  /\ mine' = [mine EXCEPT ![c] = TouchLifecycle(@)]
  /\ UNCHANGED <<rec, unit, born, leaked, clock, target, reaperVars, ops, crashes>>

(* The whole record is written, whatever became of it since it was read. *)
Upsert(c) ==
  /\ Goto(c, "upsert", "idle") \/ Goto(c, "insert", "idle")
  /\ rec' = [rec EXCEPT ![target[c]] = mine[c]]
  /\ UNCHANGED <<unit, born, leaked, clock, target, mine, reaperVars, ops, crashes>>

(* The store fails to write or to delete the record: the operation ends, and *)
(* Create does not take its unit back.                                      *)
StoreError(c) ==
  /\ CallsMayFail
  /\ \/ /\ Goto(c, "upsert", "idle") \/ Goto(c, "delete", "idle")
        /\ UNCHANGED leaked
     \/ /\ Goto(c, "insert", "idle")
        /\ leaked' = leaked \cup {target[c]}
  /\ UNCHANGED <<rec, unit, born, clock, target, mine, reaperVars, ops, crashes>>

(* Mutant: the record is deleted first. *)
DestroyRecordFirst(c, s) ==
  /\ Inspectable(s)
  /\ Begin(c, s, "delete")
  /\ rec' = [rec EXCEPT ![s] = NoRecord]
  /\ UNCHANGED <<unit, born, leaked, clock, mine, reaperVars, crashes>>

(* Destroy: the unit goes first, then the record. *)
Destroy(c, s) ==
  /\ Inspectable(s)
  /\ Begin(c, s, "delete")
  /\ unit' = [unit EXCEPT ![s] = Removed(s)]
  /\ UNCHANGED <<rec, born, leaked, clock, mine, reaperVars, crashes>>

(* Kubernetes deletes several objects, and a later one may fail. *)
DestroyFails(s) ==
  /\ CallsMayFail /\ ~Docker(s)
  /\ Stored(s) /\ unit[s] \in {"stopped", "running"}
  /\ unit' = [unit EXCEPT ![s] = Removed(s)]
  /\ UNCHANGED <<rec, born, leaked, clock, clientVars, reaperVars, ops, crashes>>

DeleteRecord(c) ==
  /\ Goto(c, "delete", "idle")
  /\ rec' = [rec EXCEPT ![target[c]] = NoRecord]
  /\ UNCHANGED <<unit, born, leaked, clock, target, mine, reaperVars, ops, crashes>>

-----------------------------------------------------------------------------
(* RunReaper and ReapExpired. *)

Expired == {s \in Sandboxes :
              Stored(s) /\ rec[s].status # "destroyed" /\ rec[s].expires \in 1..clock}

(* ListExpired: the earliest first, at most ReapLimit of them. *)
Batches ==
  LET n == IF Cardinality(Expired) < ReapLimit THEN Cardinality(Expired) ELSE ReapLimit
  IN  {q \in [1..n -> Expired] :
         /\ \A i, j \in 1..n : i < j => /\ q[i] # q[j]
                                        /\ rec[q[i]].expires <= rec[q[j]].expires
         /\ \A s \in Expired, i \in 1..n :
              (\A j \in 1..n : q[j] # s) => rec[q[i]].expires <= rec[s].expires}

ReapList ==
  /\ rpc = "idle" /\ Expired # {}
  /\ victims' \in Batches
  /\ rpc' = "destroy"
  /\ UNCHANGED <<rec, unit, born, leaked, clock, clientVars, ops, crashes>>

ReapDestroy ==
  LET s == Head(victims) IN
  /\ rpc = "destroy"
  /\ Inspectable(s)
  /\ unit' = [unit EXCEPT ![s] = Removed(s)]
  /\ rpc' = "delete"
  /\ UNCHANGED <<rec, born, leaked, clock, clientVars, victims, ops, crashes>>

(* The first sandbox that cannot be destroyed, or whose record cannot be    *)
(* deleted, ends the whole batch.                                           *)
ReapError ==
  /\ \/ rpc = "destroy" /\ ~Inspectable(Head(victims))
     \/ rpc # "idle" /\ CallsMayFail
  /\ rpc' = "idle"
  /\ victims' = <<>>
  /\ UNCHANGED <<rec, unit, born, leaked, clock, clientVars, ops, crashes>>

ReapDelete ==
  /\ rpc = "delete"
  /\ rec' = [rec EXCEPT ![Head(victims)] = NoRecord]
  /\ victims' = Tail(victims)
  /\ rpc' = IF Tail(victims) = <<>> THEN "idle" ELSE "destroy"
  /\ UNCHANGED <<unit, born, leaked, clock, clientVars, ops, crashes>>

-----------------------------------------------------------------------------
(* Around the manager. *)

(* A unit comes up (a pod), exits, or is removed behind the manager's back. *)
UnitChanges(s) ==
  /\ \/ unit[s] = "stopped" /\ ~Docker(s) /\ unit' = [unit EXCEPT ![s] = "running"]
     \/ unit[s] = "running" /\ unit' = [unit EXCEPT ![s] = "stopped"]
     \/ unit[s] \in {"stopped", "running"} /\ unit' = [unit EXCEPT ![s] = Removed(s)]
  /\ UNCHANGED <<rec, born, leaked, clock, clientVars, reaperVars, ops, crashes>>

Terminated(s) ==
  /\ unit[s] = "terminating"
  /\ unit' = [unit EXCEPT ![s] = "absent"]
  /\ UNCHANGED <<rec, born, leaked, clock, clientVars, reaperVars, ops, crashes>>

Tick ==
  /\ clock < MaxTime
  /\ clock' = clock + 1
  /\ UNCHANGED <<rec, unit, born, leaked, clientVars, reaperVars, ops, crashes>>

(* A process dies between two steps: an operation is never finished, or the *)
(* gateway starts again with a reaper that lists anew.                      *)
Crash ==
  /\ crashes < MaxCrashes
  /\ crashes' = crashes + 1
  /\ \/ /\ \E c \in Clients :
             /\ cpc[c] # "idle"
             /\ cpc' = [cpc EXCEPT ![c] = "idle"]
             /\ leaked' = IF cpc[c] \in {"new", "insert"} THEN leaked \cup {target[c]}
                                                         ELSE leaked
        /\ UNCHANGED reaperVars
     \/ /\ rpc # "idle"
        /\ rpc' = "idle" /\ victims' = <<>>
        /\ UNCHANGED <<cpc, leaked>>
  /\ UNCHANGED <<rec, unit, born, clock, target, mine, ops>>

-----------------------------------------------------------------------------
Request(c) == \E s \in Sandboxes : Create(c, s) \/ Get(c, s) \/ Destroy(c, s)

Continue(c) ==
  \/ DriverStart(c) \/ DriverStartFails(c) \/ DriverStop(c) \/ Refresh(c)
  \/ DriverError(c) \/ Touch(c) \/ Upsert(c) \/ DeleteRecord(c) \/ StoreError(c)

Reap == ReapList \/ ReapDestroy \/ ReapError \/ ReapDelete

Environment ==
  \/ \E s \in Sandboxes : CreateFails(s) \/ DestroyFails(s) \/ UnitChanges(s) \/ Terminated(s)
  \/ Tick \/ Crash

Next ==
  \/ \E c \in Clients : Request(c) \/ Continue(c)
  \/ Reap
  \/ Environment

Spec == Init /\ [][Next]_vars

(* Time passes, the reaper's ticker keeps firing, pods that are deleted go  *)
(* away, and an operation that was begun returns.                           *)
FairSpec ==
  /\ Spec
  /\ WF_vars(Tick) /\ WF_vars(Reap)
  /\ \A s \in Sandboxes : WF_vars(Terminated(s))
  /\ \A c \in Clients : WF_vars(Continue(c))

-----------------------------------------------------------------------------
(* Properties. *)

Within(r) ==
  /\ r.policy /\ r.expires # 0
  /\ TTL > 0 => r.expires <= r.created + TTL
  /\ IdleTTL > 0 => r.expires <= r.accessed + IdleTTL

(***************************************************************************)
(* Touch, Start and Inspect write back copies of a record that may be old   *)
(* by then. For a pod, whose driver keeps the configuration, none of them   *)
(* ever moves the expiry beyond creation plus TTL or beyond the access on   *)
(* record plus the idle limit, or drops it, whatever they race with.        *)
(***************************************************************************)
ExpiryWithinTTL ==
  TTL + IdleTTL > 0 => \A s \in Sandboxes : ~Docker(s) /\ Stored(s) => Within(rec[s])

(***************************************************************************)
(* Destroy removes the unit before the record, and Create is the only       *)
(* operation that makes one: a unit that is there has a record, without     *)
(* which RouterDriver could not reach it any more, or its Create is about   *)
(* to write one.  The exception is a Create that ended in between, by an    *)
(* error of the driver or the store or with its process: nothing takes that *)
(* unit back (kubernetes.go:139, manager.go:132).  No other operation ever  *)
(* leaves one behind, also when it fails or its process dies half way.      *)
(***************************************************************************)
NoOrphan ==
  \A s \in Sandboxes : unit[s] \in {"stopped", "running"} =>
    \/ Stored(s)
    \/ \E c \in Clients : target[c] = s /\ cpc[c] \in {"new", "insert"}
    \/ s \in leaked

(***************************************************************************)
(* The maximum life time: a sandbox with a TTL that is on record is gone    *)
(* some day, also when processes die between their steps.                   *)
(***************************************************************************)
TTLEnds == \A s \in Sandboxes : TTL > 0 /\ Stored(s) ~> unit[s] = "absent"

-----------------------------------------------------------------------------
(* The inductive invariant behind the proofs. *)

(* Only an identifier in use has a record or an operation. *)
OnlyBorn ==
  /\ \A s \in Sandboxes : Stored(s) => s \in born
  /\ \A c \in Clients : cpc[c] # "idle" => target[c] \in born

(* A record is deleted only after its unit was, and units do not come back. *)
DeletedAfterUnit ==
  /\ \A c \in Clients : cpc[c] = "delete" => unit[target[c]] \in {"absent", "terminating"}
  /\ rpc = "delete" => /\ Head(victims) \in born
                       /\ unit[Head(victims)] \in {"absent", "terminating"}
  /\ \A s \in DockerSandboxes : unit[s] # "terminating"

(* The copies clients hold are as good as the records they were read from;  *)
(* one that is about to be touched has its policy at least.                 *)
CopiesWithinTTL ==
  TTL + IdleTTL > 0 =>
    \A c \in Clients : ~Docker(target[c]) =>
      /\ cpc[c] \in {"new", "touch"} => mine[c].policy
      /\ cpc[c] \in {"start", "started", "stop", "inspect", "upsert", "insert"}
           => Within(mine[c])

(* The inductive invariant of the proofs: it holds in every reachable       *)
(* state, whichever drivers are in use, and implies the two safety          *)
(* properties above.                                                        *)
IInv ==
  /\ TypeOK
  /\ OnlyBorn
  /\ DeletedAfterUnit
  /\ NoOrphan
  /\ ExpiryWithinTTL
  /\ CopiesWithinTTL

=============================================================================
