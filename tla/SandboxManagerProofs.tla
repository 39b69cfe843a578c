------------------------- MODULE SandboxManagerProofs -------------------------
(***************************************************************************)
(* For every set of sandboxes and clients, every TTL and every bound: the   *)
(* expiry of a pod stays within its limits, and only a Create that ended    *)
(* half way leaves a unit without a record.  The argument is one inductive  *)
(* invariant, IInv; each of its conjuncts has a lemma that says every step  *)
(* keeps it.                                                                *)
(***************************************************************************)
EXTENDS SandboxManager, FiniteSetTheorems, TLAPS

USE SandboxAssumption

(* A record is never NoRecord, so what is written is stored. *)
LEMMA RecordIsStored == NoRecord \notin Record
BY DEF NoRecord, Record

(* So is the record Create begins with, and it has its policy. *)
LEMMA NewRecord ==
  ASSUME NEW t \in Nat
  PROVE  Fresh(t) \in Record /\ Fresh(t).policy
BY DEF Fresh, Record

(* touchLifecycle yields a record. *)
LEMMA TouchType ==
  ASSUME NEW r \in Record, clock \in Nat
  PROVE  TouchLifecycle(r) \in Record
<1>1. ComputeExpiry(r.created, clock, r.policy) \in Nat
  BY DEF ComputeExpiry, Record
<1> QED BY <1>1 DEF TouchLifecycle, Record

(* mergeSandboxState yields a record. *)
LEMMA MergeType ==
  ASSUME NEW r \in Record, NEW s \in Sandboxes
  PROVE  /\ Merge(r, s) \in Record
         /\ Merge(r, s).created = r.created
         /\ Merge(r, s).expires = r.expires
         /\ Merge(r, s).accessed = r.accessed
         /\ ~Docker(s) => Merge(r, s).policy = r.policy
<1>1. StatusOf(unit[s]) \in {"running", "stopped", "destroyed"} BY DEF StatusOf
<1>2. (r.policy /\ InspectKeepsPolicy(s)) \in BOOLEAN OBVIOUS
<1>3. r.policy \in BOOLEAN BY DEF Record
<1> QED BY <1>1, <1>2, <1>3 DEF Merge, InspectKeepsPolicy, Record

-----------------------------------------------------------------------------
(* The empty manager satisfies the inductive invariant. *)
LEMMA InitIInv == Init => IInv
<1> SUFFICES ASSUME Init PROVE IInv
  OBVIOUS
<1>1. Fresh(0) \in Record BY NewRecord
<1>2. \A s \in Sandboxes : ~Stored(s) BY DEF Init, Stored
<1>3. TypeOK BY <1>1 DEF Init, TypeOK, Unit, ClientPC
<1>4. OnlyBorn BY <1>2 DEF Init, OnlyBorn
<1>5. DeletedAfterUnit BY DEF Init, DeletedAfterUnit
<1>6. NoOrphan BY DEF Init, NoOrphan
<1>7. ExpiryWithinTTL BY <1>2 DEF ExpiryWithinTTL
<1>8. CopiesWithinTTL BY DEF Init, CopiesWithinTTL
<1> QED BY <1>3, <1>4, <1>5, <1>6, <1>7, <1>8 DEF IInv

(* Every step keeps the types. *)
LEMMA TypeStep == IInv /\ [Next]_vars => TypeOK'
<1> SUFFICES ASSUME IInv, [Next]_vars PROVE TypeOK'
  OBVIOUS
<1> USE DEF TypeOK
<1>0. TypeOK BY DEF IInv
<1>1. CASE UNCHANGED vars
  BY <1>0, <1>1 DEF vars, clientVars, reaperVars
<1>2. ASSUME NEW c \in Clients, NEW s \in Sandboxes, Create(c, s) PROVE TypeOK'
  <2>1. Fresh(clock) \in Record BY <1>0, NewRecord
  <2> QED BY <1>0, <1>2, <2>1 DEF Create, Begin, ClientPC, Unit, reaperVars
<1>3. ASSUME NEW c \in Clients, NEW s \in Sandboxes, Get(c, s) PROVE TypeOK'
  <2>1. rec[s] \in Record BY <1>0, <1>3 DEF Get, Stored
  <2> QED BY <1>0, <1>3, <2>1 DEF Get, Begin, ClientPC, reaperVars
<1>4. ASSUME NEW c \in Clients, NEW s \in Sandboxes, Destroy(c, s) PROVE TypeOK'
  BY <1>0, <1>4 DEF Destroy, Begin, ClientPC, Unit, Removed, reaperVars
<1>5. ASSUME NEW c \in Clients, DriverStart(c) \/ DriverStartFails(c) PROVE TypeOK'
  BY SMTT(30), <1>0, <1>5 DEF DriverStart, DriverStartFails, Goto, ClientPC, Unit, reaperVars
<1>6. ASSUME NEW c \in Clients, DriverStop(c) PROVE TypeOK'
  <2>1. [mine[c] EXCEPT !.status = "stopped"] \in Record BY <1>0 DEF Record
  <2> QED BY <1>0, <1>6, <2>1 DEF DriverStop, Goto, ClientPC, Unit, reaperVars
<1>7. ASSUME NEW c \in Clients, Refresh(c) PROVE TypeOK'
  <2>1. Merge(mine[c], target[c]) \in Record BY <1>0, MergeType
  <2> QED BY <1>0, <1>7, <2>1 DEF Refresh, Goto, ClientPC, reaperVars
<1>8. ASSUME NEW c \in Clients, Touch(c) PROVE TypeOK'
  <2>1. TouchLifecycle(mine[c]) \in Record BY <1>0, TouchType
  <2> QED BY <1>0, <1>8, <2>1 DEF Touch, Goto, ClientPC, reaperVars
<1>9. ASSUME NEW c \in Clients,
             DriverError(c) \/ Upsert(c) \/ DeleteRecord(c) \/ StoreError(c)
      PROVE  TypeOK'
  <2>1. CASE DriverError(c)
    BY <1>0, <2>1 DEF DriverError, Goto, ClientPC, reaperVars
  <2>2. CASE Upsert(c)
    BY <1>0, <2>2 DEF Upsert, Goto, ClientPC, reaperVars
  <2>3. CASE DeleteRecord(c)
    BY <1>0, <2>3 DEF DeleteRecord, Goto, ClientPC, reaperVars
  <2>4. CASE StoreError(c)
    BY <1>0, <2>4 DEF StoreError, Goto, ClientPC, reaperVars
  <2> QED BY <1>9, <2>1, <2>2, <2>3, <2>4
<1>10. CASE ReapList
  <2> DEFINE n == IF Cardinality(Expired) < ReapLimit THEN Cardinality(Expired) ELSE ReapLimit
  <2>1. Expired # {} /\ Expired \subseteq Sandboxes BY <1>10 DEF ReapList, Expired
  <2>2. Cardinality(Expired) \in Nat \ {0}
    <3>1. IsFiniteSet(Expired) BY <2>1, FS_Subset
    <3> QED BY <2>1, <3>1, FS_CardinalityType, FS_EmptySet
  <2>3. n \in Nat \ {0} BY <2>2
  <2>4. victims' \in [1..n -> Expired] BY <1>10 DEF ReapList, Batches
  <2> HIDE DEF n
  <2>5. victims' \in Seq(Sandboxes) /\ Len(victims') = n BY <2>1, <2>3, <2>4
  <2>6. victims' # <<>> BY <2>3, <2>5
  <2> QED BY <1>0, <1>10, <2>5, <2>6 DEF ReapList, clientVars
<1>11. CASE ReapDestroy
  BY <1>0, <1>11 DEF ReapDestroy, clientVars, Unit, Removed
<1>12. CASE ReapError
  BY <1>0, <1>12 DEF ReapError, clientVars
<1>13. CASE ReapDelete
  BY <1>0, <1>13 DEF ReapDelete, clientVars
<1>14. CASE Environment
  <2>1. ASSUME NEW s \in Sandboxes, DestroyFails(s) \/ UnitChanges(s) \/ Terminated(s)
        PROVE  TypeOK'
    BY <1>0, <2>1 DEF CreateFails, DestroyFails, UnitChanges, Terminated, Unit, Removed, clientVars,
                      reaperVars
  <2>0. ASSUME NEW s \in Sandboxes, CreateFails(s) PROVE TypeOK'
    BY <1>0, <2>0 DEF CreateFails, Unit, clientVars, reaperVars
  <2>2. CASE Tick
    BY <1>0, <2>2 DEF Tick, clientVars, reaperVars
  <2>3. CASE Crash
    <3>1. cpc' \in [Clients -> ClientPC] BY <1>0, <2>3 DEF Crash, ClientPC
    <3>2. /\ victims' \in Seq(Sandboxes)
          /\ rpc' \in {"idle", "destroy", "delete"}
          /\ rpc' # "idle" => victims' # <<>>
      <4>1. CASE UNCHANGED reaperVars BY <1>0, <4>1 DEF reaperVars
      <4>2. CASE rpc' = "idle" /\ victims' = <<>> BY <4>2
      <4> QED BY <2>3, <4>1, <4>2 DEF Crash
    <3>3. crashes' \in 0..MaxCrashes BY <1>0, <2>3 DEF Crash
    <3>4. leaked' \subseteq Sandboxes BY <1>0, <2>3 DEF Crash
    <3> QED BY <1>0, <2>3, <3>1, <3>2, <3>3, <3>4 DEF Crash
  <2> QED BY <1>14, <2>0, <2>1, <2>2, <2>3 DEF Environment
<1> QED
  BY <1>1, <1>2, <1>3, <1>4, <1>5, <1>6, <1>7, <1>8, <1>9, <1>10, <1>11, <1>12, <1>13,
     <1>14 DEF Next, Request, Continue, Reap

-----------------------------------------------------------------------------
(* Every step keeps OnlyBorn. *)
LEMMA BornStep == IInv /\ [Next]_vars => OnlyBorn'
<1> SUFFICES ASSUME IInv, [Next]_vars PROVE OnlyBorn'
  OBVIOUS
<1> USE DEF OnlyBorn, Stored
<1>0. TypeOK /\ OnlyBorn BY DEF IInv
<1>1. CASE UNCHANGED vars
  BY <1>0, <1>1 DEF vars, clientVars
<1>2. ASSUME NEW c \in Clients, Request(c) PROVE OnlyBorn'
  <2>1. ASSUME NEW s \in Sandboxes, Create(c, s) PROVE OnlyBorn'
    BY <1>0, <2>1 DEF TypeOK, Create, Begin
  <2>2. ASSUME NEW s \in Sandboxes, Get(c, s) PROVE OnlyBorn'
    BY <1>0, <2>2 DEF TypeOK, Get, Begin
  <2>3. ASSUME NEW s \in Sandboxes, Destroy(c, s) PROVE OnlyBorn'
    BY <1>0, <2>3 DEF TypeOK, Destroy, Begin, Inspectable
  <2> QED BY <1>2, <2>1, <2>2, <2>3 DEF Request
<1>3. ASSUME NEW c \in Clients, Continue(c) PROVE OnlyBorn'
  <2>1. CASE Upsert(c) \/ DeleteRecord(c)
    BY <1>0, <2>1 DEF TypeOK, Upsert, DeleteRecord, Goto
  <2>2. CASE ~(Upsert(c) \/ DeleteRecord(c))
    <3>1. /\ UNCHANGED <<rec, born, target>>
          /\ cpc[c] # "idle"
          /\ \E pc \in ClientPC : cpc' = [cpc EXCEPT ![c] = pc]
      BY <1>3, <2>2 DEF Continue, DriverStart, DriverStartFails, DriverStop, Refresh,
                        DriverError, StoreError, Touch, Goto, ClientPC
    <3> QED BY <1>0, <3>1 DEF TypeOK
  <2> QED BY <2>1, <2>2
<1>4. CASE Reap
  BY <1>0, <1>4 DEF TypeOK, Reap, ReapList, ReapDestroy, ReapError, ReapDelete, clientVars
<1>5. CASE Environment
  <2>1. CASE Crash
    BY <1>0, <2>1 DEF TypeOK, Crash
  <2>2. CASE ~Crash
    BY <1>0, <1>5, <2>2 DEF Environment, CreateFails, DestroyFails, UnitChanges, Terminated, Tick, clientVars
  <2> QED BY <2>1, <2>2
<1> QED BY <1>1, <1>2, <1>3, <1>4, <1>5 DEF Next

(* A unit is made. *)
Made(s) == CreateFails(s) \/ \E c \in Clients : Create(c, s)

(* What a unit may become: only Create makes one, and one that is being     *)
(* deleted is not revived.                                                  *)
LEMMA UnitStep ==
  ASSUME IInv, [Next]_vars, NEW s \in Sandboxes, ~Made(s),
         unit[s] \in {"absent", "terminating"}
  PROVE  unit'[s] \in {"absent", "terminating"}
<1>0. /\ TypeOK
      /\ Docker(s) => unit[s] = "absent"
  BY DEF IInv, DeletedAfterUnit, TypeOK, Docker
<1>1. CASE UNCHANGED vars BY <1>1 DEF vars
<1>2. ASSUME NEW c \in Clients, Request(c) PROVE unit'[s] \in {"absent", "terminating"}
  BY <1>0, <1>2 DEF Made, TypeOK, Request, Create, Get, Destroy, Removed
<1>3. ASSUME NEW c \in Clients, Continue(c) PROVE unit'[s] \in {"absent", "terminating"}
  <2>1. CASE DriverStart(c) \/ DriverStartFails(c)
    BY <1>0, <2>1 DEF TypeOK, DriverStart, DriverStartFails
  <2>2. CASE DriverStop(c)
    BY <1>0, <2>2 DEF TypeOK, DriverStop, Inspectable
  <2>3. CASE \/ Refresh(c) \/ DriverError(c) \/ Touch(c) \/ Upsert(c) \/ DeleteRecord(c)
             \/ StoreError(c)
    BY <2>3 DEF Refresh, DriverError, Touch, Upsert, DeleteRecord, StoreError
  <2> QED BY <1>3, <2>1, <2>2, <2>3 DEF Continue
<1>4. CASE Reap
  BY <1>0, <1>4 DEF TypeOK, Reap, ReapList, ReapDestroy, ReapError, ReapDelete, Removed
<1>5. CASE Environment
  BY <1>0, <1>5 DEF Made, TypeOK, Environment, CreateFails, DestroyFails, UnitChanges,
                    Terminated, Tick, Crash
<1> QED BY <1>1, <1>2, <1>3, <1>4, <1>5 DEF Next

(* Docker never has a unit that is terminating. *)
LEMMA DockerStep ==
  ASSUME IInv, [Next]_vars, NEW s \in DockerSandboxes
  PROVE  unit'[s] # "terminating"
<1>0. TypeOK /\ s \in Sandboxes /\ Docker(s) /\ unit[s] # "terminating"
  BY DEF IInv, DeletedAfterUnit, Docker
<1>1. CASE UNCHANGED vars BY <1>0, <1>1 DEF vars
<1>2. ASSUME NEW c \in Clients, Request(c) PROVE unit'[s] # "terminating"
  BY <1>0, <1>2 DEF TypeOK, Request, Create, Get, Destroy, Removed
<1>3. ASSUME NEW c \in Clients, Continue(c) PROVE unit'[s] # "terminating"
  BY <1>0, <1>3 DEF TypeOK, Continue, DriverStart, DriverStartFails, DriverStop, Refresh,
                    DriverError, Touch, Upsert, DeleteRecord, StoreError
<1>4. CASE Reap
  BY <1>0, <1>4 DEF TypeOK, Reap, ReapList, ReapDestroy, ReapError, ReapDelete, Removed
<1>5. CASE Environment
  BY <1>0, <1>5 DEF TypeOK, Environment, CreateFails, DestroyFails, UnitChanges, Terminated, Tick, Crash,
                    Removed
<1> QED BY <1>1, <1>2, <1>3, <1>4, <1>5 DEF Next

(* Every step keeps DeletedAfterUnit. *)
LEMMA DeletedStep == IInv /\ [Next]_vars => DeletedAfterUnit'
<1> SUFFICES ASSUME IInv, [Next]_vars PROVE DeletedAfterUnit'
  OBVIOUS
<1>0. TypeOK /\ OnlyBorn /\ DeletedAfterUnit BY DEF IInv
<1>1. ASSUME NEW c \in Clients, cpc'[c] = "delete"
      PROVE  unit'[target'[c]] \in {"absent", "terminating"}
  <2>1. CASE cpc[c] = "delete" /\ target'[c] = target[c]
    BY <1>0, <2>1, UnitStep DEF TypeOK, OnlyBorn, DeletedAfterUnit, Made, Create, CreateFails
  <2>2. CASE \E s \in Sandboxes : Destroy(c, s)
    BY <1>0, <2>2 DEF TypeOK, Destroy, Begin, Removed
  <2>3. (\E s \in Sandboxes : Destroy(c, s)) \/ (cpc[c] = "delete" /\ target'[c] = target[c])
    BY <1>0, <1>1 DEF TypeOK, Next, vars, clientVars, Request, Continue, Reap, Environment,
         Create, Get, Destroy, Begin, Goto, DriverStart, DriverStartFails, DriverStop,
         Refresh, DriverError, Touch, Upsert, DeleteRecord, StoreError, ReapList, ReapDestroy,
         ReapError, ReapDelete, CreateFails, DestroyFails, UnitChanges, Terminated, Tick, Crash
  <2> QED BY <2>1, <2>2, <2>3
<1>2. ASSUME rpc' = "delete"
      PROVE  /\ Head(victims)' \in born'
             /\ unit'[Head(victims)'] \in {"absent", "terminating"}
  <2>1. CASE rpc = "delete" /\ victims' = victims /\ born \subseteq born'
    <3>1. Head(victims) \in born /\ unit[Head(victims)] \in {"absent", "terminating"}
      BY <1>0, <2>1 DEF DeletedAfterUnit
    <3>2. Head(victims) \in Sandboxes BY <1>0, <3>1 DEF TypeOK
    <3> QED BY <2>1, <3>1, <3>2, UnitStep DEF Made, Create, CreateFails
  <2>2. CASE ReapDestroy
    <3>1. Head(victims) \in Sandboxes BY <1>0, <2>2 DEF TypeOK, ReapDestroy
    <3> QED
      BY <1>0, <2>2, <3>1 DEF TypeOK, ReapDestroy, Inspectable, Removed, OnlyBorn
  <2>3. ReapDestroy \/ (rpc = "delete" /\ victims' = victims /\ born \subseteq born')
    BY <1>2 DEF Next, vars, reaperVars, Request, Continue, Reap, Environment,
         Create, Get, Destroy, DriverStart, DriverStartFails, DriverStop,
         Refresh, DriverError, Touch, Upsert, DeleteRecord, StoreError, ReapList, ReapDestroy,
         ReapError, ReapDelete, CreateFails, DestroyFails, UnitChanges, Terminated, Tick, Crash
  <2> QED BY <2>1, <2>2, <2>3
<1> QED BY <1>1, <1>2, DockerStep DEF DeletedAfterUnit

-----------------------------------------------------------------------------
(* Every step keeps NoOrphan: a record that goes has lost its unit before,  *)
(* and a Create that was about to write a record writes it or leaks.        *)
LEMMA OrphanStep == IInv /\ [Next]_vars => NoOrphan'
<1> DEFINE Making(c, s) == target[c] = s /\ cpc[c] \in {"new", "insert"}
<1> SUFFICES ASSUME IInv, [Next]_vars,
                    NEW s \in Sandboxes, unit'[s] \in {"stopped", "running"}
             PROVE  \/ Stored(s)'
                    \/ \E c \in Clients : Making(c, s)'
                    \/ s \in leaked'
  BY DEF NoOrphan
<1>0. TypeOK /\ OnlyBorn /\ DeletedAfterUnit BY DEF IInv
<1>1. CASE Made(s)
  BY <1>0, <1>1 DEF TypeOK, Made, Create, CreateFails, Begin
<1>2. CASE ~Made(s)
  <2>1. unit[s] \in {"stopped", "running"}
    BY <1>0, <1>2, UnitStep DEF TypeOK, Unit
  <2>2. Stored(s) \/ (\E c \in Clients : Making(c, s)) \/ s \in leaked
    BY <2>1 DEF IInv, NoOrphan
  <2>3. CASE Stored(s) /\ rec'[s] # rec[s]
    <3>1. PICK c \in Clients : Upsert(c) /\ target[c] = s
      <4>1. ASSUME NEW c \in Clients, DeleteRecord(c) PROVE target[c] # s
        BY <1>0, <2>1, <4>1 DEF DeletedAfterUnit, DeleteRecord, Goto
      <4>2. ASSUME ReapDelete PROVE Head(victims) # s
        BY <1>0, <2>1, <4>2 DEF DeletedAfterUnit, ReapDelete
      <4>3. (\E c \in Clients : Upsert(c) \/ DeleteRecord(c)) \/ ReapDelete
        BY <2>3 DEF Next, vars, Request, Continue, Reap, Environment, Create, Get, Destroy,
             DriverStart, DriverStartFails, DriverStop, Refresh, DriverError, StoreError,
             Touch, ReapList, ReapDestroy, ReapError, CreateFails, DestroyFails,
             UnitChanges, Terminated, Tick, Crash
      <4>4. CASE ReapDelete BY <1>0, <2>3, <4>2, <4>4 DEF TypeOK, ReapDelete
      <4>5. ASSUME NEW c \in Clients, DeleteRecord(c) PROVE FALSE
        BY <1>0, <2>3, <4>1, <4>5 DEF TypeOK, DeleteRecord
      <4>6. ASSUME NEW c \in Clients, Upsert(c) PROVE target[c] = s
        BY <1>0, <2>3, <4>6 DEF TypeOK, Upsert
      <4> QED BY <4>3, <4>4, <4>5, <4>6
    <3> QED BY <1>0, <3>1, RecordIsStored DEF TypeOK, Upsert, Stored
  <2>4. ASSUME NEW c \in Clients, Making(c, s)
        PROVE  \/ Stored(s)' \/ Making(c, s)' \/ s \in leaked'
    <3>1. CASE Upsert(c)
      BY <1>0, <2>4, <3>1, RecordIsStored DEF TypeOK, Upsert, Stored
    <3>2. CASE Touch(c)
      BY <1>0, <2>4, <3>2 DEF TypeOK, Touch, Goto
    <3>3. CASE StoreError(c)
      BY <1>0, <2>4, <3>3 DEF TypeOK, StoreError, Goto
    <3>4. CASE Crash
      BY <1>0, <2>4, <3>4 DEF TypeOK, Crash
    <3>5. CASE ~Upsert(c) /\ ~Touch(c) /\ ~StoreError(c) /\ ~Crash
      <4>1. cpc'[c] = cpc[c] /\ target'[c] = target[c]
        BY <1>0, <2>4, <3>5 DEF TypeOK, Next, vars, clientVars, Request, Continue, Reap,
             Environment, Create, Get, Destroy, Begin, Goto, DriverStart, DriverStartFails,
             DriverStop, Refresh, DriverError, Touch, Upsert, DeleteRecord, StoreError, ReapList,
             ReapDestroy, ReapError, ReapDelete, CreateFails, DestroyFails, UnitChanges,
             Terminated, Tick
      <4> QED BY <2>4, <4>1
    <3> QED BY <3>1, <3>2, <3>3, <3>4, <3>5
  <2>5. CASE Stored(s) /\ rec'[s] = rec[s]
    BY <2>5 DEF Stored
  <2>6. leaked \subseteq leaked'
    BY DEF Next, vars, Request, Continue, Reap, Environment, Create, Get, Destroy,
         DriverStart, DriverStartFails, DriverStop, Refresh, DriverError, Touch, Upsert,
         DeleteRecord, StoreError, ReapList, ReapDestroy, ReapError, ReapDelete,
         CreateFails, DestroyFails, UnitChanges, Terminated, Tick, Crash
  <2> QED BY <2>2, <2>3, <2>4, <2>5, <2>6
<1> QED BY <1>1, <1>2

-----------------------------------------------------------------------------
(* touchLifecycle computes an expiry within the limits. *)
LEMMA TouchWithin ==
  ASSUME NEW r \in Record, clock \in Nat \ {0}, TTL + IdleTTL > 0, r.policy
  PROVE  Within(TouchLifecycle(r))
<1> DEFINE e == ComputeExpiry(r.created, clock, r.policy)
<1>1. r.created \in Nat BY DEF Record
<1>2. /\ e \in Nat \ {0}
      /\ TTL > 0 => e <= r.created + TTL
      /\ IdleTTL > 0 => e <= clock + IdleTTL
  BY <1>1 DEF ComputeExpiry
<1> HIDE DEF e
<1>3. /\ TouchLifecycle(r).policy = r.policy
      /\ TouchLifecycle(r).created = r.created
      /\ TouchLifecycle(r).accessed = clock
      /\ TouchLifecycle(r).expires = e
  BY DEF TouchLifecycle, Record, e
<1> QED BY <1>2, <1>3 DEF Within

(* Every step keeps the copies the clients hold within the TTL. *)
LEMMA CopiesStep == IInv /\ [Next]_vars => CopiesWithinTTL'
<1> SUFFICES ASSUME IInv, [Next]_vars, TTL + IdleTTL > 0, NEW c \in Clients, ~Docker(target'[c])
             PROVE  /\ cpc'[c] \in {"new", "touch"} => mine'[c].policy
                    /\ cpc'[c] \in {"start", "started", "stop", "inspect", "upsert", "insert"}
                         => Within(mine'[c])
  BY DEF CopiesWithinTTL, Within, Docker
<1> DEFINE Good(pc, r) ==
             /\ pc \in {"new", "touch"} => r.policy
             /\ pc \in {"start", "started", "stop", "inspect", "upsert", "insert"} => Within(r)
<1> SUFFICES Good(cpc'[c], mine'[c]) OBVIOUS
<1>0. /\ TypeOK
      /\ ~Docker(target[c]) => Good(cpc[c], mine[c])
      /\ \A s \in Sandboxes : ~Docker(s) /\ Stored(s) => Within(rec[s])
  BY DEF IInv, CopiesWithinTTL, ExpiryWithinTTL
<1>1. CASE cpc'[c] = cpc[c] /\ mine'[c] = mine[c] /\ target'[c] = target[c] BY <1>0, <1>1
<1>2. CASE cpc'[c] \in {"idle", "delete"} BY <1>2
<1>3. ASSUME NEW s \in Sandboxes, Create(c, s) PROVE Good(cpc'[c], mine'[c])
  BY <1>0, <1>3, NewRecord DEF TypeOK, Create, Begin
<1>4. ASSUME NEW s \in Sandboxes, Get(c, s) PROVE Good(cpc'[c], mine'[c])
  <2>1. target'[c] = s /\ mine'[c] = rec[s] /\ Stored(s)
    BY <1>0, <1>4 DEF TypeOK, Get, Begin
  <2>2. Within(rec[s]) BY <1>0, <2>1
  <2> QED BY <2>1, <2>2 DEF Within
<1>5. CASE DriverStart(c)
  BY <1>0, <1>5 DEF TypeOK, DriverStart, Goto
<1>6. CASE DriverStop(c)
  <2>1. mine[c] \in Record BY <1>0 DEF TypeOK
  <2>2. Within(mine[c]) BY <1>0, <1>6 DEF DriverStop, Goto
  <2>3. mine'[c] = [mine[c] EXCEPT !.status = "stopped"] BY <1>0, <1>6 DEF TypeOK, DriverStop
  <2>4. /\ mine'[c].policy = mine[c].policy
        /\ mine'[c].created = mine[c].created
        /\ mine'[c].expires = mine[c].expires
        /\ mine'[c].accessed = mine[c].accessed
    BY <2>1, <2>3 DEF Record
  <2>5. Within(mine'[c]) BY <2>2, <2>4 DEF Within
  <2> QED BY <1>0, <1>6, <2>5 DEF TypeOK, DriverStop, Goto
<1>7. CASE Refresh(c)
  <2>1. mine[c] \in Record /\ target[c] \in Sandboxes BY <1>0 DEF TypeOK
  <2>2. Within(mine[c]) BY <1>0, <1>7 DEF Refresh, Goto
  <2>3. mine'[c] = Merge(mine[c], target[c]) BY <1>0, <1>7 DEF TypeOK, Refresh
  <2>4. ~Docker(target[c]) BY <1>7 DEF Refresh
  <2>5. Within(mine'[c]) BY <2>1, <2>2, <2>3, <2>4, MergeType DEF Within
  <2> QED BY <2>5 DEF Within
<1>8. CASE Touch(c)
  <2>1. mine[c] \in Record /\ mine[c].policy BY <1>0, <1>8 DEF TypeOK, Touch, Goto
  <2>2. mine'[c] = TouchLifecycle(mine[c]) BY <1>0, <1>8 DEF TypeOK, Touch
  <2>3. Within(mine'[c]) BY <1>0, <2>1, <2>2, TouchWithin DEF TypeOK
  <2> QED BY <2>3 DEF Within
<1>9. \/ cpc'[c] = cpc[c] /\ mine'[c] = mine[c] /\ target'[c] = target[c]
      \/ cpc'[c] \in {"idle", "delete"}
      \/ \E s \in Sandboxes : Create(c, s) \/ Get(c, s)
      \/ DriverStart(c) \/ DriverStop(c) \/ Refresh(c) \/ Touch(c)
  <2>1. ASSUME NEW d \in Clients, Request(d) \/ Continue(d) PROVE <1>9
    <3>1. CASE d = c
      BY <1>0, <2>1, <3>1 DEF TypeOK, Request, Continue, Destroy, Begin, Goto,
           DriverStartFails, DriverError, Upsert, DeleteRecord, StoreError
    <3>2. CASE d # c
      BY <1>0, <2>1, <3>2 DEF TypeOK, Request, Continue, Create, Get, Destroy, Begin, Goto,
           DriverStart, DriverStartFails, DriverStop, Refresh, DriverError, Touch, Upsert,
           DeleteRecord, StoreError
    <3> QED BY <3>1, <3>2
  <2>2. CASE Reap \/ Environment \/ UNCHANGED vars
    BY <1>0, <2>2 DEF TypeOK, vars, clientVars, Reap, Environment, ReapList, ReapDestroy,
         ReapError, ReapDelete, CreateFails, DestroyFails, UnitChanges, Terminated, Tick, Crash
  <2> QED BY <2>1, <2>2 DEF Next
<1> QED BY <1>1, <1>2, <1>3, <1>4, <1>5, <1>6, <1>7, <1>8, <1>9

(* Every step keeps the stored expiries within the limits. *)
LEMMA ExpiryStep == IInv /\ [Next]_vars => ExpiryWithinTTL'
<1> SUFFICES ASSUME IInv, [Next]_vars, TTL + IdleTTL > 0,
                    NEW s \in Sandboxes, ~Docker(s), Stored(s)'
             PROVE  Within(rec'[s])
  BY DEF ExpiryWithinTTL, Within, Docker
<1>0. TypeOK /\ (Stored(s) => Within(rec[s])) BY DEF IInv, ExpiryWithinTTL
<1>1. CASE rec'[s] = rec[s] BY <1>0, <1>1 DEF Stored
<1>2. ASSUME NEW c \in Clients, Upsert(c), target[c] = s PROVE Within(rec'[s])
  <2>1. Within(mine[c]) BY <1>2 DEF IInv, CopiesWithinTTL, Upsert, Goto
  <2> QED BY <1>0, <1>2, <2>1 DEF TypeOK, Upsert
<1>3. \/ rec'[s] = rec[s]
      \/ \E c \in Clients : Upsert(c) /\ target[c] = s
  BY <1>0 DEF TypeOK, Stored, Next, vars, Request, Continue, Reap, Environment, Create, Get,
       Destroy, DriverStart, DriverStartFails, DriverStop, Refresh, DriverError, Touch, Upsert,
       DeleteRecord, StoreError, ReapList, ReapDestroy, ReapError, ReapDelete, CreateFails, DestroyFails, UnitChanges,
       Terminated, Tick, Crash
<1> QED BY <1>1, <1>2, <1>3

-----------------------------------------------------------------------------
(* The inductive invariant: it holds of every reachable state of the        *)
(* manager, its clients, its reaper and either driver.                      *)
THEOREM ManagerInvariant == Spec => []IInv
<1>1. IInv /\ [Next]_vars => IInv'
  BY TypeStep, BornStep, DeletedStep, OrphanStep, ExpiryStep, CopiesStep DEF IInv
<1> QED BY InitIInv, <1>1, PTL DEF Spec

(* Records, copies and units have their types throughout. *)
THEOREM ManagerTypeOK == Spec => []TypeOK
<1>1. IInv => TypeOK BY DEF IInv
<1> QED BY ManagerInvariant, <1>1, PTL

(* For a pod no interleaving of Create, Start, Stop, Inspect, Touch,        *)
(* Destroy and the reaper, with any number of clients, failed calls and     *)
(* crashes, stores an expiry later than creation plus TTL or than the       *)
(* access plus the idle limit, or loses it.                                 *)
THEOREM ExpiryStaysWithinTTL == Spec => []ExpiryWithinTTL
<1>1. IInv => ExpiryWithinTTL BY DEF IInv
<1> QED BY ManagerInvariant, <1>1, PTL

(* With either driver, also when calls fail and processes die, a unit that  *)
(* is there has a record, a Create about to write one, or a Create that     *)
(* ended without: no other operation and no reaper leaves one behind.       *)
THEOREM UnitsAreReachable == Spec => []NoOrphan
<1>1. IInv => NoOrphan BY DEF IInv
<1> QED BY ManagerInvariant, <1>1, PTL

=============================================================================
