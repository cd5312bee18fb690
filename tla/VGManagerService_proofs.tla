----------------------- MODULE VGManagerService_proofs -----------------------
(***************************************************************************)
(* What a node reports and serves: TopoLVM follows lvmd.yaml, a class that *)
(* is reported Ready has its storage, a static device set is settled, and  *)
(* the cleanup finalizer is given back by a clean node.                    *)
(***************************************************************************)
EXTENDS VGManagerStorage_proofs

\* The provers a leaf is given to when it names none: most are first-order and
\* go to Zenon, the rest (arithmetic, records, sequences) to the SMT solver.
USE Zenon, SMTT(30)

-----------------------------------------------------------------------------
(***************************************************************************)
(* lvmd.yaml and its watcher.                                              *)
(***************************************************************************)

\* The worker starts when the file is watched, so it changes the file under the
\* eyes of the watcher only.
WatchFits ==
    /\ LoadedMatchesFile
    /\ watch = "pending" => pc = "idle" /\ notify = "none" /\ loaded = lvmd.file

\* A step of the worker that keeps the file keeps what the process has loaded.
LEMMA WatchKept ==
    ASSUME WatchFits, UNCHANGED <<loaded, watch, notify>>, lvmd'.file = lvmd.file,
           watch = "pending" => pc' = "idle"
    PROVE  WatchFits'
BY DEF WatchFits, LoadedMatchesFile

\* A change of the file under the watcher is noticed.
LEMMA WatchNotices ==
    ASSUME WatchFits, UNCHANGED <<loaded, watch>>, FileChanged, pc # "idle"
    PROVE  WatchFits'
BY DEF WatchFits, LoadedMatchesFile, FileChanged

\* Loading the configuration does not touch the file.
LEMMA LoadKeepsFile ==
    ASSUME TypeOK
    PROVE  AfterLoad(lvmd).file = lvmd.file
BY DEF TypeOK, AfterLoad

LEMMA SaveIsNoticed ==
    ASSUME TypeOK, WatchFits, UNCHANGED <<loaded, watch>>, pc # "idle", NEW c \in Configs,
           Save(c) \/ SaveFails(c)
    PROVE  WatchFits'
BY WatchKept, WatchNotices DEF Save, SaveFails, WatchFits

LEMMA WatchStep ==
    ASSUME "watch" \notin FaultKinds, TypeOK, WatchFits, [Next]_vars
    PROVE  WatchFits'
<1>1. CASE UNCHANGED vars \/ Operator \/ Environment
  <2>1. UNCHANGED <<lvmdVars, pc>>
    BY <1>1 DEF vars, workVars, Operator, CreateNodeStatus, CreateVolumeGroup,
       EditVolumeGroup, DeleteVolumeGroup, OtherNodesDone, SetStorageClass, operatorUnchanged,
       Environment, RelabelNode, SyncCache, EnqueueAgain, CreateLogicalVolume,
       DeleteLogicalVolumes, DetachDevice, AttachDevice
  <2> QED
    BY <2>1 DEF lvmdVars, WatchFits, LoadedMatchesFile
<1>2. CASE AddWatch \/ CancelContext
  BY <1>2 DEF AddWatch, CancelContext, Fault, WatchFits, LoadedMatchesFile, workVars
<1>3. CASE ExitAndRestart \/ Crash \/ Reboot
  <2>1. PICK f : Boot(f)
    BY <1>3 DEF ExitAndRestart, Crash, Reboot
  <2> QED
    BY <2>1 DEF Boot, WatchFits, LoadedMatchesFile
<1>4. ASSUME NEW v \in VGs, StartReconcile(v) PROVE WatchFits'
  BY <1>4 DEF StartReconcile, lvmdVars, WatchFits, LoadedMatchesFile
<1>5. CASE CreatePath
  <2>1. CASE ApplyLVMDConfig
    <3>1. pc # "idle" /\ cur \in VGs /\ UNCHANGED <<loaded, watch>> /\ cached[cur] \in Objects
      BY <2>1 DEF ApplyLVMDConfig, TypeOK
    <3>2. UpdatedConfig(Load(lvmd), cur) \in Configs
      BY <3>1, LvmdTypes, ConfigTypes, ObjectTypes DEF UpdatedConfig, TypeOK
    <3>3. CASE lvmd' = AfterLoad(lvmd) /\ UNCHANGED notify
      BY <3>1, <3>3, LoadKeepsFile, WatchKept DEF WatchFits
    <3>4. CASE UNCHANGED <<lvmd, notify>>
      BY <3>1, <3>4, WatchKept DEF WatchFits
    <3> QED
      BY <2>1, <3>1, <3>2, <3>3, <3>4, SaveIsNoticed DEF ApplyLVMDConfig
  <2>2. CASE ~ApplyLVMDConfig
    <3>1. UNCHANGED lvmdVars /\ pc # "idle"
      BY <1>5, <2>2 DEF CreatePath, AddFinalizer, Inspect, WipeDone, Annotate, FilterDevices,
         WipeDevice, ReduceVG, RemovePV, RelistVGs, SetProgressing, AddDevicesToVG,
         AddThinPoolToVG, ValidateLVs, SetReady, UpdateObject, GiveUp
    <3> QED
      BY <3>1 DEF lvmdVars, WatchFits, LoadedMatchesFile
  <2> QED
    BY <2>1, <2>2
<1>6. CASE DeletePath
  <2>1. CASE LoadConf
    <3>1. /\ UNCHANGED <<loaded, watch, notify>> /\ pc # "idle"
          /\ lvmd' = AfterLoad(lvmd) \/ UNCHANGED lvmd
      BY <2>1 DEF LoadConf
    <3> QED
      BY <3>1, LoadKeepsFile, WatchKept DEF WatchFits
  <2>2. CASE DeleteConf
    <3>1. /\ UNCHANGED <<loaded, watch>> /\ pc # "idle" /\ conf \in Configs
          /\ UNCHANGED <<lvmd, notify>> \/ Save(conf) \/ SaveFails(conf) \/ FileChanged
      BY <2>2 DEF DeleteConf, TypeOK
    <3> QED
      BY <3>1, SaveIsNoticed, WatchKept, WatchNotices DEF WatchFits
  <2>3. CASE ~LoadConf /\ ~DeleteConf
    <3>1. UNCHANGED lvmdVars /\ pc # "idle"
      BY <1>6, <2>3 DEF DeletePath, CheckRetain, DeletePool, DeleteVG, DeletePVs,
         RemoveVolumeGroupStatus, RemoveFinalizer, UpdateObject, GiveUp
    <3> QED
      BY <3>1 DEF lvmdVars, WatchFits, LoadedMatchesFile
  <2> QED
    BY <2>1, <2>2, <2>3
<1> QED
  BY <1>1, <1>2, <1>3, <1>4, <1>5, <1>6 DEF Next, Worker, Process

\* While nothing is pending in the watcher, the process serves what lvmd.yaml
\* holds: every write of the file, a failed, a torn or a skipped one included,
\* is either noticed or leaves the file as it was loaded.  The assumption is that
\* the directory is watched before the first reconcile; otherwise a change can
\* be missed, as the code only logs an error of the watcher.
THEOREM ConfigurationFollowed == "watch" \notin FaultKinds => (Spec => []LoadedMatchesFile)
<1> SUFFICES ASSUME "watch" \notin FaultKinds PROVE Spec => []LoadedMatchesFile
  OBVIOUS
<1>1. Init => WatchFits
  BY DEF Init, WatchFits, LoadedMatchesFile
<1>2. TypeOK /\ WatchFits /\ [Next]_vars => WatchFits'
  BY WatchStep
<1>3. WatchFits => LoadedMatchesFile
  BY DEF WatchFits
<1> QED
  BY <1>1, <1>2, <1>3, TypeCorrect, PTL DEF Spec

-----------------------------------------------------------------------------
(***************************************************************************)
(* What the worker knows when it publishes a class.                        *)
(***************************************************************************)

\* From the choice of devices on the volume group has members; from the
\* validation on a thin class has its pool.  A new volume group has been given
\* devices, and one without new devices was listed with some.
PublishSteps == {"addPool", "relist", "validate", "apply", "ready"}

PublishFits ==
    /\ pc \in {"progress", "addDevices"} => todo # {}
    /\ pc = "reduce" => ~changed
    /\ pc \in PublishSteps => Members(cur) # {}
    /\ pc \in {"apply", "ready"} \/ (pc = "relist" /\ changed)
         => (cur \in Thin => pool[cur] # "none")

\* An empty list of devices is believed only if the volume group has no members,
\* missing ones included.
SettledFits ==
    /\ pc \in {"wipe", "filter"} => (listed = {} => Members(cur) = {})
    /\ pc \in {"progress", "addDevices"} /\ cur \in Static \ Selector => Members(cur) = {}

\* A pool lives in a volume group.
PoolsFit == \A v \in VGs : pool[v] # "none" => Members(v) # {}

ServiceInv == StorageInv /\ PublishFits /\ SettledFits /\ PoolsFit /\ ReadyIsBacked

LEMMA VGKept ==
    ASSUME StorageInv, [Next]_vars, NEW v \in VGs, Members(v) # {}, ~(DeleteVG /\ v = cur)
    PROVE  \E d \in Devices : disk'[d] = v
<1>1. PICK d \in Devices : disk[d] = v
  BY DEF Members
<1>2. ~(DeleteVG /\ v = cur /\ ~lv[v])
  OBVIOUS
<1> QED
  BY <1>1, <1>2, NotEmptied

LEMMA MemberIsSeen ==
    ASSUME StorageInv, NEW v \in VGs, Members(v) # {}
    PROVE  VGExists(v) /\ ListPVs(v) = Members(v)
<1>1. PICK d \in Devices : disk[d] = v
  BY DEF Members
<1>2. PICK e \in attached : disk[e] = v
  BY <1>1 DEF StorageInv, Inv, MembersFit
<1>3. e \in Members(v) \cap attached
  BY <1>2 DEF Members, StorageInv, Inv, TypeOK
<1> QED
  BY <1>3 DEF VGExists, ListPVs

WorkSteps == PublishSteps \cup {"wipe", "filter", "progress", "addDevices", "reduce"}

LEMMA WorkElsewhere == pc' \notin WorkSteps => PublishFits' /\ SettledFits'
BY DEF PublishFits, SettledFits, WorkSteps, PublishSteps

\* Steps of others, and of the worker when it goes on without changing the host.
LEMMA WorkFrame ==
    ASSUME PublishFits, SettledFits, UNCHANGED <<cur, disk, changed, todo, listed>>, pc' = pc,
           pc # "idle" => ((pool'[cur] = "none") <=> (pool[cur] = "none"))
    PROVE  PublishFits' /\ SettledFits'
<1>1. Members(cur)' = Members(cur)
  BY DEF Members
<1> QED
  BY <1>1 DEF PublishFits, SettledFits

LEMMA FilterPublishes ==
    ASSUME ServiceInv, FilterDevices
    PROVE  PublishFits' /\ SettledFits'
<1>1. CASE pc' \notin WorkSteps
  BY <1>1, WorkElsewhere
<1>2. CASE pc' \in WorkSteps
  <2>1. /\ UNCHANGED <<cached, disk, listed, cur>> /\ pc = "filter" /\ ~ReconcileFails(cur)
        /\ ~changed'
        /\ IF Available(cur) # {}
           THEN todo' = Available(cur) /\ pc' = "progress"
           ELSE pc' \in {"reduce", "validate"}
    BY <1>2, EndIsIdle DEF FilterDevices, Goto, WorkSteps, PublishSteps, apiVars, hostVars
  <2>2. Members(cur)' = Members(cur) /\ listed \subseteq Members(cur)
    BY <2>1 DEF Members, ServiceInv, StorageInv, ListFits
  <2>3. CASE Available(cur) = {}
    <3>1. pc' \in {"reduce", "validate"} /\ Members(cur) # {}
      BY <2>1, <2>2, <2>3 DEF ReconcileFails
    <3> QED
      BY <2>1, <2>2, <3>1 DEF PublishFits, SettledFits
  <2>4. CASE Available(cur) # {}
    <3>1. pc' = "progress" /\ todo' # {}
      BY <2>1, <2>4
    <3>2. ASSUME cur \in Static \ Selector PROVE Members(cur) = {}
      <4>1. cached[cur].paths \in ValidPaths(cur) /\ cur \in VGs
        BY <2>1 DEF ServiceInv, StorageInv, Inv, TypeOK, CacheFollows, WorkFits, CreateSteps
      <4>2. cached[cur].paths = {}
        BY <3>2, <4>1 DEF ValidPaths
      <4>3. listed = {}
        BY <2>4, <3>2, <4>2 DEF Available, Frozen, HasExplicitDevicePaths
      <4> QED
        BY <2>1, <4>3 DEF ServiceInv, SettledFits
    <3> QED
      BY <2>1, <2>2, <3>1, <3>2 DEF PublishFits, SettledFits, PublishSteps
  <2> QED
    BY <2>3, <2>4
<1> QED
  BY <1>1, <1>2

LEMMA InspectPublishes ==
    ASSUME ServiceInv, Inspect
    PROVE  PublishFits' /\ SettledFits'
<1>1. CASE pc' \notin WorkSteps
  BY <1>1, WorkElsewhere
<1>2. CASE pc' \in WorkSteps
  <2>1. /\ UNCHANGED <<disk, cur>> /\ cur \in VGs /\ listed' = ListPVs(cur)
        /\ pc' \in {"wipe", "filter"}
    BY <1>2, EndIsIdle
    DEF Inspect, Goto, WorkSteps, PublishSteps, hostVars, ServiceInv, StorageInv, Inv, TypeOK
  <2>2. Members(cur)' = Members(cur) /\ (ListPVs(cur) = {} => Members(cur) = {})
    BY <2>1, MemberIsSeen DEF Members, ServiceInv
  <2> QED
    BY <2>1, <2>2 DEF PublishFits, SettledFits, PublishSteps
<1> QED
  BY <1>1, <1>2

\* Wiping a device and finishing the wipe leave the members of the class alone.
LEMMA WipePublishes ==
    ASSUME ServiceInv, [Next]_vars, WipeDone \/ \E d \in Devices : WipeDevice(d)
    PROVE  PublishFits' /\ SettledFits'
<1>1. CASE pc' \notin WorkSteps
  BY <1>1, WorkElsewhere
<1>2. CASE pc' \in WorkSteps
  <2>1. UNCHANGED <<listed, cur>> /\ cur \in VGs /\ pc = "wipe" /\ pc' \in {"wipe", "filter"}
    BY <1>2, EndIsIdle
    DEF WipeDone, WipeDevice, Goto, WorkSteps, PublishSteps, localVars, ServiceInv, StorageInv,
        Inv, TypeOK
  <2>2. Members(cur) = {} => Members(cur)' = {}
    BY <2>1, BuiltStep DEF ServiceInv, AddDevicesToVG
  <2> QED
    BY <2>1, <2>2 DEF PublishFits, SettledFits, PublishSteps, ServiceInv
<1> QED
  BY <1>1, <1>2

\* The steps that change the volume group leave it with members.
LEMMA ChangePublishes ==
    ASSUME ServiceInv, [Next]_vars,
           \/ \E d \in Devices : ReduceVG(d) \/ RemovePV(d)
           \/ SetProgressing \/ AddDevicesToVG
    PROVE  PublishFits' /\ SettledFits'
<1>0. pc # "idle" /\ cur \in VGs
  BY DEF ReduceVG, RemovePV, SetProgressing, AddDevicesToVG, ServiceInv, StorageInv, Inv, TypeOK
<1>1. CASE pc' \notin WorkSteps
  BY <1>1, WorkElsewhere
<1>2. CASE pc' \in WorkSteps /\ \E d \in Devices : ReduceVG(d) \/ RemovePV(d)
  <2>1. pc' \in {"reduce", "relist"} /\ UNCHANGED <<cur, changed>> /\ pc = "reduce" /\ ~changed
    BY <1>2, EndIsIdle
    DEF ReduceVG, RemovePV, Goto, GiveUp, WorkSteps, PublishSteps, localVars, ServiceInv, PublishFits
  <2>2. Members(cur)' # {}
    <3>1. Members(cur) # {}
      BY <2>1 DEF ServiceInv, StorageInv, ListFits
    <3> QED
      BY <1>0, <2>1, <3>1, VGKept DEF ServiceInv, DeleteVG, Members
  <2> QED
    BY <2>1, <2>2 DEF PublishFits, SettledFits, PublishSteps
<1>3. CASE pc' \in WorkSteps /\ SetProgressing
  <2>1. /\ pc = "progress" /\ pc' = "addDevices"
        /\ UNCHANGED <<cur, disk, todo>>
    BY <1>3, EndIsIdle DEF SetProgressing, Goto, WorkSteps, PublishSteps, localVars, hostVars
  <2>2. Members(cur)' = Members(cur)
    BY <2>1 DEF Members
  <2> QED
    BY <2>1, <2>2 DEF PublishFits, SettledFits, PublishSteps, ServiceInv
<1>4. CASE pc' \in WorkSteps /\ AddDevicesToVG
  <2>1. /\ UNCHANGED cur /\ pc = "addDevices"
        /\ pc' = IF cur \in Thin THEN "addPool" ELSE "relist"
        /\ disk' = [d \in Devices |-> IF d \in todo THEN cur ELSE disk[d]]
    BY <1>4, EndIsIdle DEF AddDevicesToVG, Goto, GiveUp, WorkSteps, PublishSteps
  <2>2. todo # {} /\ todo \subseteq Devices
    BY <2>1 DEF ServiceInv, PublishFits, StorageInv, Inv, TypeOK
  <2>3. Members(cur)' # {}
    BY <2>1, <2>2 DEF Members
  <2> QED
    BY <2>1, <2>3 DEF PublishFits, SettledFits, PublishSteps
<1> QED
  BY <1>1, <1>2, <1>3, <1>4

\* The pool is there after it was added, found by the validation or not needed.
LEMMA PoolPublishes ==
    ASSUME ServiceInv, AddThinPoolToVG \/ ValidateLVs \/ RelistVGs
    PROVE  PublishFits' /\ SettledFits'
<1>0. cur \in VGs /\ Members(cur) # {} /\ UNCHANGED disk
  BY DEF AddThinPoolToVG, ValidateLVs, RelistVGs, GiveUp, hostVars, ServiceInv, StorageInv, Inv, TypeOK,
     PublishFits, PublishSteps
<1>1. CASE pc' \notin WorkSteps
  BY <1>1, WorkElsewhere
<1>2. CASE pc' \in WorkSteps /\ AddThinPoolToVG
  <2>1. UNCHANGED cur /\ pc' = "validate"
    BY <1>2, EndIsIdle DEF AddThinPoolToVG, Goto, GiveUp, WorkSteps, PublishSteps
  <2> QED
    BY <1>0, <2>1 DEF PublishFits, SettledFits, Members
<1>3. CASE pc' \in WorkSteps /\ ValidateLVs
  <2>1. /\ UNCHANGED cur /\ pc' \in {"relist", "apply"}
        /\ cur \in Thin => pool'[cur] # "none"
    BY <1>0, <1>3, EndIsIdle
    DEF ValidateLVs, LVsConsistent, Goto, GiveUp, WorkSteps, PublishSteps, ServiceInv, StorageInv, Inv, TypeOK
  <2> QED
    BY <1>0, <2>1 DEF PublishFits, SettledFits, Members
<1>4. CASE pc' \in WorkSteps /\ RelistVGs
  <2>1. /\ UNCHANGED <<cur, pool, changed>> /\ pc = "relist"
        /\ pc' = IF changed THEN "apply" ELSE "validate"
    BY <1>4, EndIsIdle DEF RelistVGs, Goto, WorkSteps, PublishSteps, hostVars
  <2> QED
    BY <1>0, <2>1 DEF PublishFits, SettledFits, Members, ServiceInv
<1> QED
  BY <1>1, <1>2, <1>3, <1>4

LEMMA ApplyPublishes ==
    ASSUME ServiceInv, ApplyLVMDConfig
    PROVE  PublishFits' /\ SettledFits'
<1>1. CASE pc' \notin WorkSteps
  BY <1>1, WorkElsewhere
<1>2. CASE pc' \in WorkSteps
  <2>1. UNCHANGED <<cur, pool, disk>> /\ pc = "apply" /\ pc' = "ready"
    BY <1>2, EndIsIdle DEF ApplyLVMDConfig, Goto, WorkSteps, PublishSteps, hostVars
  <2> QED
    BY <2>1 DEF PublishFits, SettledFits, Members, ServiceInv, PublishSteps
<1> QED
  BY <1>1, <1>2

LEMMA PublishStep ==
    ASSUME ServiceInv, [Next]_vars
    PROVE  PublishFits' /\ SettledFits'
<1>1. CASE UNCHANGED vars \/ AddWatch \/ CancelContext \/ Operator \/ Environment
  <2>1. UNCHANGED <<pc, cur, todo, listed, changed, disk, pool>>
    BY <1>1 DEF vars, hostVars, workVars, AddWatch, CancelContext, Operator,
       CreateNodeStatus, CreateVolumeGroup, EditVolumeGroup, DeleteVolumeGroup, OtherNodesDone,
       SetStorageClass, operatorUnchanged, Environment, RelabelNode, SyncCache, EnqueueAgain,
       CreateLogicalVolume, DeleteLogicalVolumes, DetachDevice, AttachDevice
  <2> QED
    BY <2>1, WorkFrame DEF ServiceInv
<1>2. CASE ExitAndRestart \/ Crash \/ Reboot
  BY <1>2, WorkElsewhere DEF ExitAndRestart, Crash, Reboot, Boot, WorkSteps, PublishSteps
<1>3. CASE \E v \in VGs : StartReconcile(v)
  <2>1. pc' \notin WorkSteps
    BY <1>3 DEF StartReconcile, WorkSteps, PublishSteps
  <2> QED
    BY <2>1, WorkElsewhere
<1>4. CASE AddFinalizer \/ Annotate \/ SetReady
  <2>1. pc' \notin WorkSteps
    BY <1>4 DEF AddFinalizer, Annotate, SetReady, UpdateObject, Done, Requeue, Finish, WorkSteps,
       PublishSteps
  <2> QED
    BY <2>1, WorkElsewhere
<1>5. CASE DeletePath
  <2>1. pc' \notin WorkSteps
    BY <1>5 DEF DeletePath, LoadConf, CheckRetain, DeletePool, DeleteVG, DeletePVs,
       DeleteConf, RemoveVolumeGroupStatus, RemoveFinalizer, UpdateObject, GiveUp, Goto, Done,
       Requeue, Finish, WorkSteps, PublishSteps
  <2> QED
    BY <2>1, WorkElsewhere
<1> QED
  BY <1>1, <1>2, <1>3, <1>4, <1>5, FilterPublishes, InspectPublishes, WipePublishes,
     ChangePublishes, PoolPublishes, ApplyPublishes
  DEF Next, Worker, CreatePath, Process

\* vgremove refuses a volume group with a pool.
LEMMA PoolsStep ==
    ASSUME ServiceInv, [Next]_vars
    PROVE  PoolsFit'
<1> SUFFICES ASSUME NEW v \in VGs, pool'[v] # "none" PROVE Members(v)' # {}
  BY DEF PoolsFit
<1>1. Members(v) # {} /\ ~(DeleteVG /\ v = cur /\ Members(v)' = {})
  <2>1. CASE pool[v] = "none"
    <3>1. AddThinPoolToVG /\ v = cur
      BY <2>1, PoolStep DEF ServiceInv, StorageInv, Inv
    <3> QED
      BY <3>1 DEF AddThinPoolToVG, DeleteVG, ServiceInv, PublishFits, PublishSteps
  <2>2. CASE pool[v] # "none"
    <3>1. Members(v) # {}
      BY <2>2 DEF ServiceInv, PoolsFit
    <3>2. DeleteVG /\ v = cur => UNCHANGED disk
      BY <2>2 DEF DeleteVG, RefusesDeleteVG
    <3> QED
      BY <3>1, <3>2 DEF Members
  <2> QED
    BY <2>1, <2>2
<1> QED
  BY <1>1, BuiltStep DEF ServiceInv

\* The status becomes Ready at the end of a reconcile only.
LEMMA ReadyStep ==
    ASSUME ServiceInv, [Next]_vars, NEW v \in VGs, status[v] # "Ready", status'[v] = "Ready"
    PROVE  v = cur /\ SetReady
<1>1. CASE Process \/ Operator \/ Environment \/ UNCHANGED vars
  BY <1>1 DEF vars, Process, AddWatch, CancelContext, ExitAndRestart, Crash, Reboot,
     Boot, Operator, CreateNodeStatus, CreateVolumeGroup, EditVolumeGroup, DeleteVolumeGroup,
     OtherNodesDone, SetStorageClass, operatorUnchanged, Environment, RelabelNode, SyncCache,
     EnqueueAgain, CreateLogicalVolume, DeleteLogicalVolumes, DetachDevice, AttachDevice
<1>2. \A pvs : FailedStatus(pvs) => status'[v] # "Ready"
  BY DEF FailedStatus, ServiceInv, StorageInv, Inv, TypeOK
<1>3. CASE (\E u \in VGs : StartReconcile(u)) \/ CreatePath
  BY <1>2, <1>3 DEF CreatePath, StartReconcile, AddFinalizer, UpdateObject, GiveUp,
     Inspect, WipeDone, Annotate, FilterDevices, RelistVGs, SetProgressing, AddThinPoolToVG,
     ValidateLVs, ApplyLVMDConfig, SetReady, WipeDevice, ReduceVG, RemovePV, AddDevicesToVG,
     ServiceInv, StorageInv, Inv, TypeOK
<1>4. CASE DeletePath
  BY <1>2, <1>4 DEF DeletePath, LoadConf, CheckRetain, DeletePool, DeleteVG, DeletePVs, GiveUp,
     DeleteConf, RemoveVolumeGroupStatus, RemoveFinalizer, UpdateObject, ServiceInv, StorageInv, Inv, TypeOK
<1> QED
  BY <1>1, <1>3, <1>4 DEF Next, Worker

\* Only the cleanup of an object that is being deleted takes storage away.
LEMMA CleanupIsForDeletion ==
    ASSUME StorageInv, DeletePool \/ DeleteVG
    PROVE  cur \in VGs /\ api[cur].fin /\ api[cur].deleting /\ UNCHANGED api
BY DEF StorageInv, Inv, TypeOK, WorkFits, DeleteSteps, HeldSteps, ObjectsFit, DeletePool, DeleteVG, GiveUp, apiVars

\* An object that is not being deleted has been so before, or it is new and
\* without finalizer.
LEMMA LiveObject ==
    ASSUME StorageInv, [Next]_vars, NEW v \in VGs, api'[v].fin, api'[v].alive, ~api'[v].deleting
    PROVE  api[v].alive /\ ~api[v].deleting
<1>1. CASE UNCHANGED api
  BY <1>1
<1>2. ASSUME NEW u \in VGs, NEW o \in Objects, ObjectChange(u, o)
      PROVE  api[v].alive /\ ~api[v].deleting
  <2>1. api'[v] = IF v = u THEN o ELSE api[v]
    BY <1>2 DEF ObjectChange, Becomes, StorageInv, Inv, TypeOK
  <2> QED
    BY <1>2, <2>1 DEF ObjectChange, Same
<1> QED
  BY <1>1, <1>2, OneKindOfChange

LEMMA BackedStep ==
    ASSUME ServiceInv, StorageInv', [Next]_vars
    PROVE  ReadyIsBacked'
<1> SUFFICES ASSUME NEW v \in VGs, status'[v] = "Ready", api'[v].alive, ~api'[v].deleting
             PROVE  VGExists(v)' /\ (v \in Thin => pool'[v] # "none")
  BY DEF ReadyIsBacked
<1>0. StorageInv /\ TypeOK
  BY DEF ServiceInv, StorageInv, Inv
<1>1. api'[v].fin
  BY DEF StorageInv, Inv, StatusGuarded
<1>2. api[v].alive /\ ~api[v].deleting
  BY <1>0, <1>1, LiveObject
<1>3. Members(v) # {} /\ (v \in Thin => pool[v] # "none")
  <2>1. CASE status[v] = "Ready"
    BY <1>2, <2>1 DEF ServiceInv, ReadyIsBacked, VGExists, ListPVs
  <2>2. CASE status[v] # "Ready"
    BY <2>2, ReadyStep DEF SetReady, ServiceInv, PublishFits, PublishSteps
  <2> QED
    BY <2>1, <2>2
<1>4. ~(DeleteVG /\ v = cur) /\ ~(DeletePool /\ v = cur)
  BY <1>0, <1>2, CleanupIsForDeletion
<1>5. Members(v)' # {}
  BY <1>0, <1>3, <1>4, VGKept DEF Members
<1>6. v \in Thin => pool'[v] # "none"
  <2> SUFFICES ASSUME pool[v] # "none", pool'[v] = "none" PROVE FALSE
    BY <1>3
  <2>1. v = cur /\ (AddThinPoolToVG \/ DeletePool)
    BY <1>0, PoolStep
  <2> QED
    BY <1>0, <1>4, <2>1 DEF AddThinPoolToVG, TypeOK
<1>7. VGExists(v)'
  <2>1. PICK d \in Devices : disk'[d] = v
    BY <1>5 DEF Members
  <2>2. PICK e \in attached' : disk'[e] = v
    BY <2>1 DEF StorageInv, Inv, MembersFit
  <2>3. e \in Members(v)' \cap attached'
    BY <2>2 DEF Members, StorageInv, Inv, TypeOK
  <2> QED
    BY <2>3 DEF VGExists, ListPVs
<1> QED
  BY <1>6, <1>7

LEMMA ServiceInit ==
    ASSUME NoOptionalWipe, Init
    PROVE  ServiceInv
<1>1. StorageInv
  BY StorageInit
<1>2. PublishFits /\ SettledFits
  BY DEF Init, PublishFits, SettledFits, PublishSteps
<1>3. PoolsFit /\ ReadyIsBacked
  BY DEF Init, PoolsFit, ReadyIsBacked
<1> QED
  BY <1>1, <1>2, <1>3 DEF ServiceInv

\* The inductive invariant holds in every reachable state.
THEOREM ServiceInvariant == NoOptionalWipe => (Spec => []ServiceInv)
<1> SUFFICES ASSUME NoOptionalWipe PROVE Spec => []ServiceInv
  OBVIOUS
<1>1. ServiceInv /\ [Next]_vars => ServiceInv'
  <2> SUFFICES ASSUME ServiceInv, [Next]_vars PROVE ServiceInv'
    OBVIOUS
  <2>1. StorageInv'
    BY StorageStep DEF ServiceInv
  <2> QED
    BY <2>1, PublishStep, PoolsStep, BackedStep DEF ServiceInv
<1> QED
  BY <1>1, ServiceInit, PTL DEF Spec

\* A class that is reported Ready, and whose object is not being deleted, has its
\* volume group and, if it is thin, its pool: from the choice of devices to the
\* status many steps later, and for as long as the status stays, nothing but the
\* cleanup of a deleted object takes them away.
THEOREM ReadyClassesAreBacked == NoOptionalWipe => (Spec => []ReadyIsBacked)
<1>1. ServiceInv => ReadyIsBacked
  BY DEF ServiceInv
<1> QED
  BY <1>1, ServiceInvariant, PTL

\* With the static policy and without device paths, no device joins a volume
\* group that has members, whether its devices are attached or missing.  Nothing
\* is assumed: a class without a selector is the only one and is never wiped.
THEOREM StaticSetIsSettled == Spec => StaticSetSettled
<1>0. ASSUME NEW v \in Static \ Selector PROVE NoOptionalWipe
  BY VGManagerAssumption DEF NoOptionalWipe
<1>1. ASSUME ServiceInv, [Next]_vars, NEW v \in Static \ Selector, Members(v) # {}
      PROVE  Members(v)' \subseteq Members(v)
  <2>1. v \in VGs
    BY VGManagerAssumption
  <2>2. ~(AddDevicesToVG /\ v = cur)
    BY <1>1 DEF AddDevicesToVG, ServiceInv, SettledFits
  <2>3. \A d \in Devices : disk'[d] = v => disk[d] = v
    BY <1>1, <2>1, <2>2, NewMember DEF ServiceInv
  <2> QED
    BY <2>3 DEF Members
<1>2. ServiceInv /\ [Next]_vars
        => [\A v \in Static \ Selector :
              Members(v) # {} => Members(v)' \subseteq Members(v)]_vars
  BY <1>1
<1>3. CASE NoOptionalWipe
  <2>1. Spec => [][\A v \in Static \ Selector :
                     Members(v) # {} => Members(v)' \subseteq Members(v)]_vars
    BY <1>2, <1>3, ServiceInvariant, PTL DEF Spec
  <2> QED
    BY <2>1 DEF StaticSetSettled
<1>4. CASE ~NoOptionalWipe
  <2>1. [Next]_vars => [\A v \in Static \ Selector :
                          Members(v) # {} => Members(v)' \subseteq Members(v)]_vars
    BY <1>0, <1>4
  <2>2. Spec => [][\A v \in Static \ Selector :
                     Members(v) # {} => Members(v)' \subseteq Members(v)]_vars
    BY <2>1, PTL DEF Spec
  <2> QED
    BY <2>2 DEF StaticSetSettled
<1> QED
  BY <1>3, <1>4

-----------------------------------------------------------------------------
(***************************************************************************)
(* The class leaves lvmd.yaml before the finalizer goes.                   *)
(***************************************************************************)

\* As long as no write fails, a cached configuration is that of the file, unless
\* the file has been deleted; what is not there lists no class.
PairFits ==
    /\ ~lvmd.file.exists => lvmd.file = Nil
    /\ ~lvmd.cache.exists => lvmd.cache = Nil
    /\ lvmd.cache.exists => lvmd.file \in {lvmd.cache, Nil}

\* The configuration to be written in processDelete is the current one without
\* the class; after the write the file does not list the class.
ConfSteps == {"checkRetain", "deletePool", "deleteVG", "deletePVs", "deleteConf"}
WrittenSteps == {"removeStatus", "removeFinalizer"}

ConfFits ==
    /\ pc \in ConfSteps => conf = WithoutClass(Load(lvmd), cur)
    /\ pc \in WrittenSteps => ~Listed(lvmd.file, cur)

LEMMA ConfigFacts ==
    /\ ~Nil.exists /\ EmptyConfig.exists
    /\ \A v \in VGs : ~Listed(Nil, v)
    /\ \A c \in Configs, v \in VGs :
         /\ ~Listed(WithoutClass(c, v), v) /\ (WithoutClass(c, v).exists <=> c.exists)
         /\ \A r : WithClass(c, v, r).exists
BY DEF Nil, EmptyConfig, Listed, Configs, WithoutClass, WithClass

LEMMA PairFacts ==
    ASSUME TypeOK
    PROVE  /\ Load(lvmd) \in Configs /\ lvmd.file \in Configs /\ lvmd.cache \in Configs
           /\ AfterLoad(lvmd).cache = Load(lvmd) /\ AfterLoad(lvmd).file = lvmd.file
           /\ AfterDelete(lvmd).cache = lvmd.cache /\ AfterDelete(lvmd).file = Nil
           /\ \A c : AfterSave(lvmd, c).cache = c /\ AfterSave(lvmd, c).file = c
BY DEF TypeOK, Load, AfterLoad, AfterDelete, AfterSave

LEMMA ConfElsewhere == pc' \notin ConfSteps \cup WrittenSteps => ConfFits'
BY DEF ConfFits

LEMMA LoadKeepsPair ==
    ASSUME TypeOK, PairFits, lvmd' = AfterLoad(lvmd)
    PROVE  PairFits' /\ Load(lvmd)' = Load(lvmd)
BY PairFacts, ConfigFacts DEF PairFits, Load

LEMMA SaveKeepsPair ==
    ASSUME TypeOK, PairFits, NEW c \in Configs, c.exists, Save(c)
    PROVE  PairFits'
<1>1. UNCHANGED lvmd \/ lvmd' = AfterSave(lvmd, c)
  BY DEF Save
<1>2. CASE UNCHANGED lvmd
  BY <1>2 DEF PairFits
<1>3. CASE lvmd' = AfterSave(lvmd, c)
  <2>1. lvmd'.cache = c /\ lvmd'.file = c
    BY <1>3, PairFacts
  <2> QED
    BY <2>1 DEF PairFits
<1> QED
  BY <1>1, <1>2, <1>3

\* What the worker may write is a configuration.
LEMMA PendingExists ==
    ASSUME TypeOK, NEW c \in PendingWrites
    PROVE  c.exists
<1>1. CASE c = UpdatedConfig(Load(lvmd), cur) /\ c # Load(lvmd) /\ pc = "apply"
  <2>1. cur \in VGs
    BY <1>1 DEF TypeOK
  <2>2. c = WithClass(Load(lvmd), cur, cached[cur].ratio)
    BY <1>1 DEF UpdatedConfig
  <2> QED
    BY <2>1, <2>2, PairFacts, ConfigFacts
<1> QED
  BY <1>1 DEF PendingWrites

LEMMA PairStep ==
    ASSUME "file" \notin FaultKinds, TypeOK, PairFits, [Next]_vars
    PROVE  PairFits'
<1>1. CASE UNCHANGED vars \/ Operator \/ Environment \/ AddWatch \/ CancelContext
  <2>1. UNCHANGED lvmd
    BY <1>1 DEF vars, lvmdVars, Operator, CreateNodeStatus, CreateVolumeGroup,
       EditVolumeGroup, DeleteVolumeGroup, OtherNodesDone, SetStorageClass, operatorUnchanged,
       Environment, RelabelNode, SyncCache, EnqueueAgain, CreateLogicalVolume,
       DeleteLogicalVolumes, DetachDevice, AttachDevice, AddWatch, CancelContext
  <2> QED
    BY <2>1 DEF PairFits
<1>2. CASE ExitAndRestart \/ Crash \/ Reboot
  <2>1. PICK f : Boot(f) /\ (f = lvmd.file \/ f.exists)
    BY <1>2, PendingExists, ConfigFacts DEF ExitAndRestart, Crash, Reboot, TornFiles
  <2> QED
    BY <2>1, ConfigFacts DEF Boot, PairFits
<1>3. CASE ApplyLVMDConfig
  <2>1. cur \in VGs /\ ~\E x : x = "file" /\ Fault(x)
    BY <1>3 DEF ApplyLVMDConfig, Fault, TypeOK
  <2> DEFINE new == UpdatedConfig(Load(lvmd), cur)
  <2>2. lvmd' = AfterLoad(lvmd) \/ (new # Load(lvmd) /\ Save(new))
    BY <1>3, <2>1 DEF ApplyLVMDConfig, SaveFails
  <2>3. new # Load(lvmd) => new.exists /\ new \in Configs
    BY <2>1, PairFacts, ConfigFacts, ConfigTypes, ObjectTypes DEF UpdatedConfig, TypeOK
  <2> HIDE DEF new
  <2> QED
    BY <2>2, <2>3, LoadKeepsPair, SaveKeepsPair
<1>4. CASE LoadConf
  <2>1. lvmd' = AfterLoad(lvmd) \/ UNCHANGED lvmd
    BY <1>4 DEF LoadConf
  <2> QED
    BY <2>1, LoadKeepsPair DEF PairFits
<1>5. CASE DeleteConf
  <2>1. \/ UNCHANGED lvmd
        \/ conf.exists /\ Save(conf)
        \/ lvmd' = AfterDelete(lvmd)
    BY <1>5 DEF DeleteConf, SaveFails, Fault
  <2>2. conf \in Configs
    BY DEF TypeOK
  <2> QED
    BY <2>1, <2>2, SaveKeepsPair, PairFacts, ConfigFacts DEF PairFits
<1>6. CASE (\E v \in VGs : StartReconcile(v)) \/ (CreatePath /\ ~ApplyLVMDConfig)
  <2>1. UNCHANGED lvmd
    BY <1>6 DEF CreatePath, StartReconcile, AddFinalizer, Inspect, WipeDone, Annotate,
       FilterDevices, WipeDevice, ReduceVG, RemovePV, RelistVGs, SetProgressing, AddDevicesToVG,
       AddThinPoolToVG, ValidateLVs, SetReady, UpdateObject, GiveUp, lvmdVars
  <2> QED
    BY <2>1 DEF PairFits
<1>7. CASE DeletePath /\ ~LoadConf /\ ~DeleteConf
  <2>1. UNCHANGED lvmd
    BY <1>7 DEF DeletePath, CheckRetain, DeletePool, DeleteVG, DeletePVs,
       RemoveVolumeGroupStatus, RemoveFinalizer, UpdateObject, GiveUp, lvmdVars
  <2> QED
    BY <2>1 DEF PairFits
<1> QED
  BY <1>1, <1>2, <1>3, <1>4, <1>5, <1>6, <1>7 DEF Next, Worker, Process

\* The write of processDelete takes the class out of the file, also when there
\* is nothing to write.
LEMMA DeleteConfClears ==
    ASSUME "file" \notin FaultKinds, TypeOK, PairFits, ConfFits, DeleteConf, pc' # "idle"
    PROVE  ConfFits'
<1>1. /\ cur \in VGs /\ conf = WithoutClass(Load(lvmd), cur) /\ UNCHANGED cur
      /\ pc' = "removeStatus"
  BY EndIsIdle DEF DeleteConf, Goto, TypeOK, ConfFits, ConfSteps
<1>2. /\ ~Listed(conf, cur) /\ (conf.exists <=> Load(lvmd).exists)
  BY <1>1, PairFacts, ConfigFacts
<1>3. CASE ~conf.exists
  <2>1. lvmd.file = Nil /\ UNCHANGED lvmd
    BY <1>2, <1>3, EndIsIdle DEF Load, PairFits, DeleteConf
  <2> QED
    BY <1>1, <2>1, ConfigFacts DEF ConfFits, ConfSteps
<1>4. CASE conf.exists /\ ~NoClasses(conf)
  <2>1. Save(conf)
    BY <1>4, EndIsIdle DEF DeleteConf
  <2>2. CASE conf = lvmd.cache
    <3>1. UNCHANGED lvmd
      BY <2>1, <2>2 DEF Save, SaveSkipped
    <3>2. lvmd.file \in {conf, Nil}
      BY <1>4, <2>2, SMTT(20) DEF PairFits
    <3>3. ~Listed(lvmd.file, cur)
      BY <1>1, <1>2, <3>2, ConfigFacts
    <3> QED
      BY <1>1, <3>1, <3>3 DEF ConfFits, ConfSteps
  <2>3. CASE conf # lvmd.cache
    <3>1. lvmd'.file = conf
      BY <2>1, <2>3, PairFacts DEF Save, SaveSkipped
    <3> QED
      BY <1>1, <1>2, <3>1 DEF ConfFits, ConfSteps
  <2> QED
    BY <2>2, <2>3
<1>5. CASE conf.exists /\ NoClasses(conf)
  <2>1. lvmd'.file = Nil
    BY <1>5, EndIsIdle, PairFacts DEF DeleteConf
  <2> QED
    BY <1>1, <2>1, ConfigFacts DEF ConfFits, ConfSteps
<1> QED
  BY <1>3, <1>4, <1>5

LEMMA ConfStep ==
    ASSUME "file" \notin FaultKinds, TypeOK, PairFits, ConfFits, [Next]_vars
    PROVE  ConfFits'
<1>0. CASE pc' \notin ConfSteps \cup WrittenSteps
  BY <1>0, ConfElsewhere
<1> SUFFICES ASSUME pc' \in ConfSteps \cup WrittenSteps PROVE ConfFits'
  BY <1>0
<1>1. CASE UNCHANGED vars \/ Operator \/ Environment \/ AddWatch \/ CancelContext
  <2>1. UNCHANGED <<lvmd, pc, cur, conf>>
    BY <1>1 DEF vars, lvmdVars, workVars, Operator, CreateNodeStatus, CreateVolumeGroup,
       EditVolumeGroup, DeleteVolumeGroup, OtherNodesDone, SetStorageClass, operatorUnchanged,
       Environment, RelabelNode, SyncCache, EnqueueAgain, CreateLogicalVolume,
       DeleteLogicalVolumes, DetachDevice, AttachDevice, AddWatch, CancelContext
  <2> QED
    BY <2>1 DEF ConfFits
<1>2. CASE ExitAndRestart \/ Crash \/ Reboot
  BY <1>2 DEF ExitAndRestart, Crash, Reboot, Boot, ConfSteps, WrittenSteps
<1>3. CASE (\E v \in VGs : StartReconcile(v)) \/ CreatePath
  BY <1>3 DEF CreatePath, StartReconcile, AddFinalizer, Inspect, WipeDone, Annotate,
     FilterDevices, WipeDevice, ReduceVG, RemovePV, RelistVGs, SetProgressing, AddDevicesToVG,
     AddThinPoolToVG, ValidateLVs, ApplyLVMDConfig, SetReady, UpdateObject, GiveUp, Goto,
     Requeue, Done, Finish, ConfSteps, WrittenSteps
<1>4. CASE LoadConf
  <2>1. /\ lvmd' = AfterLoad(lvmd) /\ conf' = WithoutClass(Load(lvmd), cur) /\ UNCHANGED cur
        /\ pc' \in ConfSteps
    BY <1>4, EndIsIdle DEF LoadConf, Goto, ConfSteps, WrittenSteps
  <2>2. Load(lvmd)' = Load(lvmd)
    BY <2>1, LoadKeepsPair
  <2> QED
    BY <2>1, <2>2 DEF ConfFits, ConfSteps, WrittenSteps
<1>5. CASE CheckRetain \/ DeletePool \/ DeleteVG \/ DeletePVs
  <2>1. UNCHANGED <<lvmd, cur, conf>> /\ pc \in ConfSteps /\ pc' \in ConfSteps
    BY <1>5, EndIsIdle
    DEF CheckRetain, DeletePool, DeleteVG, DeletePVs, GiveUp, Goto, localVars, lvmdVars,
        ConfSteps, WrittenSteps
  <2> QED
    BY <2>1 DEF ConfFits, ConfSteps, WrittenSteps
<1>6. CASE DeleteConf
  BY <1>6, DeleteConfClears DEF ConfSteps, WrittenSteps
<1>7. CASE RemoveVolumeGroupStatus \/ RemoveFinalizer
  <2>1. UNCHANGED <<lvmd, cur>> /\ pc = "removeStatus" /\ pc' = "removeFinalizer"
    BY <1>7, EndIsIdle
    DEF RemoveVolumeGroupStatus, RemoveFinalizer, UpdateObject, Goto, lvmdVars, ConfSteps,
        WrittenSteps
  <2> QED
    BY <2>1 DEF ConfFits, ConfSteps, WrittenSteps
<1> QED
  BY <1>1, <1>2, <1>3, <1>4, <1>5, <1>6, <1>7 DEF Next, Worker, DeletePath, Process

\* Only this node's worker gives its finalizer back.
LEMMA ReleaseStep ==
    ASSUME StorageInv, [Next]_vars, NEW v \in VGs, api[v].fin, ~api'[v].fin
    PROVE  v = cur /\ pc = "removeFinalizer"
<1>1. ObjectActions
  BY ObjectStep
<1>2. CASE AddFinalizer \/ Annotate \/ RemoveFinalizer
  <2>1. PICK objs : UpdateObject(objs)
    BY <1>2 DEF AddFinalizer, Annotate, RemoveFinalizer, apiVars
  <2>2. v = cur
    BY <2>1, UpdateCases DEF StorageInv, Inv, TypeOK
  <2>3. cached[cur] \in Objects
    BY <2>2 DEF StorageInv, Inv, TypeOK
  <2>4. CASE AddFinalizer
    <3> DEFINE o == [cached[cur] EXCEPT !.fin = TRUE]
    <3>1. UpdateObject({o}) /\ pc # "idle"
      BY <2>4 DEF AddFinalizer
    <3>2. o.fin
      BY <2>3 DEF Objects
    <3> HIDE DEF o
    <3>3. UNCHANGED api \/ Becomes(cur, o)
      BY <3>1, UpdateToOne
    <3> QED
      BY <2>2, <3>2, <3>3 DEF Becomes, StorageInv, Inv, TypeOK
  <2>5. CASE Annotate
    <3> DEFINE o == [cached[cur] EXCEPT !.wiped = TRUE]
    <3>1. UpdateObject({o}) /\ pc # "idle" /\ cached[cur].fin
      BY <2>5 DEF Annotate, StorageInv, Inv, WorkFits, CreateSteps
    <3>2. o.fin
      BY <2>3, <3>1 DEF Objects
    <3> HIDE DEF o
    <3>3. UNCHANGED api \/ Becomes(cur, o)
      BY <3>1, UpdateToOne
    <3> QED
      BY <2>2, <3>2, <3>3 DEF Becomes, StorageInv, Inv, TypeOK
  <2>6. CASE RemoveFinalizer
    BY <2>2, <2>6 DEF RemoveFinalizer
  <2> QED
    BY <1>2, <2>4, <2>5, <2>6
<1>3. CASE ExitAndRestart \/ Crash \/ Reboot \/ \E u \in VGs : SyncCache(u)
  BY <1>3 DEF ExitAndRestart, Crash, Reboot, Boot, SyncCache
<1>4. ASSUME NEW u \in VGs, \/ CreateVolumeGroup(u) \/ EditVolumeGroup(u)
                            \/ DeleteVolumeGroup(u) \/ OtherNodesDone(u)
      PROVE  FALSE
  <2>1. api[u] \in Objects /\ (api[u].fin => api[u].alive)
    BY DEF StorageInv, Inv, TypeOK, CacheFollows
  <2>2. api'[u].fin <=> api[u].fin
    <3>1. CASE CreateVolumeGroup(u)
      BY <2>1, <3>1 DEF CreateVolumeGroup, NoObject, StorageInv, Inv, TypeOK
    <3>2. CASE EditVolumeGroup(u)
      BY <2>1, <3>2 DEF EditVolumeGroup, Objects, StorageInv, Inv, TypeOK
    <3>3. CASE DeleteVolumeGroup(u)
      BY <2>1, <3>3 DEF DeleteVolumeGroup, Objects, NoObject, StorageInv, Inv, TypeOK
    <3>4. CASE OtherNodesDone(u)
      BY <2>1, <3>4 DEF OtherNodesDone, NoObject, StorageInv, Inv, TypeOK
    <3> QED
      BY <1>4, <3>1, <3>2, <3>3, <3>4
  <2>3. u # v => api'[v] = api[v]
    BY <1>4 DEF CreateVolumeGroup, EditVolumeGroup, DeleteVolumeGroup, OtherNodesDone, StorageInv, Inv, TypeOK
  <2> QED
    BY <2>2, <2>3
<1> QED
  BY <1>1, <1>2, <1>3, <1>4 DEF ObjectActions

\* What is left of a class when the finalizer is given back.
LEMMA ReleaseLeaves ==
    ASSUME ServiceInv, [Next]_vars, NEW v \in VGs, api[v].fin, ~api'[v].fin
    PROVE  /\ v = cur /\ pc = "removeFinalizer"
           /\ Members(v) = {} /\ pool[v] = "none" /\ status[v] = "none"
<1>1. v = cur /\ pc = "removeFinalizer"
  BY ReleaseStep DEF ServiceInv
<1>2. Members(v) = {} /\ status[v] = "none"
  BY <1>1 DEF ServiceInv, StorageInv, Inv, WorkFits, CleanedSteps, Members
<1>3. pool[v] = "none"
  BY <1>2 DEF ServiceInv, PoolsFit
<1> QED
  BY <1>1, <1>2, <1>3

\* Whatever fails, the writes of lvmd.yaml included, processDelete gives the
\* finalizer back only when no member, no pool and no status entry is left.
THEOREM ReleasesLeaveNoStorage ==
    NoOptionalWipe =>
      (Spec => [][\A v \in VGs : api[v].fin /\ ~api'[v].fin =>
                    Members(v) = {} /\ pool[v] = "none" /\ status[v] = "none"]_vars)
<1>1. ServiceInv /\ [Next]_vars =>
        [\A v \in VGs : api[v].fin /\ ~api'[v].fin =>
           Members(v) = {} /\ pool[v] = "none" /\ status[v] = "none"]_vars
  BY ReleaseLeaves
<1> QED
  BY <1>1, ServiceInvariant, PTL DEF Spec

\* The finalizer is given back by a clean node: no member and no pool is left,
\* lvmd.yaml does not list the class and the status has no entry.  Each of the
\* four is the work of an earlier step of processDelete, or was found done by an
\* earlier, failed attempt.  The assumption is that writes of lvmd.yaml do not
\* fail: after a failed one the cache holds what the file does not, and the retry
\* writes nothing.
THEOREM ReleasesAreClean ==
    NoOptionalWipe /\ "file" \notin FaultKinds => (Spec => ReleaseIsClean)
<1> SUFFICES ASSUME NoOptionalWipe, "file" \notin FaultKinds PROVE Spec => ReleaseIsClean
  OBVIOUS
<1>1. Init => PairFits /\ ConfFits
  <2> SUFFICES ASSUME Init PROVE PairFits /\ ConfFits
    OBVIOUS
  <2>1. lvmd.cache = Nil /\ lvmd.file = Nil /\ pc = "idle"
    BY DEF Init
  <2>2. PairFits
    BY <2>1, ConfigFacts DEF PairFits
  <2>3. ConfFits
    BY <2>1 DEF ConfFits, ConfSteps, WrittenSteps
  <2> QED
    BY <2>2, <2>3
<1>2. TypeOK /\ PairFits /\ ConfFits /\ [Next]_vars => PairFits' /\ ConfFits'
  BY PairStep, ConfStep
<1>3. ASSUME ServiceInv, ConfFits, [Next]_vars, NEW v \in VGs, api[v].fin, ~api'[v].fin
      PROVE  Members(v) = {} /\ pool[v] = "none" /\ ~Listed(lvmd.file, v) /\ status[v] = "none"
  <2>1. v = cur /\ pc = "removeFinalizer"
    BY <1>3, ReleaseLeaves
  <2>2. ~Listed(lvmd.file, v)
    BY <1>3, <2>1 DEF ConfFits, WrittenSteps
  <2> QED
    BY <1>3, <2>2, ReleaseLeaves
<1>4. ServiceInv /\ ConfFits /\ [Next]_vars =>
        [\A v \in VGs : api[v].fin /\ ~api'[v].fin =>
           /\ Members(v) = {}
           /\ pool[v] = "none"
           /\ ~Listed(lvmd.file, v)
           /\ status[v] = "none"]_vars
  BY <1>3
<1>5. Spec => [][\A v \in VGs : api[v].fin /\ ~api'[v].fin =>
                   /\ Members(v) = {}
                   /\ pool[v] = "none"
                   /\ ~Listed(lvmd.file, v)
                   /\ status[v] = "none"]_vars
  BY <1>1, <1>2, <1>4, TypeCorrect, ServiceInvariant, PTL DEF Spec
<1> QED
  BY <1>5 DEF ReleaseIsClean

=============================================================================
