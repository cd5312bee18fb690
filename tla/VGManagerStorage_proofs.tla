----------------------- MODULE VGManagerStorage_proofs -----------------------
(***************************************************************************)
(* VGManager implements NodeStorage, keeps the storage of user volumes and *)
(* keeps RAID volume groups complete.                                      *)
(***************************************************************************)
EXTENDS VGManagerGuard_proofs, FiniteSetTheorems

\* The provers a leaf is given to when it names none: most are first-order and
\* go to Zenon, the rest (arithmetic, records, sequences) to the SMT solver.
USE Zenon, SMTT(30)

\* The deletion of an object that carries the finalizer is not undone.
ObjectsFit ==
    \A v \in VGs : /\ api[v].deleting => api[v].alive
                   /\ api[v].fin /\ cached[v].deleting => api[v].deleting

\* User volumes have a volume group and, in a thin class, a pool.
VolumesFit ==
    \A v \in VGs : lv[v] => /\ \E d \in Devices : disk[d] = v
                            /\ v \in Thin => pool[v] # "none"

\* The devices the worker has listed are still members when it decides what to
\* add or remove, and those that it keeps are enough.
Remaining == listed \ RemovedDevices(cur)

ListFits ==
    /\ pc \in {"wipe", "filter", "progress", "addDevices"} => listed \subseteq Members(cur)
    /\ pc = "reduce" => /\ Remaining \subseteq Members(cur)
                        /\ Remaining \cap todo = {} /\ Remaining # {}
                        /\ cur \in Raid => Cardinality(Remaining) >= MinDevices

\* The assumption that no member is wiped comes with the invariant.
StorageInv ==
    NoOptionalWipe /\ Inv /\ ObjectsFit /\ VolumesFit /\ ListFits /\ RaidHasMinimum

-----------------------------------------------------------------------------
(***************************************************************************)
(* Which actions change the volumes and the objects.                       *)
(***************************************************************************)

LEMMA VolumeStep ==
    ASSUME [Next]_vars
    PROVE  \/ UNCHANGED lv
           \/ \E v \in VGs : CreateLogicalVolume(v) \/ DeleteLogicalVolumes(v)
<1>1. CASE Process \/ Operator \/ Environment \/ UNCHANGED vars
  BY <1>1 DEF vars, hostVars, Process, AddWatch, CancelContext, ExitAndRestart, Crash, Reboot,
     Boot, Operator, CreateNodeStatus, CreateVolumeGroup, EditVolumeGroup, DeleteVolumeGroup,
     OtherNodesDone, SetStorageClass, operatorUnchanged, Environment, RelabelNode, SyncCache,
     EnqueueAgain, DetachDevice, AttachDevice
<1>2. CASE (\E v \in VGs : StartReconcile(v)) \/ CreatePath
  BY <1>2 DEF CreatePath, hostVars, StartReconcile, AddFinalizer, UpdateObject,
     Inspect, WipeDone, Annotate, FilterDevices, RelistVGs, SetProgressing, AddThinPoolToVG,
     ValidateLVs, ApplyLVMDConfig, SetReady, WipeDevice, ReduceVG, RemovePV, AddDevicesToVG
<1>3. CASE DeletePath
  BY <1>3 DEF DeletePath, hostVars, LoadConf, CheckRetain, DeletePool, DeleteVG, DeletePVs,
     DeleteConf, RemoveVolumeGroupStatus, RemoveFinalizer, UpdateObject
<1> QED
  BY <1>1, <1>2, <1>3 DEF Next, Worker

\* A pool comes with addThinPoolToVG only, and goes away in DeletePool only, which
\* LVM refuses while volumes use it.
LEMMA PoolStep ==
    ASSUME TypeOK, [Next]_vars, NEW v \in VGs, (pool[v] = "none") # (pool'[v] = "none")
    PROVE  v = cur /\ (AddThinPoolToVG \/ (DeletePool /\ pool'[v] = "none" /\ ~lv[v]))
<1>1. CASE Operator \/ Environment \/ UNCHANGED vars \/ AddWatch \/ CancelContext
  BY <1>1 DEF vars, hostVars, AddWatch, CancelContext,
     Operator, CreateNodeStatus, CreateVolumeGroup, EditVolumeGroup, DeleteVolumeGroup,
     OtherNodesDone, SetStorageClass, operatorUnchanged, Environment, RelabelNode, SyncCache,
     EnqueueAgain, CreateLogicalVolume, DeleteLogicalVolumes, DetachDevice, AttachDevice
<1>2. CASE ExitAndRestart \/ Crash \/ Reboot
  BY <1>2 DEF ExitAndRestart, Crash, Reboot, TypeOK
<1>3. CASE AddThinPoolToVG \/ ValidateLVs
  BY <1>3 DEF AddThinPoolToVG, ValidateLVs, LVsConsistent, TypeOK
<1>4. CASE DeletePool
  BY <1>4 DEF DeletePool, RefusesDeleteLV, TypeOK
<1>5. CASE \/ \E u \in VGs : StartReconcile(u)
           \/ \E d \in Devices : WipeDevice(d) \/ ReduceVG(d) \/ RemovePV(d)
           \/ AddFinalizer \/ Inspect \/ WipeDone \/ Annotate \/ FilterDevices \/ RelistVGs
           \/ SetProgressing \/ AddDevicesToVG \/ ApplyLVMDConfig \/ SetReady
  BY <1>5 DEF hostVars, StartReconcile, AddFinalizer, UpdateObject,
     Inspect, WipeDone, Annotate, FilterDevices, RelistVGs, SetProgressing,
     ApplyLVMDConfig, SetReady, WipeDevice, ReduceVG, RemovePV, AddDevicesToVG
<1>6. CASE \/ LoadConf \/ CheckRetain \/ DeleteVG \/ DeletePVs \/ DeleteConf
           \/ RemoveVolumeGroupStatus \/ RemoveFinalizer
  BY <1>6 DEF hostVars, LoadConf, CheckRetain, DeleteVG, DeletePVs,
     DeleteConf, RemoveVolumeGroupStatus, RemoveFinalizer, UpdateObject
<1> QED
  BY <1>1, <1>2, <1>3, <1>4, <1>5, <1>6 DEF Next, Worker, CreatePath, DeletePath, Process

-----------------------------------------------------------------------------
(***************************************************************************)
(* Members of a volume group.                                              *)
(***************************************************************************)

LEMMA WorkHasClass ==
    ASSUME Inv, pc # "idle"
    PROVE  cur \in VGs
BY DEF Inv, TypeOK

\* What one step does to the members of a volume group that DeleteVG does not
\* remove: only vgreduce takes one, which is not among those to keep.
LEMMA MemberKept ==
    ASSUME StorageInv, [Next]_vars, NEW d \in Devices, disk[d] \in VGs,
           disk'[d] # disk[d]
    PROVE  \/ DeleteVG /\ disk[d] = cur /\ ~lv[cur]
           \/ ReduceVG(d) /\ disk[d] = cur /\ d \notin Remaining /\ pc = "reduce"
<1>1. disk'[d] = Orphan /\ Inv /\ NoOptionalWipe
  BY MemberStep DEF StorageInv
<1>2. DiskActions
  BY DiskStep
<1>3. ASSUME NEW e \in Devices, ReduceVG(e)
      PROVE  ReduceVG(d) /\ disk[d] = cur /\ d \notin Remaining /\ pc = "reduce"
  <2>1. e = d /\ pc = "reduce" /\ d \in todo /\ disk[d] = cur
    BY <1>3 DEF ReduceVG, StorageInv, Inv, TypeOK
  <2> QED
    BY <1>3, <2>1 DEF StorageInv, ListFits
<1>4. CASE DeleteVG
  BY <1>4 DEF DeleteVG, RefusesDeleteVG
<1>5. CASE AddDevicesToVG
  BY <1>1, <1>5 DEF AddDevicesToVG, Inv, WorkFits
<1>6. CASE DeletePVs
  BY <1>1, <1>6, NoVGContents DEF DeletePVs
<1>7. ASSUME NEW e \in Devices, WipeDevice(e) \/ RemovePV(e) PROVE FALSE
  <2>1. disk[e] \notin VGs
    BY <1>1, <1>7, WipedIsNoMember, NoVGContents DEF WipeDevice, RemovePV
  <2> QED
    BY <1>1, <1>7, <2>1 DEF WipeDevice, RemovePV, Inv, TypeOK
<1> QED
  BY <1>2, <1>3, <1>4, <1>5, <1>6, <1>7 DEF DiskActions

\* A volume group that has members keeps one, unless vgremove takes them all.
LEMMA NotEmptied ==
    ASSUME StorageInv, [Next]_vars, NEW v \in VGs, NEW d \in Devices, disk[d] = v,
           ~(DeleteVG /\ v = cur /\ ~lv[v])
    PROVE  \E e \in Devices : disk'[e] = v
<1>1. CASE disk'[d] = disk[d]
  BY <1>1
<1>2. CASE disk'[d] # disk[d]
  <2>1. ReduceVG(d) /\ cur = v /\ pc = "reduce"
    BY <1>2, MemberKept
  <2>2. PICK e \in Remaining : TRUE
    BY <2>1 DEF StorageInv, ListFits
  <2>3. e \in Devices /\ disk[e] = v
    BY <2>1, <2>2 DEF StorageInv, ListFits, Members
  <2>4. disk'[e] = disk[e]
    <3> SUFFICES ASSUME disk'[e] # disk[e] PROVE FALSE
      OBVIOUS
    <3>1. ~(DeleteVG /\ disk[e] = cur /\ ~lv[cur])
      BY <2>1, <2>3
    <3> QED
      BY <2>1, <2>2, <2>3, <3>1, MemberKept
  <2> QED
    BY <2>3, <2>4
<1> QED
  BY <1>1, <1>2

\* Devices join a volume group with vgcreate and vgextend only.
LEMMA NewMember ==
    ASSUME StorageInv, [Next]_vars, NEW v \in VGs, NEW d \in Devices, disk'[d] = v, disk[d] # v
    PROVE  AddDevicesToVG /\ cur = v
BY DiskStep, NoVGContents
DEF DiskActions, WipeDevice, ReduceVG, RemovePV, AddDevicesToVG, DeleteVG, DeletePVs,
    StorageInv, Inv, TypeOK

\* Volumes are only created in a volume group with, for a thin class, a pool.
LEMMA VolumesStep ==
    ASSUME StorageInv, [Next]_vars
    PROVE  VolumesFit'
<1> SUFFICES ASSUME NEW v \in VGs, lv'[v]
             PROVE  /\ \E d \in Devices : disk'[d] = v
                    /\ v \in Thin => pool'[v] # "none"
  BY DEF VolumesFit
<1>1. CASE lv[v]
  <2>1. PICK d \in Devices : disk[d] = v
    BY <1>1 DEF StorageInv, VolumesFit
  <2>2. v \in Thin => pool[v] # "none"
    BY <1>1 DEF StorageInv, VolumesFit
  <2>3. \E e \in Devices : disk'[e] = v
    BY <1>1, <2>1, NotEmptied
  <2>4. v \in Thin => pool'[v] # "none"
    BY <1>1, <2>2, PoolStep DEF StorageInv, Inv, AddThinPoolToVG, TypeOK
  <2> QED
    BY <2>3, <2>4
<1>2. CASE ~lv[v]
  <2>1. CreateLogicalVolume(v)
    BY <1>2, VolumeStep DEF CreateLogicalVolume, DeleteLogicalVolumes, StorageInv, Inv, TypeOK
  <2>2. VGExists(v) /\ (v \in Thin => pool[v] # "none") /\ UNCHANGED <<disk, pool>>
    BY <2>1 DEF CreateLogicalVolume
  <2>3. \E d \in Devices : disk[d] = v
    BY <2>2 DEF VGExists, ListPVs, Members
  <2> QED
    BY <2>2, <2>3
<1> QED
  BY <1>1, <1>2

-----------------------------------------------------------------------------
(***************************************************************************)
(* The devices the worker has in hand.                                     *)
(***************************************************************************)

ListSteps == {"wipe", "filter", "progress", "addDevices", "reduce"}

LEMMA ListElsewhere == pc' \notin ListSteps => ListFits'
BY DEF ListFits, ListSteps

\* Steps that leave the worker alone.
LEMMA ListFrame ==
    ASSUME StorageInv, UNCHANGED <<pc, cur, todo, listed, disk>>,
           pc # "idle" => cached'[cur] = cached[cur]
    PROVE  ListFits'
<1>1. Members(cur)' = Members(cur)
  BY DEF Members
<1>2. pc # "idle" => Remaining' = Remaining
  BY DEF Remaining, RemovedDevices, HasExplicitDevicePaths
<1> QED
  BY <1>1, <1>2 DEF StorageInv, ListFits

\* vgreduce runs only if enough devices remain.
LEMMA FilterList ==
    ASSUME StorageInv, FilterDevices, pc' \in ListSteps
    PROVE  ListFits'
<1>1. /\ UNCHANGED <<cached, disk, listed, cur>> /\ pc = "filter" /\ ~ReconcileFails(cur)
      /\ IF Available(cur) # {}
         THEN todo' = Available(cur) /\ pc' = "progress"
         ELSE /\ todo' = RemovedDevices(cur)
              /\ pc' = IF RemovedDevices(cur) # {} THEN "reduce" ELSE "validate"
  BY EndIsIdle DEF FilterDevices, Goto, ListSteps, apiVars, hostVars
<1>2. listed \subseteq Members(cur)
  BY <1>1 DEF StorageInv, ListFits
<1>3. Members(cur)' = Members(cur) /\ Remaining' = Remaining
  BY <1>1 DEF Members, Remaining, RemovedDevices, HasExplicitDevicePaths
<1>4. CASE pc' = "progress"
  BY <1>1, <1>2, <1>3, <1>4 DEF ListFits
<1>5. CASE pc' = "reduce"
  <2>1. Available(cur) = {} /\ RemovedDevices(cur) # {} /\ todo' = RemovedDevices(cur)
    BY <1>1, <1>5
  <2>2. ~RefusesRemoval(cur) /\ HasExplicitDevicePaths(cur)
    BY <1>1, <2>1 DEF ReconcileFails, RemovedDevices
  <2>3. ~(Cardinality(Remaining) < 1) /\ ValidRAIDDeviceCount(cur, Cardinality(Remaining))
    BY <2>1, <2>2 DEF RefusesRemoval, Remaining
  <2>4. Remaining # {}
    BY <2>3, FS_EmptySet
  <2>5. Remaining \subseteq Members(cur) /\ Remaining \cap RemovedDevices(cur) = {}
    BY <1>2 DEF Remaining
  <2>6. cur \in Raid => Cardinality(Remaining) >= MinDevices
    BY <2>3 DEF ValidRAIDDeviceCount
  <2> QED
    BY <1>1, <1>3, <1>5, <2>1, <2>4, <2>5, <2>6 DEF ListFits
<1> QED
  BY <1>1, <1>4, <1>5 DEF ListSteps

LEMMA WipeList ==
    ASSUME StorageInv, [Next]_vars, NEW d \in Devices, WipeDevice(d), pc' \in ListSteps
    PROVE  ListFits'
<1>1. UNCHANGED <<cur, listed, pc>> /\ pc = "wipe"
  BY EndIsIdle DEF WipeDevice, Goto, ListSteps
<1>2. listed \subseteq Members(cur) /\ cur \in VGs
  BY <1>1 DEF StorageInv, ListFits, Inv, TypeOK
<1>3. disk[d] \notin VGs
  BY <1>1, WipedIsNoMember DEF StorageInv, WipeDevice
<1>4. \A e \in Members(cur) : disk'[e] = cur
  BY <1>2, <1>3 DEF WipeDevice, Members, StorageInv, Inv, TypeOK
<1> QED
  BY <1>1, <1>2, <1>4 DEF ListFits, Members

LEMMA ReduceList ==
    ASSUME StorageInv, [Next]_vars, NEW d \in Devices, ReduceVG(d) \/ RemovePV(d),
           pc' \in ListSteps
    PROVE  ListFits'
<1>1. UNCHANGED <<cur, listed, pc, cached>> /\ pc = "reduce" /\ todo' \subseteq todo
  BY EndIsIdle DEF ReduceVG, RemovePV, GiveUp, Goto, ListSteps, localVars, apiVars
<1>2. cur \in VGs /\ Remaining' = Remaining
  BY <1>1 DEF Remaining, RemovedDevices, HasExplicitDevicePaths, StorageInv, Inv, TypeOK
<1>3. \A e \in Remaining : disk'[e] = cur
  <2> SUFFICES ASSUME NEW e \in Remaining PROVE disk'[e] = cur
    OBVIOUS
  <2>1. e \in Devices /\ disk[e] = cur
    BY <1>1 DEF StorageInv, ListFits, Members
  <2>2. ~DeleteVG
    BY <1>1 DEF DeleteVG
  <2> QED
    BY <1>2, <2>1, <2>2, MemberKept
<1>4. Remaining \subseteq Members(cur)'
  BY <1>1, <1>3 DEF StorageInv, ListFits, Members
<1> QED
  BY <1>1, <1>2, <1>4 DEF StorageInv, ListFits

LEMMA ListStep ==
    ASSUME StorageInv, [Next]_vars
    PROVE  ListFits'
<1>1. CASE pc' \notin ListSteps
  BY <1>1, ListElsewhere
<1>2. CASE pc' \in ListSteps
  <2>1. CASE UNCHANGED vars \/ AddWatch \/ CancelContext \/ Operator \/ Environment
    <3>1. UNCHANGED <<pc, cur, todo, listed, disk>>
      BY <2>1 DEF vars, hostVars, workVars, localVars, AddWatch, CancelContext, Operator,
         CreateNodeStatus, CreateVolumeGroup, EditVolumeGroup, DeleteVolumeGroup, OtherNodesDone,
         SetStorageClass, operatorUnchanged, Environment, RelabelNode, SyncCache, EnqueueAgain,
         CreateLogicalVolume, DeleteLogicalVolumes, DetachDevice, AttachDevice
    <3>2. cached'[cur] = cached[cur] \/ pc = "idle"
      BY <2>1, WorkHasClass DEF vars, apiVars, AddWatch, CancelContext, Operator,
         CreateNodeStatus, CreateVolumeGroup, EditVolumeGroup, DeleteVolumeGroup, OtherNodesDone,
         SetStorageClass, operatorUnchanged, Environment, RelabelNode, SyncCache, EnqueueAgain,
         CreateLogicalVolume, DeleteLogicalVolumes, DetachDevice, AttachDevice,
         StorageInv, Inv, TypeOK
    <3> QED
      BY <3>1, <3>2, ListFrame
  <2>2. CASE ExitAndRestart \/ Crash \/ Reboot
    BY <1>2, <2>2 DEF ExitAndRestart, Crash, Reboot, Boot, ListSteps
  <2>3. CASE \E v \in VGs : StartReconcile(v)
    BY <1>2, <2>3 DEF StartReconcile, ListSteps
  <2>4. CASE Inspect
    <3>1. UNCHANGED <<cur, disk>> /\ listed' = ListPVs(cur) /\ pc' \in {"wipe", "filter"}
      BY <1>2, <2>4, EndIsIdle DEF Inspect, Goto, ListSteps, hostVars
    <3>2. Members(cur)' = Members(cur) /\ ListPVs(cur) \subseteq Members(cur)
      BY <3>1 DEF Members, ListPVs
    <3> QED
      BY <3>1, <3>2 DEF ListFits
  <2>5. CASE WipeDone
    <3>1. UNCHANGED <<cur, disk, listed>> /\ pc = "wipe" /\ pc' = "filter"
      BY <1>2, <2>5 DEF WipeDone, Goto, ListSteps, hostVars, localVars
    <3> QED
      BY <3>1 DEF StorageInv, ListFits, Members
  <2>6. CASE SetProgressing
    <3>1. UNCHANGED <<cur, disk, listed>> /\ pc = "progress" /\ pc' = "addDevices"
      BY <1>2, <2>6, EndIsIdle DEF SetProgressing, Goto, ListSteps, hostVars, localVars
    <3> QED
      BY <3>1 DEF StorageInv, ListFits, Members
  <2>7. CASE FilterDevices \/ \E d \in Devices : WipeDevice(d) \/ ReduceVG(d) \/ RemovePV(d)
    BY <1>2, <2>7, FilterList, WipeList, ReduceList
  <2>8. CASE \/ AddFinalizer \/ Annotate \/ RelistVGs \/ AddDevicesToVG \/ AddThinPoolToVG
             \/ ValidateLVs \/ ApplyLVMDConfig \/ SetReady
    BY <1>2, <2>8 DEF AddFinalizer, Annotate, UpdateObject, RelistVGs, AddDevicesToVG,
       AddThinPoolToVG, ValidateLVs, ApplyLVMDConfig, SetReady, GiveUp, Goto, Done, Requeue,
       Finish, ListSteps
  <2>9. CASE DeletePath
    BY <1>2, <2>9 DEF DeletePath, LoadConf, CheckRetain, DeletePool, DeleteVG, DeletePVs,
       DeleteConf, RemoveVolumeGroupStatus, RemoveFinalizer, UpdateObject, GiveUp, Goto, Done,
       Requeue, Finish, ListSteps
  <2> QED
    BY <2>1, <2>2, <2>3, <2>4, <2>5, <2>6, <2>7, <2>8, <2>9
    DEF Next, Worker, CreatePath, Process
<1> QED
  BY <1>1, <1>2

-----------------------------------------------------------------------------
(***************************************************************************)
(* RAID volume groups stay complete.                                       *)
(***************************************************************************)

LEMMA EnoughAndMore ==
    ASSUME NEW S, NEW T, S \subseteq T, T \subseteq Devices, Cardinality(S) >= MinDevices
    PROVE  Cardinality(T) >= MinDevices
<1>1. IsFiniteSet(T) /\ IsFiniteSet(S)
  BY VGManagerAssumption, FS_Subset
<1>2. Cardinality(S) \in Nat /\ Cardinality(T) \in Nat /\ Cardinality(S) <= Cardinality(T)
  BY <1>1, FS_Subset, FS_CardinalityType
<1> QED
  BY <1>2, VGManagerAssumption

LEMMA RaidStep ==
    ASSUME StorageInv, [Next]_vars
    PROVE  RaidHasMinimum'
<1> SUFFICES ASSUME NEW v \in Raid, Members(v)' # {}
             PROVE  Cardinality(Members(v)') >= MinDevices
  BY DEF RaidHasMinimum
<1>1. v \in VGs /\ Members(v) \subseteq Devices /\ Members(v)' \subseteq Devices
  BY VGManagerAssumption DEF Members
<1>2. CASE Members(v) # {} /\ Members(v) \subseteq Members(v)'
  <2>1. Cardinality(Members(v)) >= MinDevices
    BY <1>2 DEF StorageInv, RaidHasMinimum
  <2> QED
    BY <1>1, <1>2, <2>1, EnoughAndMore
<1>3. CASE Members(v) = {}
  <2>1. PICK d \in Devices : disk'[d] = v /\ disk[d] # v
    BY <1>3 DEF Members
  <2>2. AddDevicesToVG /\ cur = v
    BY <1>1, <2>1, NewMember
  <2>3. /\ ValidRAIDDeviceCount(cur, Cardinality(todo \cup listed)) /\ pc = "addDevices"
        /\ disk' = [e \in Devices |-> IF e \in todo THEN cur ELSE disk[e]]
    BY <2>1, <2>2 DEF AddDevicesToVG
  <2>4. listed \subseteq Members(cur) /\ todo \subseteq Devices
    BY <2>3 DEF StorageInv, ListFits, Inv, TypeOK
  <2>5. todo \cup listed \subseteq Members(v)'
    BY <2>2, <2>3, <2>4 DEF Members
  <2>6. Cardinality(todo \cup listed) >= MinDevices
    BY <2>2, <2>3 DEF ValidRAIDDeviceCount
  <2> QED
    BY <1>1, <2>5, <2>6, EnoughAndMore
<1>4. CASE ~(Members(v) \subseteq Members(v)')
  <2>1. PICK d \in Devices : disk[d] = v /\ disk'[d] # v
    BY <1>4 DEF Members
  <2>2. CASE DeleteVG
    <3>1. \A e \in Devices : disk'[e] # v
      BY <1>1, <2>1, <2>2, MemberKept, NoVGContents DEF DeleteVG, ReduceVG
    <3> QED
      BY <3>1 DEF Members
  <2>3. CASE ~DeleteVG
    <3>1. ReduceVG(d) /\ cur = v /\ pc = "reduce"
      BY <1>1, <2>1, <2>3, MemberKept
    <3>2. \A e \in Remaining : e \in Devices /\ disk[e] = v
      BY <3>1 DEF StorageInv, ListFits, Members
    <3>3. Remaining \subseteq Members(v)'
      BY <1>1, <2>3, <3>2, MemberKept DEF Members
    <3>4. Cardinality(Remaining) >= MinDevices
      BY <3>1 DEF StorageInv, ListFits
    <3> QED
      BY <1>1, <3>3, <3>4, EnoughAndMore
  <2> QED
    BY <2>2, <2>3
<1> QED
  BY <1>2, <1>3, <1>4

-----------------------------------------------------------------------------
(***************************************************************************)
(* The objects.                                                            *)
(***************************************************************************)

ObjectActions ==
    \/ AddFinalizer \/ Annotate \/ RemoveFinalizer
    \/ ExitAndRestart \/ Crash \/ Reboot
    \/ \E v \in VGs : \/ CreateVolumeGroup(v) \/ EditVolumeGroup(v) \/ DeleteVolumeGroup(v)
                      \/ OtherNodesDone(v) \/ SyncCache(v)

LEMMA ObjectStep ==
    ASSUME [Next]_vars
    PROVE  UNCHANGED <<api, cached>> \/ ObjectActions
<1>1. CASE Process \/ Operator \/ Environment \/ UNCHANGED vars
  BY <1>1 DEF ObjectActions, vars, apiVars, Process, AddWatch, CancelContext, Operator,
     CreateNodeStatus, SetStorageClass, operatorUnchanged, Environment, RelabelNode,
     EnqueueAgain, CreateLogicalVolume, DeleteLogicalVolumes, DetachDevice, AttachDevice
<1>2. CASE (\E v \in VGs : StartReconcile(v)) \/ CreatePath
  BY <1>2 DEF ObjectActions, CreatePath, apiVars, StartReconcile, Inspect, WipeDone, WipeDevice,
     FilterDevices, ReduceVG, RemovePV, RelistVGs, SetProgressing, AddDevicesToVG,
     AddThinPoolToVG, ValidateLVs, ApplyLVMDConfig, SetReady, GiveUp
<1>3. CASE DeletePath
  BY <1>3 DEF ObjectActions, DeletePath, apiVars, LoadConf, CheckRetain, DeletePool, DeleteVG,
     DeletePVs, DeleteConf, RemoveVolumeGroupStatus, GiveUp
<1> QED
  BY <1>1, <1>2, <1>3 DEF Next, Worker

\* The object o in place of the one of class v, and what it is for NodeStorage.
Becomes(v, o) == api' = [api EXCEPT ![v] = o]
PhaseOf(o) == IF ~o.alive THEN "none" ELSE IF o.deleting THEN "deleting" ELSE "live"

Same(o, p) == (o.alive <=> p.alive) /\ (o.deleting <=> p.deleting) /\ (o.fin <=> p.fin)

\* All that happens to the object of a class.
ObjectChange(v, o) ==
    /\ Becomes(v, o)
    /\ \/ Same(o, api[v])
       \/ ~api[v].alive /\ o.alive /\ ~o.deleting /\ ~o.fin
       \/ api[v].alive /\ ~api[v].deleting /\ o.alive /\ ~o.deleting /\ o.fin /\ ~cached[v].deleting
       \/ api[v].alive /\ ~api[v].deleting /\ o.alive /\ o.deleting /\ (o.fin <=> api[v].fin)
       \/ api[v].alive /\ ~api[v].fin /\ ~o.alive /\ ~o.deleting /\ ~o.fin
       \/ /\ api[v].alive /\ api[v].deleting /\ api[v].fin /\ ~o.fin /\ (o.deleting <=> o.alive)
          /\ \A d \in Devices : disk[d] # v

LEMMA UpdateChanges ==
    ASSUME StorageInv, NEW objs, UpdateObject(objs), pc # "idle"
    PROVE  /\ UNCHANGED <<cached, disk, lv>> /\ cur \in VGs /\ cached[cur] \in Objects
           /\ \/ UNCHANGED api
              \/ cached[cur] = api[cur] /\ \E o \in objs : Becomes(cur, o)
BY UpdateCases, WorkHasClass DEF UpdateObject, hostVars, Becomes, StorageInv, Inv, TypeOK

LEMMA UpdateToOne ==
    ASSUME StorageInv, NEW o, UpdateObject({o}), pc # "idle"
    PROVE  /\ UNCHANGED <<cached, disk, lv>> /\ cur \in VGs /\ cached[cur] \in Objects
           /\ UNCHANGED api \/ (cached[cur] = api[cur] /\ Becomes(cur, o))
<1> DEFINE objs == {o}
<1>1. UpdateObject(objs) /\ \A p \in objs : p = o
  OBVIOUS
<1> HIDE DEF objs
<1>2. /\ UNCHANGED <<cached, disk, lv>> /\ cur \in VGs /\ cached[cur] \in Objects
      /\ UNCHANGED api \/ (cached[cur] = api[cur] /\ \E p \in objs : Becomes(cur, p))
  BY <1>1, UpdateChanges
<1> QED
  BY <1>1, <1>2

LEMMA AddFinalizerChanges ==
    ASSUME StorageInv, AddFinalizer
    PROVE  UNCHANGED api \/ \E v \in VGs, o \in Objects : ObjectChange(v, o)
<1> DEFINE o == [cached[cur] EXCEPT !.fin = TRUE]
<1>0. UpdateObject({o}) /\ pc # "idle"
  BY DEF AddFinalizer
<1> HIDE DEF o
<1>1. /\ UNCHANGED <<cached, disk, lv>> /\ cur \in VGs /\ cached[cur] \in Objects
      /\ UNCHANGED api \/ (cached[cur] = api[cur] /\ Becomes(cur, o))
  BY <1>0, UpdateToOne
<1>2. cached[cur].alive /\ ~cached[cur].deleting
  BY DEF StorageInv, Inv, AddFinalizer, WorkFits, CreateSteps
<1>3. /\ o \in Objects /\ o.fin /\ o.alive = cached[cur].alive
      /\ o.deleting = cached[cur].deleting
  BY <1>1 DEF Objects, o
<1> QED
  BY <1>1, <1>2, <1>3 DEF ObjectChange

LEMMA AnnotateChanges ==
    ASSUME StorageInv, Annotate
    PROVE  UNCHANGED api \/ \E v \in VGs, o \in Objects : ObjectChange(v, o)
<1> DEFINE o == [cached[cur] EXCEPT !.wiped = TRUE]
<1>0. UpdateObject({o}) /\ pc # "idle"
  BY DEF Annotate
<1> HIDE DEF o
<1>1. /\ UNCHANGED <<cached, disk, lv>> /\ cur \in VGs /\ cached[cur] \in Objects
      /\ UNCHANGED api \/ (cached[cur] = api[cur] /\ Becomes(cur, o))
  BY <1>0, UpdateToOne
<1>2. o \in Objects /\ Same(o, cached[cur])
  BY <1>1 DEF Objects, Same, o
<1> QED
  BY <1>1, <1>2 DEF ObjectChange

LEMMA RemoveFinalizerChanges ==
    ASSUME StorageInv, RemoveFinalizer
    PROVE  UNCHANGED api \/ \E v \in VGs, o \in Objects : ObjectChange(v, o)
<1> DEFINE kept == [cached[cur] EXCEPT !.fin = FALSE]
<1>1. CASE ~cached[cur].fin
  BY <1>1 DEF RemoveFinalizer, apiVars
<1>2. CASE cached[cur].fin
  <2> DEFINE objs == {NoObject, kept}
  <2>a. UpdateObject(objs) /\ pc # "idle"
    BY <1>2 DEF RemoveFinalizer
  <2> HIDE DEF kept, objs
  <2>b. /\ cur \in VGs /\ cached[cur] \in Objects
        /\ \/ UNCHANGED api
           \/ cached[cur] = api[cur] /\ \E o \in objs : Becomes(cur, o)
    BY <2>a, UpdateChanges
  <2>1. /\ cur \in VGs /\ cached[cur] \in Objects
        /\ \/ UNCHANGED api
           \/ cached[cur] = api[cur] /\ \E o \in {NoObject, kept} : Becomes(cur, o)
    BY <2>b DEF objs
  <2>2. cached[cur].deleting /\ \A d \in Devices : disk[d] # cur
    BY DEF StorageInv, Inv, WorkFits, DeleteSteps, CleanedSteps, RemoveFinalizer
  <2>3. NoObject \in Objects /\ ~NoObject.alive /\ ~NoObject.deleting /\ ~NoObject.fin
    BY VGManagerAssumption, MaxRatioAssumption DEF NoObject, Objects, Ratios
  <2>4. /\ kept \in Objects /\ ~kept.fin /\ kept.alive = cached[cur].alive
        /\ kept.deleting = cached[cur].deleting
    BY <2>1 DEF Objects, kept
  <2>5. cached[cur] = api[cur] => api[cur].alive
    BY <2>1, <2>2 DEF StorageInv, ObjectsFit
  <2> QED
    BY <1>2, <2>1, <2>2, <2>3, <2>4, <2>5 DEF ObjectChange
<1> QED
  BY <1>1, <1>2

LEMMA OperatorChanges ==
    ASSUME StorageInv, NEW v \in VGs,
           \/ CreateVolumeGroup(v) \/ EditVolumeGroup(v)
           \/ DeleteVolumeGroup(v) \/ OtherNodesDone(v)
    PROVE  \E o \in Objects : ObjectChange(v, o)
<1>1. api[v] \in Objects /\ api' \in [VGs -> Objects]
  BY TypeStep DEF StorageInv, Inv, TypeOK, Next, Operator
<1>2. ~NoObject.alive /\ ~NoObject.deleting /\ ~NoObject.fin
  BY DEF NoObject
<1>3. \A o : Becomes(v, o) => o \in Objects
  BY <1>1 DEF Becomes, StorageInv, Inv, TypeOK
<1>4. CASE CreateVolumeGroup(v)
  <2>1. PICK p \in ValidPaths(v), r \in Ratios :
          Becomes(v, [NoObject EXCEPT !.alive = TRUE, !.paths = p, !.ratio = r])
    BY <1>4 DEF CreateVolumeGroup, Becomes
  <2> DEFINE o == [NoObject EXCEPT !.alive = TRUE, !.paths = p, !.ratio = r]
  <2>2. o.alive /\ ~o.deleting /\ ~o.fin
    BY DEF NoObject
  <2>3. o \in Objects
    BY <1>3, <2>1
  <2> HIDE DEF o
  <2>4. ObjectChange(v, o)
    BY <1>4, <2>1, <2>2 DEF ObjectChange, CreateVolumeGroup, o
  <2> QED
    BY <2>3, <2>4
<1>5. CASE EditVolumeGroup(v)
  <2>1. PICK p \in ValidPaths(v), r \in Ratios : api' = [api EXCEPT ![v].paths = p, ![v].ratio = r]
    BY <1>5 DEF EditVolumeGroup
  <2> DEFINE o == [api[v] EXCEPT !.paths = p, !.ratio = r]
  <2>2. Becomes(v, o)
    BY <2>1 DEF Becomes, StorageInv, Inv, TypeOK
  <2>3. Same(o, api[v])
    BY <1>1 DEF Objects, Same
  <2> HIDE DEF o
  <2> QED
    BY <1>3, <2>2, <2>3 DEF ObjectChange
<1>6. CASE DeleteVolumeGroup(v)
  <2> DEFINE marked == [api[v] EXCEPT !.deleting = TRUE]
  <2>1. Becomes(v, marked) \/ (~api[v].fin /\ Becomes(v, NoObject))
    BY <1>6 DEF DeleteVolumeGroup, Becomes
  <2>2. marked.alive = api[v].alive /\ marked.fin = api[v].fin /\ marked.deleting
    BY <1>1 DEF Objects
  <2>3. api[v].alive /\ ~api[v].deleting
    BY <1>6 DEF DeleteVolumeGroup
  <2> HIDE DEF marked
  <2> QED
    BY <1>2, <1>3, <2>1, <2>2, <2>3 DEF ObjectChange
<1>7. CASE OtherNodesDone(v)
  <2>1. Becomes(v, NoObject) /\ api[v].alive /\ ~api[v].fin
    BY <1>7 DEF OtherNodesDone, Becomes, StorageInv, ObjectsFit
  <2> QED
    BY <1>2, <1>3, <2>1 DEF ObjectChange
<1> QED
  BY <1>4, <1>5, <1>6, <1>7

VolumeChange(v) ==
    /\ Members(v) # {}
    /\ lv' = [lv EXCEPT ![v] = TRUE] \/ lv' = [lv EXCEPT ![v] = FALSE]

\* A step changes objects or devices or volumes or what the cache holds.
LEMMA OneKindOfChange ==
    ASSUME StorageInv, [Next]_vars
    PROVE  \/ UNCHANGED <<api, disk, lv>> /\ \A v \in VGs : cached'[v] \in {cached[v], api[v]}
           \/ UNCHANGED <<cached, disk, lv>> /\ \E v \in VGs, o \in Objects : ObjectChange(v, o)
           \/ UNCHANGED <<api, cached, disk>> /\ \E v \in VGs : VolumeChange(v)
           \/ UNCHANGED <<api, cached, lv>> /\ DiskActions
<1>1. CASE DiskActions
  <2>1. UNCHANGED <<api, cached, lv>>
    BY <1>1 DEF DiskActions, apiVars, WipeDevice, ReduceVG, RemovePV, AddDevicesToVG, DeleteVG,
       DeletePVs, GiveUp
  <2> QED
    BY <1>1, <2>1
<1>2. ASSUME NEW v \in VGs, CreateLogicalVolume(v) \/ DeleteLogicalVolumes(v)
      PROVE  UNCHANGED <<api, cached, disk>> /\ VolumeChange(v)
  <2>1. CASE CreateLogicalVolume(v)
    BY <2>1 DEF CreateLogicalVolume, apiVars, VGExists, ListPVs, VolumeChange
  <2>2. CASE DeleteLogicalVolumes(v)
    <3>1. Members(v) # {}
      BY <2>2 DEF DeleteLogicalVolumes, StorageInv, VolumesFit, Members
    <3> QED
      BY <2>2, <3>1 DEF DeleteLogicalVolumes, apiVars, VolumeChange
  <2> QED
    BY <1>2, <2>1, <2>2
<1>3. CASE UNCHANGED <<disk, lv>>
  <2>1. CASE UNCHANGED <<api, cached>>
    BY <1>3, <2>1
  <2>2. CASE AddFinalizer \/ Annotate \/ RemoveFinalizer
    <3>1. UNCHANGED cached
      BY <2>2 DEF AddFinalizer, Annotate, RemoveFinalizer, UpdateObject, apiVars
    <3> QED
      BY <1>3, <2>2, <3>1, AddFinalizerChanges, AnnotateChanges, RemoveFinalizerChanges
  <2>3. ASSUME NEW v \in VGs, \/ CreateVolumeGroup(v) \/ EditVolumeGroup(v)
                               \/ DeleteVolumeGroup(v) \/ OtherNodesDone(v)
        PROVE  UNCHANGED cached /\ \E o \in Objects : ObjectChange(v, o)
    <3>1. operatorUnchanged
      <4>1. CreateVolumeGroup(v) => operatorUnchanged
        BY DEF CreateVolumeGroup
      <4>2. EditVolumeGroup(v) => operatorUnchanged
        BY DEF EditVolumeGroup
      <4>3. DeleteVolumeGroup(v) => operatorUnchanged
        BY DEF DeleteVolumeGroup
      <4>4. OtherNodesDone(v) => operatorUnchanged
        BY DEF OtherNodesDone
      <4> QED
        BY <2>3, <4>1, <4>2, <4>3, <4>4
    <3>2. UNCHANGED cached
      BY <3>1 DEF operatorUnchanged
    <3> QED
      BY <2>3, <3>2, OperatorChanges
  <2>4. CASE ExitAndRestart \/ Crash \/ Reboot
    <3>1. UNCHANGED api /\ cached' = api
      BY <2>4 DEF ExitAndRestart, Crash, Reboot, Boot
    <3> QED
      BY <1>3, <3>1
  <2>5. ASSUME NEW v \in VGs, SyncCache(v)
        PROVE  UNCHANGED api /\ \A u \in VGs : cached'[u] \in {cached[u], api[u]}
    BY <2>5 DEF SyncCache, StorageInv, Inv, TypeOK
  <2> QED
    BY <1>3, <2>1, <2>2, <2>3, <2>4, <2>5, ObjectStep DEF ObjectActions
<1> QED
  BY <1>1, <1>2, <1>3, DiskStep, VolumeStep

LEMMA ObjectsStep ==
    ASSUME StorageInv, [Next]_vars
    PROVE  ObjectsFit'
<1>1. CASE UNCHANGED api /\ \A v \in VGs : cached'[v] \in {cached[v], api[v]}
  BY <1>1 DEF StorageInv, ObjectsFit
<1>2. ASSUME NEW v \in VGs, NEW o \in Objects, ObjectChange(v, o), UNCHANGED cached
      PROVE  ObjectsFit'
  <2>1. \A u \in VGs : api'[u] = IF u = v THEN o ELSE api[u]
    BY <1>2 DEF ObjectChange, Becomes, StorageInv, Inv, TypeOK
  <2>2. (o.deleting => o.alive) /\ (o.fin /\ cached[v].deleting => o.deleting)
    BY <1>2 DEF ObjectChange, Same, StorageInv, ObjectsFit
  <2> QED
    BY <1>2, <2>1, <2>2 DEF StorageInv, ObjectsFit
<1> QED
  BY <1>1, <1>2, OneKindOfChange

-----------------------------------------------------------------------------
(***************************************************************************)
(* The inductive invariant.                                                *)
(***************************************************************************)

LEMMA StorageInit ==
    ASSUME NoOptionalWipe, Init
    PROVE  StorageInv
<1>1. Inv
  BY GuardInit
<1>2. ObjectsFit /\ VolumesFit /\ ListFits
  BY DEF Init, ObjectsFit, VolumesFit, ListFits, NoObject
<1>3. \A v \in VGs : Members(v) = {}
  <2>1. disk = [d \in Devices |-> IF d \in Dirty THEN Foreign ELSE Blank]
    BY DEF Init
  <2> QED
    BY <2>1, NoVGContents DEF Members
<1>4. RaidHasMinimum
  BY <1>3, VGManagerAssumption DEF RaidHasMinimum
<1> QED
  BY <1>1, <1>2, <1>4 DEF StorageInv

LEMMA StorageStep ==
    ASSUME StorageInv, [Next]_vars
    PROVE  StorageInv'
<1>1. NoHiddenGroup /\ NoOptionalWipe'
  BY DEF StorageInv, NoHiddenGroup, NoOptionalWipe
<1>2. Inv'
  BY <1>1, GuardStep DEF StorageInv
<1> QED
  BY <1>1, <1>2, ObjectsStep, VolumesStep, ListStep, RaidStep DEF StorageInv

-----------------------------------------------------------------------------
(***************************************************************************)
(* Every step is one of NodeStorage, or none.                              *)
(***************************************************************************)

\* Volume groups come with vgcreate and go with vgremove.
LEMMA BuiltStep ==
    ASSUME StorageInv, [Next]_vars, NEW v \in VGs
    PROVE  /\ Members(v) # {} /\ Members(v)' = {} => DeleteVG /\ v = cur /\ ~lv[v]
           /\ Members(v) = {} /\ Members(v)' # {} => AddDevicesToVG /\ v = cur
<1>1. ASSUME Members(v) # {}, Members(v)' = {}
      PROVE  DeleteVG /\ v = cur /\ ~lv[v]
  <2>1. PICK d \in Devices : disk[d] = v
    BY <1>1 DEF Members
  <2>2. ~\E e \in Devices : disk'[e] = v
    BY <1>1 DEF Members
  <2> QED
    BY <2>1, <2>2, NotEmptied
<1>2. ASSUME Members(v) = {}, Members(v)' # {}
      PROVE  AddDevicesToVG /\ v = cur
  <2>1. PICK d \in Devices : disk'[d] = v /\ disk[d] # v
    BY <1>2 DEF Members
  <2> QED
    BY <2>1, NewMember
<1> QED
  BY <1>1, <1>2

Built == {v \in VGs : Members(v) # {}}

LEMMA DiskRefines ==
    ASSUME StorageInv, [Next]_vars, UNCHANGED <<api, lv>>
    PROVE  UNCHANGED Storage!vars \/ Storage!Next
<1> DEFINE used == {v \in VGs : lv[v]}
           held == {v \in VGs : api[v].fin}
<1>0. UNCHANGED <<used, held>> /\ [v \in VGs |-> ObjectPhase(v)]' = [v \in VGs |-> ObjectPhase(v)]
  BY DEF ObjectPhase
<1>1. CASE Built' = Built
  BY <1>0, <1>1 DEF Storage!vars, Built
<1>2. ASSUME NEW v \in VGs, v \in Built, v \notin Built' PROVE Storage!Next
  <2>1. DeleteVG /\ v = cur /\ ~lv[v]
    BY <1>2, BuiltStep DEF Built
  <2>2. Built' = Built \ {v}
    BY <1>2, <2>1, BuiltStep DEF Built, DeleteVG, AddDevicesToVG
  <2>3. api[v].deleting /\ api[v].alive
    BY <2>1 DEF StorageInv, Inv, WorkFits, DeleteSteps, HeldSteps, ObjectsFit, DeleteVG
  <2>4. Storage!Tear(v)
    BY <1>0, <1>2, <2>1, <2>2, <2>3 DEF Storage!Tear, Built, ObjectPhase
  <2> QED
    BY <2>4 DEF Storage!Next
<1>3. ASSUME NEW v \in VGs, v \notin Built, v \in Built' PROVE Storage!Next
  <2>1. AddDevicesToVG /\ v = cur
    BY <1>3, BuiltStep DEF Built
  <2>2. ~DeleteVG
    BY <2>1 DEF DeleteVG, AddDevicesToVG
  <2>3. Built' = Built \cup {v}
    BY <1>3, <2>1, <2>2, BuiltStep DEF Built
  <2>4. api[v].fin
    BY <2>1, WorkIsGuarded DEF StorageInv, CreateSteps, AddDevicesToVG
  <2>5. Storage!Build(v)
    BY <1>0, <1>3, <2>3, <2>4 DEF Storage!Build, Built
  <2> QED
    BY <2>5 DEF Storage!Next
<1>4. Built \subseteq VGs /\ Built' \subseteq VGs
  BY DEF Built
<1> QED
  BY <1>1, <1>2, <1>3, <1>4

LEMMA UseRefines ==
    ASSUME NEW v \in VGs, UNCHANGED <<api, disk>>, Members(v) # {},
           \/ \A u \in VGs : lv'[u] <=> u = v \/ lv[u]
           \/ \A u \in VGs : lv'[u] <=> u # v /\ lv[u]
    PROVE  Storage!Next
<1> DEFINE used == {u \in VGs : lv[u]}
<1>1. used' \in {used \cup {v}, used \ {v}}
  OBVIOUS
<1>2. \A u \in VGs : Members(u)' = Members(u) /\ ObjectPhase(u)' = ObjectPhase(u)
  BY DEF Members, ObjectPhase
<1>3. Storage!Use(v)
  BY <1>1, <1>2 DEF Storage!Use
<1> QED
  BY <1>3 DEF Storage!Next

LEMMA VolumesRefine ==
    ASSUME StorageInv, NEW v \in VGs, UNCHANGED <<api, disk>>, VolumeChange(v)
    PROVE  Storage!Next
<1>1. CASE lv' = [lv EXCEPT ![v] = TRUE]
  <2>1. \A u \in VGs : lv'[u] <=> u = v \/ lv[u]
    BY <1>1 DEF StorageInv, Inv, TypeOK
  <2> QED
    BY <2>1, UseRefines DEF VolumeChange
<1>2. CASE lv' = [lv EXCEPT ![v] = FALSE]
  <2>1. \A u \in VGs : lv'[u] <=> u # v /\ lv[u]
    BY <1>2 DEF StorageInv, Inv, TypeOK
  <2> QED
    BY <2>1, UseRefines DEF VolumeChange
<1> QED
  BY <1>1, <1>2 DEF VolumeChange

LEMMA PointwiseExcept ==
    ASSUME NEW S, NEW f, f = [u \in S |-> f[u]], NEW v \in S, NEW x
    PROVE  [u \in S |-> IF u = v THEN x ELSE f[u]] = [f EXCEPT ![v] = x]
OBVIOUS

LEMMA ObjectsRefine ==
    ASSUME StorageInv, NEW v \in VGs, NEW o \in Objects, UNCHANGED <<disk, lv>>, ObjectChange(v, o)
    PROVE  UNCHANGED Storage!vars \/ Storage!Next
<1> DEFINE object == [u \in VGs |-> ObjectPhase(u)]
           held == {u \in VGs : api[u].fin}
           built == {u \in VGs : Members(u) # {}}
           used == {u \in VGs : lv[u]}
<1>1. UNCHANGED <<built, used>>
  BY DEF Members
<1>2. \A u \in VGs : api'[u] = IF u = v THEN o ELSE api[u]
  BY DEF ObjectChange, Becomes, StorageInv, Inv, TypeOK
<1>3. object' = [object EXCEPT ![v] = PhaseOf(o)]
  <2>1. \A u \in VGs : ObjectPhase(u)' = IF u = v THEN PhaseOf(o) ELSE ObjectPhase(u)
    BY <1>2 DEF ObjectPhase, PhaseOf
  <2>2. object' = [u \in VGs |-> IF u = v THEN PhaseOf(o) ELSE ObjectPhase(u)]
    BY <2>1
  <2>3. object = [u \in VGs |-> object[u]] /\ \A u \in VGs : object[u] = ObjectPhase(u)
    OBVIOUS
  <2> HIDE DEF object
  <2>4. object' = [u \in VGs |-> IF u = v THEN PhaseOf(o) ELSE object[u]]
    BY <2>2, <2>3
  <2> QED
    BY <2>3, <2>4, PointwiseExcept
<1>4. IF o.fin THEN held' = held \cup {v} ELSE held' = held \ {v}
  BY <1>2
<1>5. object[v] = PhaseOf(api[v])
  BY DEF ObjectPhase, PhaseOf
<1>6. v \in held <=> api[v].fin
  OBVIOUS
<1>7. (v \in held => object[v] # "none") /\ (v \in built => v \in held)
  BY <1>5, <1>6 DEF PhaseOf, StorageInv, Inv, CacheFollows, HostVGGuarded, Members
<1>8. (v \in held => object[v] \in {"live", "deleting"}) /\ object \in [VGs -> {"none", "live", "deleting"}]
  BY <1>7 DEF ObjectPhase
<1>9. CASE Same(o, api[v])
  <2>1. held' = held
    BY <1>4, <1>6, <1>9 DEF Same
  <2>2. object' = object
    <3>1. PhaseOf(o) = PhaseOf(api[v])
      BY <1>9 DEF Same, PhaseOf
    <3> HIDE DEF object
    <3> QED
      BY <1>3, <1>5, <1>8, <3>1
  <2> QED
    BY <1>1, <2>1, <2>2 DEF Storage!vars
<1>10. CASE ~api[v].alive /\ o.alive /\ ~o.deleting /\ ~o.fin
  <2>1. object[v] = "none" /\ PhaseOf(o) = "live"
    BY <1>5, <1>10 DEF PhaseOf
  <2>2. held' = held
    BY <1>4, <1>7, <1>10, <2>1
  <2>3. Storage!Create(v)
    BY <1>1, <1>3, <2>1, <2>2 DEF Storage!Create
  <2> QED
    BY <2>3 DEF Storage!Next
<1>11. CASE api[v].alive /\ ~api[v].deleting /\ o.alive /\ ~o.deleting /\ o.fin
  <2>1. object[v] = "live" /\ PhaseOf(o) = "live"
    BY <1>5, <1>11 DEF PhaseOf
  <2>2. object' = object
    <3> HIDE DEF object
    <3> QED
      BY <1>3, <1>8, <2>1
  <2>3. CASE v \in held
    <3>1. held' = held
      BY <1>4, <1>11, <2>3
    <3> QED
      BY <1>1, <2>2, <3>1 DEF Storage!vars
  <2>4. CASE v \notin held
    <3>1. Storage!Hold(v)
      BY <1>1, <1>4, <1>11, <2>1, <2>2, <2>4 DEF Storage!Hold
    <3> QED
      BY <3>1 DEF Storage!Next
  <2> QED
    BY <2>3, <2>4
<1>12. CASE /\ api[v].alive /\ ~api[v].deleting
            /\ \/ o.alive /\ o.deleting /\ (o.fin <=> api[v].fin)
               \/ ~api[v].fin /\ ~o.alive /\ ~o.fin
  <2>1. object[v] = "live" /\ PhaseOf(o) \in {"deleting", "none"}
    BY <1>5, <1>12 DEF PhaseOf
  <2>2. (v \in held => PhaseOf(o) = "deleting") /\ held' = held
    BY <1>4, <1>6, <1>12 DEF PhaseOf
  <2>3. /\ object' \in [VGs -> {"none", "live", "deleting"}] /\ object'[v] = PhaseOf(o)
        /\ \A u \in VGs : u # v => object'[u] = object[u]
    <3> HIDE DEF object
    <3> QED
      BY <1>3, <1>8, <2>1
  <2>4. Storage!RequestDeletion({v})
    BY <1>1, <2>1, <2>2, <2>3 DEF Storage!RequestDeletion
  <2> QED
    BY <2>4 DEF Storage!Next
<1>13. CASE api[v].alive /\ api[v].deleting /\ ~api[v].fin /\ ~o.alive /\ ~o.fin
  <2>1. object[v] = "deleting" /\ PhaseOf(o) = "none"
    BY <1>5, <1>13 DEF PhaseOf
  <2>2. held' = held
    BY <1>4, <1>6, <1>13
  <2>3. Storage!Vanish(v)
    BY <1>1, <1>3, <1>6, <1>13, <2>1, <2>2 DEF Storage!Vanish
  <2> QED
    BY <2>3 DEF Storage!Next
<1>14. CASE /\ api[v].alive /\ api[v].deleting /\ api[v].fin /\ ~o.fin /\ (o.deleting <=> o.alive)
            /\ \A d \in Devices : disk[d] # v
  <2>1. object[v] = "deleting" /\ PhaseOf(o) \in {"deleting", "none"}
    BY <1>5, <1>14 DEF PhaseOf
  <2>2. held' = held \ {v} /\ v \in held \ built
    BY <1>4, <1>6, <1>14 DEF Members
  <2>3. ASSUME PhaseOf(o) = "deleting" PROVE Storage!Release(v)
    <3>1. object' = [object EXCEPT ![v] = "deleting"]
      BY <1>3, <2>3, Zenon
    <3> QED
      BY <1>1, <2>1, <2>2, <3>1, Zenon DEF Storage!Release
  <2>4. ASSUME PhaseOf(o) = "none" PROVE Storage!Release(v)
    <3>1. object' = [object EXCEPT ![v] = "none"]
      BY <1>3, <2>4, Zenon
    <3> QED
      BY <1>1, <2>1, <2>2, <3>1, Zenon DEF Storage!Release
  <2> QED
    BY <2>1, <2>3, <2>4 DEF Storage!Next
<1>15. api[v].deleting => api[v].alive
  BY DEF StorageInv, ObjectsFit
<1> QED
  BY <1>9, <1>10, <1>11, <1>12, <1>13, <1>14, <1>15 DEF ObjectChange

LEMMA StorageRefined ==
    ASSUME StorageInv, [Next]_vars
    PROVE  UNCHANGED Storage!vars \/ Storage!Next
<1>1. CASE UNCHANGED <<api, disk, lv>>
  BY <1>1, DiskRefines
<1>2. ASSUME NEW v \in VGs, NEW o \in Objects, ObjectChange(v, o), UNCHANGED <<disk, lv>>
      PROVE  UNCHANGED Storage!vars \/ Storage!Next
  BY <1>2, ObjectsRefine
<1>3. ASSUME NEW v \in VGs, VolumeChange(v), UNCHANGED <<api, disk>>
      PROVE  Storage!Next
  BY <1>3, VolumesRefine
<1>4. CASE UNCHANGED <<api, lv>>
  BY <1>4, DiskRefines
<1> QED
  BY <1>1, <1>2, <1>3, <1>4, OneKindOfChange

LEMMA StorageStarts == Init => Storage!Init
<1> SUFFICES ASSUME Init PROVE Storage!Init
  OBVIOUS
<1>1. /\ api = [v \in VGs |-> NoObject] /\ lv = [v \in VGs |-> FALSE]
      /\ disk = [d \in Devices |-> IF d \in Dirty THEN Foreign ELSE Blank]
  BY DEF Init
<1>2. \A v \in VGs : Members(v) = {} /\ ~api[v].fin /\ ~lv[v] /\ ObjectPhase(v) = "none"
  BY <1>1, NoVGContents DEF Members, ObjectPhase, NoObject
<1>3. [v \in VGs |-> ObjectPhase(v)] = [v \in VGs |-> "none"]
  BY <1>2
<1>4. {v \in VGs : api[v].fin} = {} /\ {v \in VGs : lv[v]} = {}
  BY <1>2
<1>5. {v \in VGs : Members(v) # {}} = {}
  BY <1>2
<1> QED
  BY <1>3, <1>4, <1>5, Zenon DEF Storage!Init

-----------------------------------------------------------------------------

\* The inductive invariant holds in every reachable state.
THEOREM StorageInvariant == NoOptionalWipe => (Spec => []StorageInv)
<1> SUFFICES ASSUME NoOptionalWipe PROVE Spec => []StorageInv
  OBVIOUS
<1>1. StorageInv /\ [Next]_vars => StorageInv'
  BY StorageStep
<1> QED
  BY <1>1, StorageInit, PTL DEF Spec

\* User volumes never lose their volume group or their thin pool: neither
\* cleanup, device removal and wiping, nor a pulled device or a restart of the
\* process, whatever the number of classes and devices.
THEOREM VolumesKeepStorage == NoOptionalWipe => (Spec => []UserVolumesBacked)
<1>1. StorageInv => UserVolumesBacked
  <2> SUFFICES ASSUME StorageInv, NEW v \in VGs, lv[v]
               PROVE  VGExists(v) /\ (v \in Thin => pool[v] # "none")
    BY DEF UserVolumesBacked
  <2>1. PICK d \in Devices : disk[d] = v
    BY DEF StorageInv, VolumesFit
  <2>2. PICK e \in attached : disk[e] = v
    BY <2>1 DEF StorageInv, Inv, MembersFit
  <2>3. e \in Members(v) \cap attached
    BY <2>2 DEF Members, StorageInv, Inv, TypeOK
  <2> QED
    BY <2>3 DEF VGExists, ListPVs, StorageInv, VolumesFit
<1> QED
  BY <1>1, StorageInvariant, PTL

\* A RAID volume group never has fewer devices than its level needs: vgcreate,
\* vgextend and vgreduce are guarded by counts of devices that were listed
\* several steps earlier.
THEOREM RaidStaysComplete == NoOptionalWipe => (Spec => []RaidHasMinimum)
<1>1. StorageInv => RaidHasMinimum
  BY DEF StorageInv
<1> QED
  BY <1>1, StorageInvariant, PTL

\* The vgmanager implements NodeStorage: every step of it builds storage under
\* the finalizer, tears storage down for a deletion, gives the finalizer back
\* when nothing is left, or is invisible from outside.
THEOREM StorageRefinement == NoOptionalWipe => (Spec => StorageImplemented)
<1>1. StorageInv /\ [Next]_vars => [Storage!Next]_(Storage!vars)
  BY StorageRefined
<1>2. NoOptionalWipe => (Spec => Storage!Init /\ [][Storage!Next]_(Storage!vars))
  BY <1>1, StorageStarts, StorageInvariant, PTL DEF Spec
<1> QED
  BY <1>2 DEF StorageImplemented, Storage!Spec

=============================================================================
