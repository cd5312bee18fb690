------------------------------ MODULE VGManager ------------------------------
(***************************************************************************)
(* The volume group manager of one node: the reconciler that turns         *)
(* LVMVolumeGroup objects into LVM volume groups, thin pools and entries   *)
(* of lvmd.yaml, and takes them down again behind a per-node finalizer;    *)
(* the file watcher that restarts the process when lvmd.yaml changes; and  *)
(* the parties it shares its state with: the operator that writes the      *)
(* objects, the informer cache, the host's LVM, and TopoLVM's logical      *)
(* volumes.                                                                *)
(*                                                                         *)
(* One worker handles one object at a time (controller-runtime's default), *)
(* so a reconcile is a sequence of steps of one process: pc names the next *)
(* call that changes something outside the worker or can fail.  Any step   *)
(* of another party, a cancelled context or a crash may come in between.   *)
(***************************************************************************)
EXTENDS LvmdConfig, FiniteSets

CONSTANTS
    Devices,     \* block devices of the node
    OwnerOf,     \* the device class whose selector may name a device
    Optional,    \* devices that are named as optionalPaths
    Selector,    \* classes with a deviceSelector; the others discover devices
    Static,      \* classes with the static discovery policy
    ForceWipe,   \* classes with forceWipeDevicesAndDestroyAllData
    Thin,        \* classes with a thinPoolConfig
    Raid,        \* classes with a raidConfig
    MinDevices,  \* RAIDConfig.MinDeviceCount
    Retain,      \* classes whose StorageClass has reclaim policy Retain
    Used,        \* classes in which users create volumes
    Dirty,       \* devices that carry a foreign signature at first
    NoVG,        \* "no object in work"
    FaultKinds,  \* which calls may fail on their own
    MaxFaults    \* bound on the number of such failures

\* What a device carries besides membership in a volume group: nothing, a
\* signature that is not LVM's, or an LVM label without a volume group.
Blank   == "blank"
Foreign == "foreign"
Orphan  == "orphan"
Contents == {Blank, Foreign, Orphan} \cup VGs

AllFaults == {"api", "exec", "file", "watch", "crash", "reboot", "pull", "label"}

ASSUME VGManagerAssumption ==
    /\ IsFiniteSet(Devices) /\ OwnerOf \in [Devices -> VGs]
    /\ Optional \subseteq Devices
    /\ Selector \subseteq VGs /\ Static \subseteq VGs /\ ForceWipe \subseteq Selector
    /\ \A u, v \in VGs : u # v => u \in Selector  \* verifyPathsAreNotEmpty
    /\ Thin \subseteq VGs
    /\ Raid \subseteq Selector /\ Raid \cap Thin = {}  \* verifyRAIDConfig
    /\ Retain \subseteq VGs /\ Used \subseteq VGs
    /\ Dirty \subseteq Devices
    /\ MinDevices \in Nat
    /\ NoVG \notin VGs /\ {Blank, Foreign, Orphan} \cap VGs = {}
    /\ FaultKinds \subseteq AllFaults
    /\ MaxFaults \in Nat

VARIABLES
    \* The API server and the informer cache of this process.
    api,         \* LVMVolumeGroup objects
    cached,      \* the informer's copy of them
    queue,       \* work queue of the controller
    sc,          \* the StorageClass of a device class exists
    nodeStatus,  \* the LVMVolumeGroupNodeStatus of this node exists
    matches,     \* the node's labels match the node selectors
    status,      \* the VGStatus entries of the node status
    \* The host.
    disk,        \* what a device carries
    attached,    \* devices the kernel sees
    pool,        \* the thin pool of a volume group
    lv,          \* a volume group holds user logical volumes
    \* lvmd.yaml, its cache and its watcher.
    lvmd, loaded, watch, notify,
    \* The worker and the local variables of its reconcile.
    pc, cur, todo, listed, conf, changed,
    faults

apiVars    == <<api, cached, sc, nodeStatus, matches>>
hostVars   == <<disk, attached, pool, lv>>
lvmdVars   == <<lvmd, loaded, watch, notify>>
localVars  == <<todo, listed, conf, changed>>
workVars   == <<pc, cur, todo, listed, conf, changed>>

vars == <<apiVars, queue, status, hostVars, lvmdVars, workVars, faults>>

States == {"none", "Progressing", "Ready", "Failed", "Degraded"}

Objects == [alive : BOOLEAN, deleting : BOOLEAN, fin : BOOLEAN, wiped : BOOLEAN,
            paths : SUBSET Devices, ratio : 0..MaxRatio]

NoObject == [alive |-> FALSE, deleting |-> FALSE, fin |-> FALSE, wiped |-> FALSE,
             paths |-> {}, ratio |-> 0]

CreateSteps == {"addFinalizer", "inspect", "wipe", "annotate", "filter", "reduce",
                "relist", "progress", "addDevices", "addPool", "validate", "apply",
                "ready"}
DeleteSteps == {"loadConf", "checkRetain", "deletePool", "deleteVG", "deletePVs",
                "deleteConf", "removeStatus", "removeFinalizer"}
Steps == {"idle"} \cup CreateSteps \cup DeleteSteps

TypeOK ==
    /\ api \in [VGs -> Objects]
    /\ cached \in [VGs -> Objects]
    /\ queue \subseteq VGs
    /\ sc \in [VGs -> BOOLEAN]
    /\ nodeStatus \in BOOLEAN
    /\ matches \in BOOLEAN
    /\ status \in [VGs -> States]
    /\ disk \in [Devices -> Contents]
    /\ attached \subseteq Devices
    /\ pool \in [VGs -> {"none", "active", "inactive"}]
    /\ lv \in [VGs -> BOOLEAN]
    /\ lvmd \in [cache : Configs, file : Configs]
    /\ loaded \in Configs
    /\ watch \in {"pending", "on", "failed"}
    /\ notify \in {"none", "pending", "cancelled"}
    /\ pc \in Steps
    /\ cur \in VGs \cup {NoVG}
    /\ pc # "idle" => cur \in VGs
    /\ todo \subseteq Devices
    /\ listed \subseteq Devices
    /\ conf \in Configs
    /\ changed \in BOOLEAN
    /\ faults \in 0..MaxFaults

-----------------------------------------------------------------------------
(***************************************************************************)
(* The host.  A volume group exists while some attached device is a member *)
(* of it; a member that is not attached is a missing physical volume.      *)
(***************************************************************************)

Members(v) == {d \in Devices : disk[d] = v}

\* ListVGs: the physical volumes of v, none when v does not exist.
ListPVs(v) == IF Members(v) \cap attached = {} THEN {} ELSE Members(v)

VGExists(v) == ListPVs(v) # {}

\* IsMissingDevices.
IsMissingDevices(v) == VGExists(v) /\ ~(Members(v) \subseteq attached)

\* Variant with a bug: lvremove -y.
DeleteLVForced(v) == FALSE

\* Variant with a bug: a pool that an earlier attempt deactivated is refused.
DeleteLVOnlyActive(v) == lv[v] \/ pool[v] = "inactive"

\* DeleteLV: lvremove runs without -y and without a terminal, so it refuses to
\* remove a pool that other volumes live in.
RefusesDeleteLV(v) == lv[v]

\* Variant with a bug: vgremove -y.
DeleteVGForced(v) == IsMissingDevices(v)

\* DeleteVG: vgremove likewise.  LVM also refuses to change a volume group with
\* missing devices.
RefusesDeleteVG(v) == lv[v] \/ pool[v] # "none" \/ IsMissingDevices(v)

\* vgreduce refuses a device that carries extents of a volume.
MayRefuseReduceVG(v) == lv[v] \/ pool[v] # "none"

-----------------------------------------------------------------------------
(***************************************************************************)
(* Calls.  A command or an API request fails when the context has been     *)
(* cancelled, and otherwise only by a fault.  File operations do not look  *)
(* at the context.                                                         *)
(***************************************************************************)

Fault(k) == k \in FaultKinds /\ faults < MaxFaults /\ faults' = faults + 1

CallOK == notify # "cancelled" /\ UNCHANGED faults

CallFails(k) == \/ notify = "cancelled" /\ UNCHANGED faults
                \/ notify # "cancelled" /\ Fault(k)

\* An Update carries the resourceVersion of the cached object it started
\* from, so it is rejected when the object has changed since.
Conflict == cached[cur] # api[cur]

UpdateOK == CallOK /\ ~Conflict

UpdateFails == \/ CallFails("api")
               \/ CallOK /\ Conflict

\* The reconcile moves on to step s.
Goto(s) == pc' = s /\ UNCHANGED <<cur, queue>>

\* The reconcile ends.  With an error or a requeue the object stays queued.
Finish(requeue) ==
    /\ pc' = "idle" /\ cur' = NoVG
    /\ todo' = {} /\ listed' = {} /\ conf' = Nil /\ changed' = FALSE
    /\ queue' = IF requeue THEN queue \cup {cur} ELSE queue

Done == Finish(FALSE)
Requeue == Finish(TRUE)

\* setVolumeGroupFailedStatus on the volume groups listed earlier.  An error
\* of the update is only logged.
FailedStatus(pvs) ==
    LET new == [status EXCEPT ![cur] = IF pvs = {} THEN "Failed" ELSE "Degraded"]
    IN  status' \in IF notify = "cancelled" THEN {status}
                    ELSE IF "api" \in FaultKinds THEN {status, new}
                    ELSE {new}

\* Variant with a bug: the watcher does not look at removals.
NotifiedUnlessRemoved ==
    notify' = IF watch = "on" /\ notify = "none" /\ lvmd'.file.exists THEN "pending" ELSE notify

\* Variant with a bug: the watcher does not look at creations.
NotifiedUnlessCreated ==
    notify' = IF watch = "on" /\ notify = "none" /\ lvmd.file.exists THEN "pending" ELSE notify

\* The fsnotify watcher sees a change of the file.
FileChanged == notify' = IF watch = "on" /\ notify = "none" THEN "pending" ELSE notify

-----------------------------------------------------------------------------
(***************************************************************************)
(* Reconcile: choosing what to do with an object.                          *)
(***************************************************************************)

\* The worker takes an object from the queue and reads it from the informer
\* cache.  Nothing is to be done when it is gone or the node does not match.
\* Without the node status the reconcile fails and is retried, which changes
\* nothing: the step waits for it.  The watcher is registered concurrently with
\* the start of the manager; only where watcher trouble is considered does the
\* worker get ahead of it.
StartReconcile(v) ==
    /\ pc = "idle" /\ notify # "cancelled" /\ v \in queue
    /\ watch = "pending" => "watch" \in FaultKinds
    /\ cached[v].alive /\ matches => nodeStatus
    /\ queue' = queue \ {v}
    /\ IF ~cached[v].alive \/ ~matches
       THEN UNCHANGED <<pc, cur>>
       ELSE /\ cur' = v
            /\ pc' = IF cached[v].deleting THEN "loadConf"
                     ELSE IF ~cached[v].fin THEN "addFinalizer"
                     ELSE "inspect"
    /\ UNCHANGED <<apiVars, status, hostVars, lvmdVars, localVars, faults>>

\* The outcomes of r.Update(ctx, volumeGroup): the worker is done and waits for
\* the watch event of its own update, or it retries.
UpdateObject(objs) ==
    /\ \/ /\ UpdateOK
          /\ \E o \in objs : api' = [api EXCEPT ![cur] = o]
          /\ Done
       \/ UpdateFails /\ Requeue /\ UNCHANGED api
    /\ UNCHANGED <<cached, sc, nodeStatus, matches, status, hostVars, lvmdVars>>

\* Variant with a bug: an error of the update is only logged.
AddFinalizerIgnoringErrors ==
    /\ pc = "addFinalizer"
    /\ \/ UpdateOK /\ api' = [api EXCEPT ![cur] = [cached[cur] EXCEPT !.fin = TRUE]] /\ Done
       \/ UpdateFails /\ Goto("inspect") /\ UNCHANGED <<api, localVars>>
    /\ UNCHANGED <<cached, sc, nodeStatus, matches, status, hostVars, lvmdVars>>

AddFinalizer ==
    /\ pc = "addFinalizer"
    /\ UpdateObject({[cached[cur] EXCEPT !.fin = TRUE]})

-----------------------------------------------------------------------------
(***************************************************************************)
(* reconcile: wiping devices on request, once.                             *)
(***************************************************************************)

\* shouldWipeDevicesOnVolumeGroup: only as long as the annotation is missing.
ShouldWipeDevices(v) == v \in ForceWipe /\ ~cached[v].wiped

\* ListBlockDevices, ListVGs, the RAID health check and the decision to wipe.
Inspect ==
    /\ pc = "inspect"
    /\ \/ /\ CallOK
          /\ cur \in Raid /\ IsMissingDevices(cur)
          /\ FailedStatus(ListPVs(cur))
          /\ Requeue
       \/ /\ CallOK
          /\ ~(cur \in Raid /\ IsMissingDevices(cur))
          /\ listed' = ListPVs(cur)
          /\ IF ShouldWipeDevices(cur)
             THEN todo' = cached[cur].paths /\ Goto("wipe")
             ELSE todo' = {} /\ Goto("filter")
          /\ UNCHANGED <<status, conf, changed>>
       \/ CallFails("exec") /\ Requeue /\ UNCHANGED status
    /\ UNCHANGED <<apiVars, hostVars, lvmdVars>>

\* One device path of wipeDevices, mandatory paths first.  A failure ends the
\* reconcile for a mandatory path and is skipped for an optional one.
WipeDevice(d) ==
    /\ pc = "wipe" /\ d \in todo /\ (d \in Optional => todo \subseteq Optional)
    /\ \/ /\ CallOK /\ d \in attached
          /\ disk' = [disk EXCEPT ![d] = Blank]
          /\ todo' = todo \ {d} /\ changed' = TRUE
          /\ Goto("wipe") /\ UNCHANGED <<listed, conf>>
       \/ /\ d \notin Optional
          /\ CallFails("exec") \/ (CallOK /\ d \notin attached)
          /\ Requeue /\ UNCHANGED disk
       \/ /\ d \in Optional
          /\ CallFails("exec") \/ (CallOK /\ d \notin attached)
          /\ todo' = todo \ {d}
          /\ Goto("wipe") /\ UNCHANGED <<listed, conf, changed, disk>>
    /\ UNCHANGED <<apiVars, status, attached, pool, lv, lvmdVars>>

\* Variant with a bug: the reconcile goes on and the annotation is not set.
WipeDoneNotRecorded ==
    /\ pc = "wipe" /\ todo = {}
    /\ Goto("filter")
    /\ UNCHANGED <<apiVars, status, hostVars, lvmdVars, localVars, faults>>

\* The end of wipeDevices: the annotation is only set when a device was wiped.
WipeDone ==
    /\ pc = "wipe" /\ todo = {}
    /\ Goto(IF changed THEN "annotate" ELSE "filter")
    /\ UNCHANGED <<apiVars, status, hostVars, lvmdVars, localVars, faults>>

Annotate ==
    /\ pc = "annotate"
    /\ UpdateObject({[cached[cur] EXCEPT !.wiped = TRUE]})

-----------------------------------------------------------------------------
(***************************************************************************)
(* reconcile: which devices are new, which are to be removed.              *)
(***************************************************************************)

HasExplicitDevicePaths(v) == cached[v].paths # {}

\* Variant with a bug: only members of managed volume groups are left out.
UsableUnlessMember(d) == disk[d] \notin VGs

\* DefaultFilters and filterDevices: the device is part of the selector, if
\* there is one, and carries nothing or a label LVM can reuse.
Selected(v, d) == v \in Selector => d \in cached[v].paths
Usable(d) == disk[d] \in {Blank, Orphan}
Discovered(v) == {d \in attached : Selected(v, d) /\ Usable(d)}

\* Variant with a bug: the policy is ignored.
FrozenNever(v) == FALSE

\* The static policy, which RAID implies, keeps the device set of an existing
\* volume group unless paths are given.
Frozen(v) == ~HasExplicitDevicePaths(v) /\ v \in Static \cup Raid /\ listed # {}
Available(v) == IF Frozen(v) THEN {} ELSE Discovered(v)

AlreadySetup(v, d) == d \in attached /\ disk[d] = v

\* VerifyMandatoryDevicePaths.
MandatoryPathsOK(v) ==
    \A d \in cached[v].paths \ Optional : d \in Discovered(v) \/ AlreadySetup(v, d)

\* deleteRemovedDevices: the members that are no longer named, and whether it
\* refuses to remove them.
RemovedDevices(v) == IF HasExplicitDevicePaths(v) THEN listed \ cached[v].paths ELSE {}

\* Variant with a bug: off by one.
RAIDDeviceCountOffByOne(v, n) == v \in Raid => n + 1 >= MinDevices

ValidRAIDDeviceCount(v, n) == v \in Raid => n >= MinDevices

RefusesRemoval(v) ==
    /\ HasExplicitDevicePaths(v)
    /\ \/ IsMissingDevices(v)
       \/ /\ RemovedDevices(v) # {}
          /\ LET rest == Cardinality(listed \ RemovedDevices(v))
             IN  rest < 1 \/ ~ValidRAIDDeviceCount(v, rest)

ReconcileFails(v) ==
    \/ ~MandatoryPathsOK(v)
    \/ Available(v) = {} /\ (listed = {} \/ RefusesRemoval(v))

\* The device decisions of reconcile up to its first change.
FilterDevices ==
    /\ pc = "filter"
    /\ \/ CallOK /\ ReconcileFails(cur) /\ FailedStatus(listed) /\ Requeue
       \/ /\ CallOK /\ ~ReconcileFails(cur)
          /\ IF Available(cur) # {}
             THEN todo' = Available(cur) /\ Goto("progress")
             ELSE /\ todo' = RemovedDevices(cur)
                  /\ Goto(IF RemovedDevices(cur) # {} THEN "reduce" ELSE "validate")
          /\ changed' = FALSE
          /\ UNCHANGED <<status, listed, conf>>
       \/ CallFails("exec") /\ Requeue /\ UNCHANGED status
    /\ UNCHANGED <<apiVars, hostVars, lvmdVars>>

-----------------------------------------------------------------------------
(***************************************************************************)
(* reconcile: changing the volume group and its thin pool.                 *)
(***************************************************************************)

\* A step of the create path that reports a failed status and gives up.
GiveUp == FailedStatus(listed) /\ Requeue /\ UNCHANGED <<apiVars, lvmdVars>>

\* deleteRemovedDevices, one device: vgreduce, then pvremove, whose failure is
\* only logged.
ReduceVG(d) ==
    /\ pc = "reduce" /\ d \in todo /\ disk[d] = cur
    /\ \A e \in todo : disk[e] # Orphan
    /\ \/ /\ CallOK /\ ~IsMissingDevices(cur)
          /\ disk' = [disk EXCEPT ![d] = Orphan]
          /\ Goto("reduce")
          /\ UNCHANGED <<apiVars, lvmdVars, status, localVars>>
       \/ /\ \/ CallFails("exec")
             \/ CallOK /\ (IsMissingDevices(cur) \/ MayRefuseReduceVG(cur))
          /\ GiveUp /\ UNCHANGED disk
    /\ UNCHANGED <<attached, pool, lv>>

RemovePV(d) ==
    /\ pc = "reduce" /\ d \in todo /\ disk[d] = Orphan
    /\ \/ CallOK /\ disk' = [disk EXCEPT ![d] = Blank]
       \/ CallFails("exec") /\ UNCHANGED disk
    /\ todo' = todo \ {d}
    /\ Goto(IF todo' = {} THEN "relist" ELSE "reduce")
    /\ UNCHANGED <<apiVars, lvmdVars, status, attached, pool, lv, listed, conf, changed>>

\* The list of volume groups is read again after devices were removed or added.
RelistVGs ==
    /\ pc = "relist"
    /\ \/ /\ CallOK
          /\ listed' = ListPVs(cur)
          /\ Goto(IF changed THEN "apply" ELSE "validate")
          /\ UNCHANGED <<todo, conf, changed>>
       \/ CallFails("exec") /\ Requeue
    /\ UNCHANGED <<apiVars, hostVars, lvmdVars, status>>

\* New devices: the status goes to Progressing first.  If that changed it, the
\* object is requeued; an error of the update is only logged.
SetProgressing ==
    /\ pc = "progress"
    /\ \/ /\ CallOK /\ status[cur] # "Progressing"
          /\ status' = [status EXCEPT ![cur] = "Progressing"]
          /\ Requeue
       \/ /\ CallFails("api") \/ (CallOK /\ status[cur] = "Progressing")
          /\ Goto("addDevices") /\ UNCHANGED <<status, localVars>>
    /\ UNCHANGED <<apiVars, hostVars, lvmdVars>>

\* addDevicesToVG: vgcreate or vgextend with the available devices.
AddDevicesToVG ==
    /\ pc = "addDevices"
    /\ LET ok == /\ ValidRAIDDeviceCount(cur, Cardinality(todo \cup listed))
                 /\ todo \subseteq attached
                 /\ ~IsMissingDevices(cur)
       IN  \/ /\ CallOK /\ ok
              /\ disk' = [d \in Devices |-> IF d \in todo THEN cur ELSE disk[d]]
              /\ changed' = TRUE
              /\ todo' = {}
              /\ Goto(IF cur \in Thin THEN "addPool" ELSE "relist")
              /\ UNCHANGED <<apiVars, lvmdVars, status, listed, conf>>
           \/ /\ CallFails("exec") \/ (CallOK /\ ~ok)
              /\ GiveUp /\ UNCHANGED disk
    /\ UNCHANGED <<attached, pool, lv>>

\* addThinPoolToVG: the pool is created, or extended when it is there.
AddThinPoolToVG ==
    /\ pc = "addPool"
    /\ \/ /\ CallOK
          /\ pool' = IF pool[cur] = "none" THEN [pool EXCEPT ![cur] = "active"] ELSE pool
          /\ Goto("validate")
          /\ UNCHANGED <<apiVars, lvmdVars, status, localVars>>
       \/ CallFails("exec") /\ GiveUp /\ UNCHANGED pool
    /\ UNCHANGED <<disk, attached, lv>>

\* Variant with a bug: a missing pool is not noticed.
LVsAssumedConsistent(v) == TRUE

LVsConsistent(v) == pool[v] # "none"

\* validateLVs: the thin pool must be there; an inactive one is activated.
ValidateLVs ==
    /\ pc = "validate"
    /\ LET next == IF changed THEN "relist" ELSE "apply"
       IN  \/ cur \notin Thin /\ Goto(next)
              /\ UNCHANGED <<apiVars, lvmdVars, status, localVars, pool, faults>>
           \/ /\ CallOK /\ cur \in Thin /\ LVsConsistent(cur)
              /\ pool' = IF pool[cur] = "inactive" THEN [pool EXCEPT ![cur] = "active"] ELSE pool
              /\ Goto(next) /\ UNCHANGED <<apiVars, lvmdVars, status, localVars>>
           \/ /\ cur \in Thin
              /\ CallFails("exec") \/ (CallOK /\ ~LVsConsistent(cur))
              /\ GiveUp /\ UNCHANGED pool
    /\ UNCHANGED <<disk, attached, lv>>

-----------------------------------------------------------------------------
(***************************************************************************)
(* reconcile: publishing the device class.                                 *)
(***************************************************************************)

\* Variant with a bug: the ratio of a listed class is never updated.
ConfigWithoutRatioUpdate(c, v) ==
    IF ~Listed(c, v) THEN WithClass(c, v, cached[v].ratio) ELSE c

\* Variant with a bug: the ratio is off by one.
ConfigWithNextRatio(c, v) == WithClass(c, v, cached[v].ratio + 1)

\* The configuration with the class of this object in it.  Of an existing
\* class only the ratio of a thin pool is updated.
UpdatedConfig(c, v) ==
    IF ~Listed(c, v) \/ v \in Thin THEN WithClass(c, v, cached[v].ratio) ELSE c

\* LVMD.Save with its outcomes; nothing is written when nothing changes.
Save(c) ==
    IF SaveSkipped(lvmd, c)
    THEN UNCHANGED <<lvmd, notify>>
    ELSE lvmd' = AfterSave(lvmd, c) /\ FileChanged

SaveFails(c) ==
    /\ ~SaveSkipped(lvmd, c) /\ Fault("file")
    /\ lvmd' \in AfterFailedSave(lvmd, c)
    /\ IF lvmd'.file = lvmd.file THEN UNCHANGED notify ELSE FileChanged

\* applyLVMDConfig.
ApplyLVMDConfig ==
    /\ pc = "apply"
    /\ LET old == Load(lvmd)
           new == UpdatedConfig(old, cur)
       IN  \/ /\ IF new = old
                 THEN lvmd' = AfterLoad(lvmd) /\ UNCHANGED notify
                 ELSE Save(new)
              /\ Goto("ready")
              /\ UNCHANGED <<status, localVars, faults>>
           \/ new # old /\ SaveFails(new) /\ FailedStatus(listed) /\ Requeue
           \/ \* the file cannot be read
              /\ ~lvmd.cache.exists /\ Fault("file")
              /\ FailedStatus(listed) /\ Requeue /\ UNCHANGED <<lvmd, notify>>
    /\ UNCHANGED <<apiVars, hostVars, loaded, watch>>

\* determineFinishedRequeue, and the requeue after devices were added.
RequeueWhenFinished(v) ==
    \/ changed
    \/ v \in Raid
    \/ ~HasExplicitDevicePaths(v) /\ v \notin Static

SetReady ==
    /\ pc = "ready"
    /\ \/ /\ CallOK
          /\ status' = [status EXCEPT ![cur] = "Ready"]
          /\ Finish(RequeueWhenFinished(cur))
       \/ CallFails("api") /\ Requeue /\ UNCHANGED status
    /\ UNCHANGED <<apiVars, hostVars, lvmdVars>>

-----------------------------------------------------------------------------
(***************************************************************************)
(* processDelete.                                                          *)
(***************************************************************************)

\* Variant with a bug: lvmd.yaml decides whether there is something to clean up.
CleanupNeededByConfig(v) == Listed(Load(lvmd), v)

\* The host decides whether there is a volume group to clean up.
CleanupNeeded(v) == VGExists(v)

\* The configuration is loaded and the class taken out of the copy; then the
\* volume groups are listed.
LoadConf ==
    /\ pc = "loadConf"
    /\ \/ /\ CallOK
          /\ lvmd' = AfterLoad(lvmd)
          /\ conf' = WithoutClass(Load(lvmd), cur)
          /\ listed' = ListPVs(cur)
          /\ Goto(IF CleanupNeeded(cur) THEN "checkRetain" ELSE "deleteConf")
          /\ UNCHANGED <<todo, changed>>
       \/ CallFails("exec") /\ lvmd' = AfterLoad(lvmd) /\ Requeue
       \/ ~lvmd.cache.exists /\ Fault("file") /\ Requeue /\ UNCHANGED lvmd
    /\ UNCHANGED <<apiVars, status, hostVars, loaded, watch, notify>>

\* isRetainPolicy: no StorageClass means no policy.
IsRetainPolicy(v) == sc[v] /\ v \in Retain

\* Retained user volumes block the cleanup; the thin pool does not.
RetainBlocks(v, retain) == retain /\ lv[v]

\* The policy is checked.  An error of reading it counts as Retain.
CheckRetain ==
    /\ pc = "checkRetain"
    /\ LET proceed == /\ Goto(IF cur \in Thin THEN "deletePool" ELSE "deleteVG")
                      /\ UNCHANGED localVars
       IN  \/ CallOK /\ IF RetainBlocks(cur, IsRetainPolicy(cur)) THEN Requeue ELSE proceed
           \/ \* the StorageClass cannot be read; with a cancelled context
              \* the volumes cannot be listed either
              /\ CallFails("api")
              /\ IF RetainBlocks(cur, TRUE) \/ notify = "cancelled" THEN Requeue ELSE proceed
           \/ IsRetainPolicy(cur) /\ CallFails("exec") /\ Requeue
    /\ UNCHANGED <<apiVars, status, hostVars, lvmdVars>>

\* DeleteLV of the thin pool: lvchange -an, then lvremove.
DeletePool ==
    /\ pc = "deletePool"
    /\ \/ /\ CallOK /\ (pool[cur] = "none" \/ ~RefusesDeleteLV(cur))
          /\ pool' = [pool EXCEPT ![cur] = "none"]
          /\ Goto("deleteVG")
          /\ UNCHANGED <<apiVars, lvmdVars, status, localVars>>
       \/ /\ pool[cur] # "none"
          /\ CallFails("exec") \/ (CallOK /\ RefusesDeleteLV(cur))
          /\ pool' \in {pool, [pool EXCEPT ![cur] = "inactive"]}
          /\ GiveUp
       \/ \* LVExists fails
          CallFails("exec") /\ Requeue /\ UNCHANGED <<apiVars, lvmdVars, status, pool>>
    /\ UNCHANGED <<disk, attached, lv>>

\* DeleteVG: vgchange -an and vgremove ...
DeleteVG ==
    /\ pc = "deleteVG"
    /\ \/ /\ CallOK /\ ~RefusesDeleteVG(cur)
          /\ disk' = [d \in Devices |-> IF disk[d] = cur THEN Orphan ELSE disk[d]]
          /\ Goto("deletePVs")
          /\ UNCHANGED <<apiVars, lvmdVars, status, localVars>>
       \/ /\ CallFails("exec") \/ (CallOK /\ RefusesDeleteVG(cur))
          /\ GiveUp /\ UNCHANGED disk
    /\ UNCHANGED <<attached, pool, lv>>

\* ... then pvremove and lvmdevices --delpvid for the devices it had.
DeletePVs ==
    /\ pc = "deletePVs"
    /\ LET cleared == [d \in Devices |->
                          IF d \in listed /\ disk[d] = Orphan THEN Blank ELSE disk[d]]
       IN  \/ /\ CallOK /\ disk' = cleared
              /\ Goto("deleteConf")
              /\ UNCHANGED <<apiVars, lvmdVars, status, localVars>>
           \/ CallFails("exec") /\ disk' \in {disk, cleared} /\ GiveUp
    /\ UNCHANGED <<attached, pool, lv>>

\* The configuration is saved without the class, or the file is deleted with
\* the last class.  Deleting a file that is not there is an error.
DeleteConf ==
    /\ pc = "deleteConf"
    /\ \/ /\ ~conf.exists
          /\ Goto("removeStatus") /\ UNCHANGED <<lvmd, notify, localVars, faults>>
       \/ /\ conf.exists /\ ~NoClasses(conf)
          /\ \/ Save(conf) /\ Goto("removeStatus") /\ UNCHANGED <<localVars, faults>>
             \/ SaveFails(conf) /\ Requeue
       \/ /\ conf.exists /\ NoClasses(conf)
          /\ \/ /\ lvmd.file.exists
                /\ lvmd' = AfterDelete(lvmd) /\ FileChanged
                /\ Goto("removeStatus") /\ UNCHANGED <<localVars, faults>>
             \/ /\ \/ ~lvmd.file.exists /\ UNCHANGED faults
                   \/ lvmd.file.exists /\ Fault("file")
                /\ Requeue /\ UNCHANGED <<lvmd, notify>>
    /\ UNCHANGED <<apiVars, status, hostVars, loaded, watch>>

\* Variant with a bug: an error of the status update is only logged.
RemoveStatusIgnoringErrors ==
    /\ pc = "removeStatus"
    /\ \/ CallOK /\ status' = [status EXCEPT ![cur] = "none"]
       \/ CallFails("api") /\ UNCHANGED status
    /\ Goto("removeFinalizer") /\ UNCHANGED localVars
    /\ UNCHANGED <<apiVars, hostVars, lvmdVars>>

RemoveVolumeGroupStatus ==
    /\ pc = "removeStatus"
    /\ \/ /\ CallOK
          /\ status' = [status EXCEPT ![cur] = "none"]
          /\ Goto("removeFinalizer") /\ UNCHANGED localVars
       \/ CallFails("api") /\ Requeue /\ UNCHANGED status
    /\ UNCHANGED <<apiVars, hostVars, lvmdVars>>

\* The object disappears with its last finalizer; those of other nodes may
\* still hold it.
RemoveFinalizer ==
    /\ pc = "removeFinalizer"
    /\ IF cached[cur].fin
       THEN UpdateObject({NoObject, [cached[cur] EXCEPT !.fin = FALSE]})
       ELSE Done /\ UNCHANGED <<apiVars, status, hostVars, lvmdVars, faults>>

-----------------------------------------------------------------------------
(***************************************************************************)
(* The process: the watcher, and starting again.                           *)
(***************************************************************************)

\* A new process: empty caches, the configuration read once for TopoLVM, all
\* objects listed and queued, the watcher not yet registered.
Boot(file) ==
    /\ lvmd' = [cache |-> Nil, file |-> file]
    /\ loaded' = file
    /\ watch' = "pending" /\ notify' = "none"
    /\ cached' = api
    /\ queue' = {v \in VGs : api[v].alive}
    /\ pc' = "idle" /\ cur' = NoVG
    /\ todo' = {} /\ listed' = {} /\ conf' = Nil /\ changed' = FALSE
    /\ UNCHANGED <<api, sc, nodeStatus, matches, status, disk, attached, lv>>

\* watchTopoLVMAndNotify registers the directory; an error is only logged.
AddWatch ==
    /\ watch = "pending"
    /\ \/ watch' = "on" /\ UNCHANGED faults
       \/ watch' = "failed" /\ Fault("watch")
    /\ UNCHANGED <<apiVars, queue, status, hostVars, lvmd, loaded, notify, workVars>>

\* The watcher handles the event: it cancels the context.
CancelContext ==
    /\ notify = "pending" /\ notify' = "cancelled"
    /\ UNCHANGED <<apiVars, queue, status, hostVars, lvmd, loaded, watch, workVars, faults>>

\* The manager waits for the worker without a deadline, then exits.
ExitAndRestart ==
    /\ notify = "cancelled" /\ pc = "idle"
    /\ Boot(lvmd.file) /\ UNCHANGED <<pool, faults>>

\* The configuration the worker is about to write, if any.
PendingWrites ==
    LET new == UpdatedConfig(Load(lvmd), cur)
    IN  IF pc = "apply" /\ new # Load(lvmd) THEN {new}
        ELSE IF pc = "deleteConf" /\ conf.exists /\ ~NoClasses(conf) /\ ~SaveSkipped(lvmd, conf)
             THEN {conf}
        ELSE {}

\* The process dies anywhere, inside a write of lvmd.yaml included.
Crash ==
    /\ Fault("crash")
    /\ \E f \in {lvmd.file} \cup UNION {TornFiles(lvmd, c) : c \in PendingWrites} : Boot(f)
    /\ UNCHANGED pool

\* The node goes down with it: thin pools come back inactive.
Reboot ==
    /\ Fault("reboot")
    /\ Boot(lvmd.file)
    /\ pool' = [v \in VGs |-> IF pool[v] = "none" THEN "none" ELSE "inactive"]

-----------------------------------------------------------------------------
(***************************************************************************)
(* The other parties.                                                      *)
(***************************************************************************)

\* The informer receives the latest state of an object and queues it.  The
\* reconcile of an object reads it once, at its start, so an event that arrives
\* during the reconcile may as well arrive after it.
SyncCache(v) ==
    /\ cur # v /\ cached[v] # api[v]
    /\ cached' = [cached EXCEPT ![v] = api[v]]
    /\ queue' = queue \cup {v}
    /\ UNCHANGED <<api, sc, nodeStatus, matches, status, hostVars, lvmdVars, workVars, faults>>

\* The controller queues an object again although the object has not changed:
\* an event of the node status, which every object owns, or the informer's
\* periodic resync.
EnqueueAgain(v) ==
    /\ cached[v].alive /\ v \notin queue
    /\ queue' = queue \cup {v}
    /\ UNCHANGED <<apiVars, status, hostVars, lvmdVars, workVars, faults>>

\* Device paths the validating webhook lets through for a class: those of no
\* other class, at least one if the class has a selector, enough for its RAID level.
ValidPaths(v) ==
    IF v \in Selector
    THEN {p \in (SUBSET {d \in Devices : OwnerOf[d] = v}) \ {{}} :
            v \in Raid => Cardinality(p) >= MinDevices}
    ELSE {{}}

operatorUnchanged ==
    UNCHANGED <<cached, queue, matches, status, hostVars, lvmdVars, workVars, faults>>

\* The operator's LVMVolumeGroup and StorageClass units, and node status unit.
CreateVolumeGroup(v) ==
    /\ ~api[v].alive
    /\ \E p \in ValidPaths(v), r \in Ratios :
         api' = [api EXCEPT ![v] = [NoObject EXCEPT !.alive = TRUE, !.paths = p, !.ratio = r]]
    /\ UNCHANGED <<sc, nodeStatus>> /\ operatorUnchanged

EditVolumeGroup(v) ==
    /\ api[v].alive /\ ~api[v].deleting
    /\ \E p \in ValidPaths(v), r \in Ratios :
         /\ <<p, r>> # <<api[v].paths, api[v].ratio>>
         /\ api' = [api EXCEPT ![v].paths = p, ![v].ratio = r]
    /\ UNCHANGED <<sc, nodeStatus>> /\ operatorUnchanged

\* Deletion marks an object that has finalizers and removes one that has none.
DeleteVolumeGroup(v) ==
    /\ api[v].alive /\ ~api[v].deleting
    /\ \E o \in {[api[v] EXCEPT !.deleting = TRUE]} \cup (IF api[v].fin THEN {} ELSE {NoObject}) :
         api' = [api EXCEPT ![v] = o]
    /\ UNCHANGED <<sc, nodeStatus>> /\ operatorUnchanged

\* The finalizers of the other nodes are gone.
OtherNodesDone(v) ==
    /\ api[v].deleting /\ ~api[v].fin
    /\ api' = [api EXCEPT ![v] = NoObject]
    /\ UNCHANGED <<sc, nodeStatus>> /\ operatorUnchanged

\* Only a StorageClass with policy Retain makes a difference to the node.
SetStorageClass(v) ==
    /\ v \in Retain
    /\ sc' = [sc EXCEPT ![v] = ~sc[v]]
    /\ ~sc[v] => api[v].alive /\ ~api[v].deleting
    /\ UNCHANGED <<api, nodeStatus>> /\ operatorUnchanged

CreateNodeStatus ==
    /\ ~nodeStatus /\ nodeStatus' = TRUE
    /\ UNCHANGED <<api, sc>> /\ operatorUnchanged

\* The labels of the node change: it leaves the node selectors and comes back.
\* Nothing queues the objects when they do.
RelabelNode ==
    /\ IF matches THEN Fault("label") ELSE UNCHANGED faults
    /\ matches' = ~matches
    /\ UNCHANGED <<api, cached, sc, nodeStatus, queue, status, hostVars, lvmdVars, workVars>>

\* TopoLVM serves the classes of the configuration the process started with.
CreateLogicalVolume(v) ==
    /\ v \in Used
    /\ notify # "cancelled" /\ Listed(loaded, v) /\ ~lv[v]
    /\ VGExists(v) /\ (v \in Thin => pool[v] # "none")
    /\ lv' = [lv EXCEPT ![v] = TRUE]
    /\ UNCHANGED <<apiVars, queue, status, disk, attached, pool, lvmdVars, workVars, faults>>

\* TopoLVM, or an administrator, removes the user volumes.
DeleteLogicalVolumes(v) ==
    /\ lv[v] /\ lv' = [lv EXCEPT ![v] = FALSE]
    /\ UNCHANGED <<apiVars, queue, status, disk, attached, pool, lvmdVars, workVars, faults>>

\* A device disappears; a volume group does not lose all of its devices.
DetachDevice(d) ==
    /\ d \in attached /\ Fault("pull")
    /\ disk[d] \in VGs => \E e \in attached : e # d /\ disk[e] = disk[d]
    /\ attached' = attached \ {d}
    /\ UNCHANGED <<apiVars, queue, status, disk, pool, lv, lvmdVars, workVars>>

AttachDevice(d) ==
    /\ d \notin attached /\ attached' = attached \cup {d}
    /\ UNCHANGED <<apiVars, queue, status, disk, pool, lv, lvmdVars, workVars, faults>>

-----------------------------------------------------------------------------

Init ==
    /\ api = [v \in VGs |-> NoObject] /\ cached = api
    /\ queue = {}
    /\ sc = [v \in VGs |-> FALSE]
    /\ nodeStatus = FALSE /\ matches = TRUE
    /\ status = [v \in VGs |-> "none"]
    /\ disk = [d \in Devices |-> IF d \in Dirty THEN Foreign ELSE Blank]
    /\ attached = Devices
    /\ pool = [v \in VGs |-> "none"]
    /\ lv = [v \in VGs |-> FALSE]
    /\ lvmd = [cache |-> Nil, file |-> Nil] /\ loaded = Nil
    /\ watch = "pending" /\ notify = "none"
    /\ pc = "idle" /\ cur = NoVG
    /\ todo = {} /\ listed = {} /\ conf = Nil /\ changed = FALSE
    /\ faults = 0

CreatePath ==
    \/ AddFinalizer \/ Inspect \/ WipeDone \/ Annotate \/ FilterDevices
    \/ \E d \in Devices : WipeDevice(d) \/ ReduceVG(d) \/ RemovePV(d)
    \/ RelistVGs \/ SetProgressing \/ AddDevicesToVG \/ AddThinPoolToVG
    \/ ValidateLVs \/ ApplyLVMDConfig \/ SetReady

DeletePath ==
    \/ LoadConf \/ CheckRetain \/ DeletePool \/ DeleteVG \/ DeletePVs
    \/ DeleteConf \/ RemoveVolumeGroupStatus \/ RemoveFinalizer

Worker == (\E v \in VGs : StartReconcile(v)) \/ CreatePath \/ DeletePath

Process == AddWatch \/ CancelContext \/ ExitAndRestart \/ Crash \/ Reboot

Operator ==
    \/ CreateNodeStatus
    \/ \E v \in VGs : \/ CreateVolumeGroup(v) \/ EditVolumeGroup(v) \/ DeleteVolumeGroup(v)
                      \/ OtherNodesDone(v) \/ SetStorageClass(v)

Environment ==
    \/ RelabelNode
    \/ \E v \in VGs : \/ SyncCache(v) \/ EnqueueAgain(v)
                      \/ CreateLogicalVolume(v) \/ DeleteLogicalVolumes(v)
    \/ \E d \in Devices : DetachDevice(d) \/ AttachDevice(d)

Next == Worker \/ Process \/ Operator \/ Environment

Spec == Init /\ [][Next]_vars

\* The worker and the watcher goroutine run, the work queue is served in order,
\* informer events arrive, the pod is restarted, and the operator creates the
\* node status.  Nothing is assumed of users, volumes, devices or repeated events.
Fairness ==
    /\ WF_vars(CreatePath \/ DeletePath)
    /\ \A v \in VGs : SF_vars(StartReconcile(v)) /\ SF_vars(SyncCache(v))
    /\ WF_vars(AddWatch) /\ WF_vars(CancelContext) /\ WF_vars(ExitAndRestart)
    /\ WF_vars(CreateNodeStatus)

FairSpec == Spec /\ Fairness

-----------------------------------------------------------------------------
(***************************************************************************)
(* Safety.                                                                 *)
(***************************************************************************)

\* Storage is never orphaned: a device that is a member of a managed volume
\* group belongs to an LVMVolumeGroup that still carries this node's cleanup
\* finalizer.  The volume group is created many steps, and possibly a deletion
\* request, after the finalizer was seen in a cache that may be stale.
HostVGGuarded == \A d \in Devices : disk[d] \in VGs => api[disk[d]].fin

\* Cleanup, device removal and wiping never take the volume group or the thin
\* pool away from under existing user volumes.
UserVolumesBacked ==
    \A v \in VGs : lv[v] => VGExists(v) /\ (v \in Thin => pool[v] # "none")

\* A class that is reported Ready and not being deleted has its volume group
\* and its thin pool.
ReadyIsBacked ==
    \A v \in VGs : status[v] = "Ready" /\ api[v].alive /\ ~api[v].deleting
                     => VGExists(v) /\ (v \in Thin => pool[v] # "none")

\* A status entry belongs to an object that carries the finalizer: no entry
\* outlives the cleanup of its volume group.
StatusGuarded == \A v \in VGs : status[v] # "none" => api[v].fin

\* While nothing is pending in the watcher, TopoLVM serves exactly the classes
\* of the file: every change of lvmd.yaml leads to a restart.
LoadedMatchesFile == watch = "on" /\ notify = "none" => loaded = lvmd.file

\* A member of a managed volume group is never wiped in place: it leaves the
\* volume group through vgreduce or vgremove only.
MembersNotWiped ==
    [][\A d \in Devices : disk[d] \in VGs => disk'[d] \in {disk[d], Orphan}]_vars

\* Data that is not LVM's is destroyed on request only: a device loses a foreign
\* signature in wipeDevices, and for an object that, as it was read, names the
\* device, asks for the wipe, has not been wiped and is not being deleted.
\* vgcreate and vgextend take no such device, although they work on a list that
\* was filtered before the status was updated.
ForeignDataKept ==
    [][\A d \in Devices : disk[d] = Foreign /\ disk'[d] # Foreign =>
         /\ disk'[d] = Blank
         /\ cur \in ForceWipe /\ d \in cached[cur].paths
         /\ cached[cur].alive /\ ~cached[cur].deleting /\ ~cached[cur].wiped]_vars

\* The cleanup finalizer is released only when the node is clean: no volume
\* group, no thin pool, no entry in lvmd.yaml, no status.
ReleaseIsClean ==
    [][\A v \in VGs : api[v].fin /\ ~api'[v].fin =>
         /\ Members(v) = {}
         /\ pool[v] = "none"
         /\ ~Listed(lvmd.file, v)
         /\ status[v] = "none"]_vars

\* The device set of a volume group without device paths is settled when the
\* volume group is created, if the discovery policy is static: a device that
\* appears or comes back later never joins.
StaticSetSettled ==
    [][\A v \in Static \ Selector :
         Members(v) # {} => Members(v)' \subseteq Members(v)]_vars

\* A RAID volume group never has fewer devices than its level needs, neither
\* after its creation nor after removing devices from it.
RaidHasMinimum ==
    \A v \in Raid : Members(v) # {} => Cardinality(Members(v)) >= MinDevices

-----------------------------------------------------------------------------
(***************************************************************************)
(* What the node promises, seen through the objects and the devices only.  *)
(***************************************************************************)

ObjectPhase(v) ==
    IF ~api[v].alive THEN "none" ELSE IF api[v].deleting THEN "deleting" ELSE "live"

Storage == INSTANCE NodeStorage WITH
    Classes <- VGs,
    object  <- [v \in VGs |-> ObjectPhase(v)],
    held    <- {v \in VGs : api[v].fin},
    built   <- {v \in VGs : Members(v) # {}},
    used    <- {v \in VGs : lv[v]}

\* The vgmanager keeps the promise of NodeStorage: through stale caches, restarts
\* and failing commands, storage is built under the finalizer only, torn down only
\* for a deletion and without user volumes, and released when it is gone.
StorageImplemented == Storage!Spec

-----------------------------------------------------------------------------
(***************************************************************************)
(* Liveness.                                                               *)
(***************************************************************************)

\* The object asks for a volume group this node can provide.
Wanted(v) ==
    /\ api[v].alive /\ ~api[v].deleting /\ matches
    /\ \A d \in api[v].paths : d \in attached /\ (disk[d] = Foreign => v \in ForceWipe)

\* A class that stays wanted is eventually and for good reported Ready and
\* served by TopoLVM, in spite of restarts, conflicts and failing calls.
EventuallyServed ==
    \A v \in VGs : <>[]Wanted(v) => <>[](status[v] = "Ready" /\ Listed(loaded, v))

\* A thin class that stays wanted, and has got its pool, is eventually and for
\* good reported Ready and served with the over-provisioning ratio of the object:
\* an edit of the ratio passes through the cache, lvmd.yaml and a restart.
RatioServed ==
    \A v \in Thin, r \in Ratios :
        <>[](Wanted(v) /\ pool[v] # "none" /\ api[v].ratio = r)
            => <>[](status[v] = "Ready" /\ loaded.ratio[v] = r)

\* The cleanup of a deleted object does not get stuck: the finalizer does not
\* stay forever when the node matches, no user volumes are left and no device of
\* the volume group is missing.
DeletionCompletes ==
    \A v \in VGs : []<>~(/\ api[v].deleting /\ api[v].fin /\ matches /\ ~lv[v]
                         /\ Members(v) \subseteq attached)

\* Every change of lvmd.yaml restarts the process: TopoLVM does not serve
\* another configuration forever.
ConfigurationServed == []<>(loaded = lvmd.file)

=============================================================================
