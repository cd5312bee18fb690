------------------------ MODULE VGManagerGuard_proofs ------------------------
(***************************************************************************)
(* The guards of VGManager hold for every number of classes and devices:   *)
(* no volume group and no status entry outlives the cleanup finalizer, and *)
(* no member of a volume group is wiped; foreign data is wiped on request. *)
(***************************************************************************)
EXTENDS VGManagerTypes_proofs

\* The provers a leaf is given to when it names none: most are first-order and
\* go to Zenon, the rest (arithmetic, records, sequences) to the SMT solver.
USE Zenon, SMTT(30)

-----------------------------------------------------------------------------
(***************************************************************************)
(* The inductive invariant.                                                *)
(***************************************************************************)

\* What an object, and a cached copy of it that asks for a volume group, say
\* about the object in the API server.
CacheFollows ==
    \A v \in VGs :
        /\ api[v].fin => api[v].alive
        /\ api[v].alive => api[v].paths \in ValidPaths(v)
        /\ cached[v].alive => cached[v].paths \in ValidPaths(v)
        /\ cached[v].alive /\ ~cached[v].deleting /\ cached[v].fin
             => api[v].fin /\ (cached[v].wiped => api[v].wiped)

\* A class with forceWipe has no optional paths. With them a wipe may fail for
\* every path, the volume group is created without the annotation, and its members
\* are wiped later.
NoOptionalWipe == \A d \in Optional : OwnerOf[d] \notin ForceWipe

\* The classes whose volume groups have been wiped when they are created.
WipedFirst == IF NoOptionalWipe THEN ForceWipe ELSE {}

\* A member of a volume group belongs to the class, has been wiped before it
\* joined if the class asks for it, and the volume group can be seen.
MembersFit ==
    \A d \in Devices : disk[d] \in VGs =>
        /\ disk[d] \in Selector => OwnerOf[d] = disk[d]
        /\ disk[d] \in WipedFirst => api[disk[d]].wiped /\ cached[disk[d]].wiped
        /\ \E e \in attached : disk[e] = disk[d]

\* Where no device is ever pulled, all are there.
AllAttached == "pull" \notin FaultKinds => attached = Devices

\* What the worker may rely on in each step.
WipedSteps == {"filter", "reduce", "relist", "progress", "addDevices", "addPool",
               "validate", "apply", "ready"}
HeldSteps == {"checkRetain", "deletePool", "deleteVG", "deletePVs"}
CleanedSteps == {"deletePVs", "deleteConf", "removeStatus", "removeFinalizer"}

WorkFits ==
    /\ pc \in CreateSteps => cached[cur].alive /\ ~cached[cur].deleting
    /\ pc \in CreateSteps \ {"addFinalizer"} => cached[cur].fin
    /\ pc \in DeleteSteps => cached[cur].deleting
    /\ pc = "wipe" => /\ cur \in ForceWipe /\ ~cached[cur].wiped
                      /\ todo \subseteq cached[cur].paths
                      /\ cur \in WipedFirst => todo # {} \/ changed
    /\ pc \in WipedSteps /\ cur \in WipedFirst => cached[cur].wiped
    /\ pc \in {"progress", "addDevices"} =>
         \A d \in todo : disk[d] \notin VGs /\ (cur \in Selector => OwnerOf[d] = cur)
    /\ pc \in HeldSteps => api[cur].fin
    /\ pc \in CleanedSteps => \A d \in Devices : disk[d] # cur
    /\ pc = "removeFinalizer" => status[cur] = "none"

Inv == /\ TypeOK /\ HostVGGuarded /\ StatusGuarded /\ CacheFollows
       /\ MembersFit /\ WorkFits /\ AllAttached

\* The assumption of the guards: wiping a member cannot hide the rest of its
\* volume group, because no member is wiped or no device is missing.
NoHiddenGroup == NoOptionalWipe \/ "pull" \notin FaultKinds

-----------------------------------------------------------------------------
(***************************************************************************)
(* Facts used by several actions.                                          *)
(***************************************************************************)

\* Nothing is said about an idle worker.
LEMMA IdleFits == pc' = "idle" => WorkFits'
BY DEF WorkFits, CreateSteps, DeleteSteps, WipedSteps, HeldSteps, CleanedSteps

LEMMA EndIsIdle == Done \/ Requeue => pc' = "idle"
BY DEF Done, Requeue, Finish

\* What the worker has in hand carries the finalizer.
LEMMA WorkIsGuarded ==
    ASSUME Inv, pc \in (CreateSteps \ {"addFinalizer"}) \cup HeldSteps
    PROVE  cur \in VGs /\ api[cur].fin
BY DEF Inv, TypeOK, CacheFollows, WorkFits, CreateSteps, HeldSteps

\* Steps that leave the objects and the devices alone.
LEMMA Frame ==
    ASSUME Inv, UNCHANGED <<api, cached, disk, attached>>
    PROVE  HostVGGuarded' /\ CacheFollows' /\ MembersFit'
BY DEF Inv, HostVGGuarded, CacheFollows, MembersFit

\* A status is only written for an object that carries the finalizer.
LEMMA StatusKept ==
    ASSUME Inv, UNCHANGED <<api, status>>
    PROVE  StatusGuarded'
BY DEF Inv, StatusGuarded

LEMMA StatusWritten ==
    ASSUME Inv, UNCHANGED api, cur \in VGs, api[cur].fin, NEW s,
           status' = [status EXCEPT ![cur] = s]
    PROVE  StatusGuarded'
BY DEF Inv, TypeOK, StatusGuarded

LEMMA FailedStatusWritten ==
    ASSUME Inv, UNCHANGED api, cur \in VGs, api[cur].fin, NEW pvs, FailedStatus(pvs)
    PROVE  StatusGuarded'
BY StatusKept, StatusWritten DEF FailedStatus

-----------------------------------------------------------------------------
(***************************************************************************)
(* The steps of a reconcile that leave the objects and the devices alone.  *)
(***************************************************************************)

Fits == HostVGGuarded /\ StatusGuarded /\ CacheFollows /\ MembersFit /\ WorkFits

LEMMA StartFits ==
    ASSUME Inv, NEW v \in VGs, StartReconcile(v)
    PROVE  Fits'
<1>1. UNCHANGED <<api, cached, disk, attached, status>>
  BY DEF StartReconcile, apiVars, hostVars
<1>2. WorkFits'
  BY <1>1 DEF Inv, TypeOK, StartReconcile, WorkFits, CreateSteps, DeleteSteps, WipedSteps,
     HeldSteps, CleanedSteps
<1> QED
  BY <1>1, <1>2, Frame, StatusKept DEF Fits

LEMMA InspectFits ==
    ASSUME Inv, Inspect
    PROVE  Fits'
<1>1. UNCHANGED <<api, cached, disk, attached>> /\ cur \in VGs /\ api[cur].fin
  BY WorkIsGuarded DEF Inspect, apiVars, hostVars, CreateSteps
<1>2. StatusGuarded'
  BY <1>1, StatusKept, FailedStatusWritten DEF Inspect
<1>3. WorkFits'
  <2>1. CASE Requeue
    BY <2>1, IdleFits, EndIsIdle
  <2>2. CASE ~Requeue
    <3>1. ASSUME ShouldWipeDevices(cur)
          PROVE  cached[cur].paths # {} /\ ~cached[cur].wiped /\ cur \in ForceWipe
      <4>1. cur \in ForceWipe /\ cur \in Selector /\ ~cached[cur].wiped
        BY <3>1, VGManagerAssumption DEF ShouldWipeDevices
      <4>2. cached[cur].paths \in ValidPaths(cur)
        BY <1>1 DEF Inv, CacheFollows, WorkFits, CreateSteps, Inspect
      <4> QED
        BY <4>1, <4>2 DEF ValidPaths
    <3>2. CASE ShouldWipeDevices(cur)
      BY <1>1, <2>2, <3>1, <3>2 DEF Inv, Inspect, Goto, WorkFits, CreateSteps, DeleteSteps, WipedSteps, HeldSteps, CleanedSteps
    <3>3. CASE ~ShouldWipeDevices(cur)
      <4>1. cur \in WipedFirst => cached[cur].wiped
        BY <3>3 DEF ShouldWipeDevices, WipedFirst
      <4> QED
        BY <1>1, <2>2, <3>3, <4>1 DEF Inv, Inspect, Goto, WorkFits, CreateSteps, DeleteSteps,
           WipedSteps, HeldSteps, CleanedSteps
    <3> QED
      BY <3>2, <3>3
  <2> QED
    BY <2>1, <2>2
<1> QED
  BY <1>1, <1>2, <1>3, Frame DEF Fits

LEMMA WipeDoneFits ==
    ASSUME Inv, WipeDone
    PROVE  Fits'
<1>1. UNCHANGED <<api, cached, disk, attached, status>>
  BY DEF WipeDone, apiVars, hostVars
<1>2. WorkFits'
  BY <1>1 DEF Inv, WipeDone, Goto, localVars, WorkFits, CreateSteps, DeleteSteps, WipedSteps, HeldSteps, CleanedSteps
<1> QED
  BY <1>1, <1>2, Frame, StatusKept DEF Fits

LEMMA FilterFits ==
    ASSUME Inv, FilterDevices
    PROVE  Fits'
<1>1. UNCHANGED <<api, cached, disk, attached>> /\ cur \in VGs /\ api[cur].fin
  BY WorkIsGuarded DEF FilterDevices, apiVars, hostVars, CreateSteps
<1>2. StatusGuarded'
  BY <1>1, StatusKept, FailedStatusWritten DEF FilterDevices
<1>3. \A d \in Available(cur) : disk[d] \notin VGs /\ (cur \in Selector => OwnerOf[d] = cur)
  BY <1>1, VGManagerAssumption
  DEF Inv, TypeOK, CacheFollows, WorkFits, CreateSteps, FilterDevices, Available, Discovered,
      Selected, Usable, ValidPaths
<1>4. WorkFits'
  <2>1. CASE Requeue
    BY <2>1, IdleFits, EndIsIdle
  <2>2. CASE ~Requeue
    BY <1>1, <1>3, <2>2 DEF Inv, FilterDevices, Goto, WorkFits, CreateSteps, DeleteSteps, WipedSteps, HeldSteps, CleanedSteps
  <2> QED
    BY <2>1, <2>2
<1> QED
  BY <1>1, <1>2, <1>4, Frame DEF Fits

LEMMA RelistFits ==
    ASSUME Inv, RelistVGs
    PROVE  Fits'
<1>1. UNCHANGED <<api, cached, disk, attached, status>>
  BY DEF RelistVGs, apiVars, hostVars
<1>2. StatusGuarded'
  BY <1>1, StatusKept
<1>3. WorkFits'
  <2>1. CASE Requeue
    BY <2>1, IdleFits, EndIsIdle
  <2>2. CASE ~Requeue
    BY <1>1, <2>2 DEF Inv, RelistVGs, Goto, localVars, WorkFits, CreateSteps, DeleteSteps, WipedSteps, HeldSteps, CleanedSteps
  <2> QED
    BY <2>1, <2>2
<1> QED
  BY <1>1, <1>2, <1>3, Frame DEF Fits

LEMMA ProgressFits ==
    ASSUME Inv, SetProgressing
    PROVE  Fits'
<1>1. UNCHANGED <<api, cached, disk, attached>> /\ cur \in VGs /\ api[cur].fin
  BY WorkIsGuarded DEF SetProgressing, apiVars, hostVars, CreateSteps
<1>2. StatusGuarded'
  BY <1>1, StatusKept, StatusWritten DEF SetProgressing
<1>3. WorkFits'
  <2>1. CASE Requeue
    BY <2>1, IdleFits, EndIsIdle
  <2>2. CASE ~Requeue
    BY <1>1, <2>2 DEF Inv, SetProgressing, Goto, localVars, WorkFits, CreateSteps, DeleteSteps, WipedSteps, HeldSteps, CleanedSteps
  <2> QED
    BY <2>1, <2>2
<1> QED
  BY <1>1, <1>2, <1>3, Frame DEF Fits

LEMMA PoolFits ==
    ASSUME Inv, AddThinPoolToVG
    PROVE  Fits'
<1>1. UNCHANGED <<api, cached, disk, attached>> /\ cur \in VGs /\ api[cur].fin
  BY WorkIsGuarded DEF AddThinPoolToVG, GiveUp, apiVars, hostVars, CreateSteps
<1>2. StatusGuarded'
  BY <1>1, StatusKept, FailedStatusWritten DEF AddThinPoolToVG, GiveUp
<1>3. WorkFits'
  <2>1. CASE Requeue
    BY <2>1, IdleFits, EndIsIdle
  <2>2. CASE ~Requeue
    BY <1>1, <2>2 DEF Inv, AddThinPoolToVG, GiveUp, Goto, localVars, WorkFits, CreateSteps, DeleteSteps, WipedSteps, HeldSteps, CleanedSteps
  <2> QED
    BY <2>1, <2>2
<1> QED
  BY <1>1, <1>2, <1>3, Frame DEF Fits

LEMMA ValidateFits ==
    ASSUME Inv, ValidateLVs
    PROVE  Fits'
<1>1. UNCHANGED <<api, cached, disk, attached>> /\ cur \in VGs /\ api[cur].fin
  BY WorkIsGuarded DEF ValidateLVs, GiveUp, apiVars, hostVars, CreateSteps
<1>2. StatusGuarded'
  BY <1>1, StatusKept, FailedStatusWritten DEF ValidateLVs, GiveUp
<1>3. WorkFits'
  <2>1. CASE Requeue
    BY <2>1, IdleFits, EndIsIdle
  <2>2. CASE ~Requeue
    BY <1>1, <2>2 DEF Inv, ValidateLVs, GiveUp, Goto, localVars, WorkFits, CreateSteps, DeleteSteps, WipedSteps, HeldSteps, CleanedSteps
  <2> QED
    BY <2>1, <2>2
<1> QED
  BY <1>1, <1>2, <1>3, Frame DEF Fits

LEMMA ApplyFits ==
    ASSUME Inv, ApplyLVMDConfig
    PROVE  Fits'
<1>1. UNCHANGED <<api, cached, disk, attached>> /\ cur \in VGs /\ api[cur].fin
  BY WorkIsGuarded DEF ApplyLVMDConfig, apiVars, hostVars, CreateSteps
<1>2. StatusGuarded'
  BY <1>1, StatusKept, FailedStatusWritten DEF ApplyLVMDConfig, GiveUp
<1>3. WorkFits'
  <2>1. CASE Requeue
    BY <2>1, IdleFits, EndIsIdle
  <2>2. CASE ~Requeue
    BY <1>1, <2>2 DEF Inv, ApplyLVMDConfig, Goto, localVars, WorkFits, CreateSteps, DeleteSteps, WipedSteps, HeldSteps, CleanedSteps
  <2> QED
    BY <2>1, <2>2
<1> QED
  BY <1>1, <1>2, <1>3, Frame DEF Fits

LEMMA ReadyFits ==
    ASSUME Inv, SetReady
    PROVE  Fits'
<1>1. UNCHANGED <<api, cached, disk, attached>> /\ cur \in VGs /\ api[cur].fin
  BY WorkIsGuarded DEF SetReady, apiVars, hostVars, CreateSteps
<1>2. StatusGuarded'
  BY <1>1, StatusKept, StatusWritten DEF SetReady
<1>3. WorkFits'
  BY IdleFits DEF SetReady, Requeue, Finish
<1> QED
  BY <1>1, <1>2, <1>3, Frame DEF Fits

LEMMA LoadConfFits ==
    ASSUME Inv, LoadConf
    PROVE  Fits'
<1>1. UNCHANGED <<api, cached, disk, attached, status>> /\ cur \in VGs
  BY DEF LoadConf, apiVars, hostVars, Inv, TypeOK
<1>2. WorkFits'
  <2>1. CASE Requeue
    BY <2>1, IdleFits, EndIsIdle
  <2>2. CASE ~Requeue
    <3>1. CASE CleanupNeeded(cur)
      <4>1. PICK d \in Devices : disk[d] = cur
        BY <3>1 DEF CleanupNeeded, VGExists, ListPVs, Members
      <4>2. api[cur].fin
        BY <1>1, <4>1 DEF Inv, HostVGGuarded
      <4> QED
        BY <1>1, <2>2, <3>1, <4>2 DEF Inv, LoadConf, Goto, WorkFits, CreateSteps, DeleteSteps, WipedSteps, HeldSteps, CleanedSteps
    <3>2. CASE ~CleanupNeeded(cur)
      <4>1. \A d \in Devices : disk[d] # cur
        BY <1>1, <3>2
        DEF Inv, TypeOK, MembersFit, CleanupNeeded, VGExists, ListPVs, Members
      <4> QED
        BY <1>1, <2>2, <3>2, <4>1 DEF Inv, LoadConf, Goto, WorkFits, CreateSteps, DeleteSteps, WipedSteps, HeldSteps, CleanedSteps
    <3> QED
      BY <3>1, <3>2
  <2> QED
    BY <2>1, <2>2
<1> QED
  BY <1>1, <1>2, Frame, StatusKept DEF Fits

LEMMA CheckRetainFits ==
    ASSUME Inv, CheckRetain
    PROVE  Fits'
<1>1. UNCHANGED <<api, cached, disk, attached, status>>
  BY DEF CheckRetain, apiVars, hostVars
<1>2. WorkFits'
  <2>1. CASE Requeue
    BY <2>1, IdleFits, EndIsIdle
  <2>2. CASE ~Requeue
    BY <1>1, <2>2 DEF Inv, CheckRetain, Goto, WorkFits, CreateSteps, DeleteSteps, WipedSteps, HeldSteps, CleanedSteps
  <2> QED
    BY <2>1, <2>2
<1> QED
  BY <1>1, <1>2, Frame, StatusKept DEF Fits

LEMMA DeletePoolFits ==
    ASSUME Inv, DeletePool
    PROVE  Fits'
<1>1. UNCHANGED <<api, cached, disk, attached>> /\ cur \in VGs /\ api[cur].fin
  BY WorkIsGuarded DEF DeletePool, GiveUp, apiVars, hostVars, HeldSteps
<1>2. StatusGuarded'
  BY <1>1, StatusKept, FailedStatusWritten DEF DeletePool, GiveUp
<1>3. WorkFits'
  <2>1. CASE Requeue
    BY <2>1, IdleFits, EndIsIdle
  <2>2. CASE ~Requeue
    BY <1>1, <2>2 DEF Inv, DeletePool, GiveUp, Goto, WorkFits, CreateSteps, DeleteSteps, WipedSteps, HeldSteps, CleanedSteps
  <2> QED
    BY <2>1, <2>2
<1> QED
  BY <1>1, <1>2, <1>3, Frame DEF Fits

LEMMA DeleteConfFits ==
    ASSUME Inv, DeleteConf
    PROVE  Fits'
<1>1. UNCHANGED <<api, cached, disk, attached, status>>
  BY DEF DeleteConf, apiVars, hostVars
<1>2. WorkFits'
  <2>1. CASE Requeue
    BY <2>1, IdleFits, EndIsIdle
  <2>2. CASE ~Requeue
    BY <1>1, <2>2 DEF Inv, DeleteConf, Goto, WorkFits, CreateSteps, DeleteSteps, WipedSteps, HeldSteps, CleanedSteps
  <2> QED
    BY <2>1, <2>2
<1> QED
  BY <1>1, <1>2, Frame, StatusKept DEF Fits

LEMMA RemoveStatusFits ==
    ASSUME Inv, RemoveVolumeGroupStatus
    PROVE  Fits'
<1>1. UNCHANGED <<api, cached, disk, attached>> /\ cur \in VGs
  BY DEF RemoveVolumeGroupStatus, apiVars, hostVars, Inv, TypeOK
<1>2. StatusGuarded'
  BY <1>1 DEF Inv, TypeOK, StatusGuarded, RemoveVolumeGroupStatus
<1>3. WorkFits'
  <2>1. CASE Requeue
    BY <2>1, IdleFits, EndIsIdle
  <2>2. CASE ~Requeue
    <3>1. status'[cur] = "none" /\ Goto("removeFinalizer") /\ pc = "removeStatus"
      BY <1>1, <2>2 DEF Inv, TypeOK, RemoveVolumeGroupStatus
    <3>2. cached[cur].deleting /\ \A d \in Devices : disk[d] # cur
      BY <3>1 DEF Inv, WorkFits, DeleteSteps, CleanedSteps
    <3> QED
      BY <1>1, <3>1, <3>2 DEF Goto, WorkFits, CreateSteps, WipedSteps, HeldSteps
  <2> QED
    BY <2>1, <2>2
<1> QED
  BY <1>1, <1>2, <1>3, Frame DEF Fits

-----------------------------------------------------------------------------
(***************************************************************************)
(* The updates of the object in work.                                      *)
(***************************************************************************)

\* An update that succeeds starts from the current object.
LEMMA UpdateCases ==
    ASSUME NEW objs, UpdateObject(objs)
    PROVE  /\ UNCHANGED <<cached, disk, attached, status>>
           /\ pc' = "idle"
           /\ \/ UNCHANGED api
              \/ cached[cur] = api[cur] /\ \E o \in objs : api' = [api EXCEPT ![cur] = o]
BY EndIsIdle DEF UpdateObject, UpdateOK, Conflict, hostVars

LEMMA AddFinalizerFits ==
    ASSUME Inv, AddFinalizer
    PROVE  Fits'
<1> DEFINE o == [cached[cur] EXCEPT !.fin = TRUE]
<1>1. /\ UNCHANGED <<cached, disk, attached, status>> /\ pc' = "idle"
      /\ api' = api \/ (cached[cur] = api[cur] /\ api' = [api EXCEPT ![cur] = o])
  BY UpdateCases DEF AddFinalizer
<1>2. cur \in VGs /\ cached[cur] \in Objects /\ cached[cur].alive
  BY DEF Inv, TypeOK, AddFinalizer, WorkFits, CreateSteps
<1>3. CASE api' = api
  BY <1>1, <1>3, Frame, StatusKept, IdleFits DEF Fits
<1>4. CASE cached[cur] = api[cur] /\ api' = [api EXCEPT ![cur] = o]
  <2>1. /\ o.fin /\ o.alive = cached[cur].alive /\ o.wiped = cached[cur].wiped
        /\ o.paths = cached[cur].paths
    BY <1>2 DEF Objects
  <2>2. HostVGGuarded' /\ StatusGuarded'
    BY <1>1, <1>2, <1>4, <2>1 DEF Inv, TypeOK, HostVGGuarded, StatusGuarded
  <2>3. CacheFollows'
    BY <1>1, <1>2, <1>4, <2>1 DEF Inv, TypeOK, CacheFollows
  <2>4. MembersFit'
    BY <1>1, <1>2, <1>4, <2>1 DEF Inv, TypeOK, MembersFit
  <2> QED
    BY <1>1, <2>2, <2>3, <2>4, IdleFits DEF Fits
<1> QED
  BY <1>1, <1>3, <1>4

LEMMA AnnotateFits ==
    ASSUME Inv, Annotate
    PROVE  Fits'
<1> DEFINE o == [cached[cur] EXCEPT !.wiped = TRUE]
<1>1. /\ UNCHANGED <<cached, disk, attached, status>> /\ pc' = "idle"
      /\ api' = api \/ (cached[cur] = api[cur] /\ api' = [api EXCEPT ![cur] = o])
  BY UpdateCases DEF Annotate
<1>2. cur \in VGs /\ cached[cur] \in Objects
  BY DEF Inv, TypeOK, Annotate
<1>3. CASE api' = api
  BY <1>1, <1>3, Frame, StatusKept, IdleFits DEF Fits
<1>4. CASE cached[cur] = api[cur] /\ api' = [api EXCEPT ![cur] = o]
  <2>1. /\ o.wiped /\ o.alive = cached[cur].alive /\ o.fin = cached[cur].fin
        /\ o.paths = cached[cur].paths
    BY <1>2 DEF Objects
  <2>2. HostVGGuarded' /\ StatusGuarded'
    BY <1>1, <1>2, <1>4, <2>1 DEF Inv, TypeOK, HostVGGuarded, StatusGuarded
  <2>3. CacheFollows'
    BY <1>1, <1>2, <1>4, <2>1 DEF Inv, TypeOK, CacheFollows
  <2>4. MembersFit'
    BY <1>1, <1>2, <1>4, <2>1 DEF Inv, TypeOK, MembersFit
  <2> QED
    BY <1>1, <2>2, <2>3, <2>4, IdleFits DEF Fits
<1> QED
  BY <1>1, <1>3, <1>4

LEMMA RemoveFinalizerFits ==
    ASSUME Inv, RemoveFinalizer
    PROVE  Fits'
<1> DEFINE held == [cached[cur] EXCEPT !.fin = FALSE]
<1>1. /\ UNCHANGED <<cached, disk, attached, status>> /\ pc' = "idle"
      /\ \/ api' = api
         \/ cached[cur] = api[cur] /\ \E o \in {NoObject, held} : api' = [api EXCEPT ![cur] = o]
  BY UpdateCases, EndIsIdle DEF RemoveFinalizer, apiVars, hostVars
<1>2. /\ cur \in VGs /\ cached[cur] \in Objects /\ cached[cur].deleting
      /\ status[cur] = "none" /\ \A d \in Devices : disk[d] # cur
  BY DEF Inv, TypeOK, RemoveFinalizer, WorkFits, DeleteSteps, CleanedSteps
<1>3. CASE api' = api
  BY <1>1, <1>3, Frame, StatusKept, IdleFits DEF Fits
<1>4. ASSUME cached[cur] = api[cur], NEW o \in {NoObject, held}, api' = [api EXCEPT ![cur] = o]
      PROVE  Fits'
  <2>1. ~o.fin /\ (o.alive => cached[cur].alive /\ o.paths = cached[cur].paths)
    BY <1>2 DEF Objects, NoObject
  <2>2. HostVGGuarded' /\ StatusGuarded'
    BY <1>1, <1>2, <1>4, <2>1 DEF Inv, TypeOK, HostVGGuarded, StatusGuarded
  <2>3. CacheFollows'
    BY <1>1, <1>2, <1>4, <2>1 DEF Inv, TypeOK, CacheFollows
  <2>4. MembersFit'
    BY <1>1, <1>2, <1>4, <2>1 DEF Inv, TypeOK, MembersFit
  <2> QED
    BY <1>1, <2>2, <2>3, <2>4, IdleFits DEF Fits
<1> QED
  BY <1>1, <1>3, <1>4

-----------------------------------------------------------------------------
(***************************************************************************)
(* The steps that change devices.                                          *)
(***************************************************************************)

LEMMA NoVGContents == Blank \notin VGs /\ Foreign \notin VGs /\ Orphan \notin VGs
BY VGManagerAssumption

\* Steps that change no member of a volume group and make no new one.
LEMMA MembersKept ==
    ASSUME Inv, UNCHANGED <<api, cached, attached>>,
           \A d \in Devices : disk[d] \in VGs \/ disk'[d] \in VGs => disk'[d] = disk[d]
    PROVE  HostVGGuarded' /\ CacheFollows' /\ MembersFit'
<1>1. attached \subseteq Devices
  BY DEF Inv, TypeOK
<1>2. HostVGGuarded' /\ CacheFollows'
  BY DEF Inv, HostVGGuarded, CacheFollows
<1>3. MembersFit'
  <2> SUFFICES ASSUME NEW e \in Devices, disk'[e] \in VGs
               PROVE  /\ disk'[e] \in Selector => OwnerOf[e] = disk'[e]
                      /\ disk'[e] \in WipedFirst => api[disk'[e]].wiped /\ cached[disk'[e]].wiped
                      /\ \E a \in attached : disk'[a] = disk'[e]
    BY DEF MembersFit
  <2>1. disk'[e] = disk[e]
    OBVIOUS
  <2>2. PICK a \in attached : disk[a] = disk[e]
    BY <2>1 DEF Inv, MembersFit
  <2>3. disk'[a] = disk[a]
    BY <1>1, <2>1, <2>2
  <2> QED
    BY <2>1, <2>2, <2>3 DEF Inv, MembersFit
<1> QED
  BY <1>2, <1>3

\* A path that is about to be wiped is no member: if its own class had taken
\* it the class would have been wiped before, and no other class may name it.
LEMMA WipedBelongs ==
    ASSUME Inv, pc = "wipe", NEW d \in todo
    PROVE  d \in Devices /\ OwnerOf[d] = cur /\ cur \in ForceWipe /\ ~cached[cur].wiped
<1>1. cur \in VGs /\ cur \in ForceWipe /\ cur \in Selector /\ ~cached[cur].wiped
  BY VGManagerAssumption DEF Inv, TypeOK, WorkFits
<1>2. d \in cached[cur].paths /\ cached[cur].paths \in ValidPaths(cur)
  BY <1>1 DEF Inv, WorkFits, CacheFollows, CreateSteps
<1>3. d \in Devices /\ OwnerOf[d] = cur
  BY <1>1, <1>2 DEF ValidPaths
<1> QED
  BY <1>1, <1>3

LEMMA WipedIsNoMember ==
    ASSUME NoOptionalWipe, Inv, pc = "wipe", NEW d \in todo
    PROVE  d \in Devices /\ OwnerOf[d] \in ForceWipe /\ disk[d] \notin VGs
<1>1. d \in Devices /\ OwnerOf[d] = cur /\ cur \in ForceWipe /\ ~cached[cur].wiped
  BY WipedBelongs
<1>2. ASSUME disk[d] \in VGs PROVE FALSE
  <2>1. cur \in VGs /\ cur \in WipedFirst
    BY <1>1, VGManagerAssumption DEF WipedFirst
  <2>2. disk[d] # cur
    BY <1>1, <1>2, <2>1 DEF Inv, MembersFit
  <2>3. disk[d] \in Selector
    BY <1>2, <2>1, <2>2, VGManagerAssumption
  <2> QED
    BY <1>1, <1>2, <2>2, <2>3 DEF Inv, MembersFit
<1> QED
  BY <1>1, <1>2

\* If a member is wiped all the same, the rest of its volume group can be seen.
LEMMA WipeDeviceFits ==
    ASSUME NoHiddenGroup, Inv, NEW d \in Devices, WipeDevice(d)
    PROVE  Fits'
<1>1. UNCHANGED <<api, cached, attached, status>> /\ pc = "wipe" /\ d \in todo
  BY DEF WipeDevice, apiVars
<1>2. HostVGGuarded' /\ CacheFollows' /\ MembersFit'
  <2>1. CASE NoOptionalWipe
    <3>1. disk[d] \notin VGs
      BY <1>1, <2>1, WipedIsNoMember
    <3>2. \A e \in Devices : disk[e] \in VGs \/ disk'[e] \in VGs => disk'[e] = disk[e]
      BY <3>1, NoVGContents DEF Inv, TypeOK, WipeDevice
    <3> QED
      BY <1>1, <3>2, MembersKept
  <2>2. CASE ~NoOptionalWipe
    <3>1. attached = Devices
      BY <2>2 DEF NoHiddenGroup, Inv, AllAttached
    <3>2. \A e \in Devices : disk'[e] \in VGs => disk'[e] = disk[e]
      BY NoVGContents DEF Inv, TypeOK, WipeDevice
    <3>3. HostVGGuarded' /\ CacheFollows'
      BY <1>1, <3>2 DEF Inv, HostVGGuarded, CacheFollows
    <3>4. MembersFit'
      BY <1>1, <2>2, <3>1, <3>2 DEF Inv, MembersFit, WipedFirst
    <3> QED
      BY <3>3, <3>4
  <2> QED
    BY <2>1, <2>2
<1>3. cur \in WipedFirst => d \notin Optional
  BY <1>1, WipedBelongs DEF WipedFirst, NoOptionalWipe
<1>4. WorkFits'
  <2>1. CASE Requeue
    BY <2>1, IdleFits, EndIsIdle
  <2>2. CASE ~Requeue
    BY <1>1, <1>3, <2>2 DEF Inv, WipeDevice, Goto, WorkFits, CreateSteps, DeleteSteps, WipedSteps,
       HeldSteps, CleanedSteps
  <2> QED
    BY <2>1, <2>2
<1> QED
  BY <1>1, <1>2, <1>4, StatusKept DEF Fits

LEMMA ReduceFits ==
    ASSUME Inv, NEW d \in Devices, ReduceVG(d)
    PROVE  Fits'
<1>1. UNCHANGED <<api, cached, attached>> /\ cur \in VGs /\ api[cur].fin /\ pc = "reduce"
  BY WorkIsGuarded DEF ReduceVG, GiveUp, apiVars, CreateSteps
<1>2. CASE GiveUp /\ UNCHANGED disk
  BY <1>1, <1>2, Frame, FailedStatusWritten, IdleFits, EndIsIdle DEF GiveUp, Fits
<1>3. CASE /\ ~IsMissingDevices(cur) /\ disk[d] = cur /\ disk' = [disk EXCEPT ![d] = Orphan]
           /\ Goto("reduce") /\ UNCHANGED <<status, todo, listed, conf, changed>>
  <2>1. HostVGGuarded' /\ CacheFollows'
    BY <1>1, <1>3, NoVGContents DEF Inv, TypeOK, HostVGGuarded, CacheFollows
  <2>2. MembersFit'
    <3> SUFFICES ASSUME NEW e \in Devices, disk'[e] \in VGs
                 PROVE  /\ disk'[e] \in Selector => OwnerOf[e] = disk'[e]
                        /\ disk'[e] \in WipedFirst => api[disk'[e]].wiped /\ cached[disk'[e]].wiped
                        /\ \E a \in attached : disk'[a] = disk'[e]
      BY <1>1 DEF MembersFit
    <3>1. e # d /\ disk'[e] = disk[e]
      BY <1>3, NoVGContents DEF Inv, TypeOK
    <3>2. CASE disk[e] = cur
      <4>1. e \in attached
        <5>1. VGExists(cur)
          BY <1>1, <3>2 DEF Inv, TypeOK, MembersFit, VGExists, ListPVs, Members
        <5> QED
          BY <1>3, <3>2, <5>1 DEF IsMissingDevices, Members
      <4> QED
        BY <3>1, <4>1 DEF Inv, MembersFit
    <3>3. CASE disk[e] # cur
      <4>1. PICK a \in attached : disk[a] = disk[e]
        BY <3>1 DEF Inv, MembersFit
      <4>2. disk'[a] = disk[a]
        BY <1>3, <3>3, <4>1 DEF Inv, TypeOK
      <4> QED
        BY <3>1, <4>1, <4>2 DEF Inv, MembersFit
    <3> QED
      BY <3>2, <3>3
  <2>3. WorkFits'
    BY <1>1, <1>3 DEF Inv, Goto, WorkFits, CreateSteps, DeleteSteps, WipedSteps, HeldSteps,
          CleanedSteps
  <2> QED
    BY <1>1, <1>3, <2>1, <2>2, <2>3, StatusKept DEF Fits
<1> QED
  BY <1>2, <1>3 DEF ReduceVG, localVars

LEMMA RemovePVFits ==
    ASSUME Inv, NEW d \in Devices, RemovePV(d)
    PROVE  Fits'
<1>1. UNCHANGED <<api, cached, attached, status>>
  BY DEF RemovePV, apiVars
<1>2. \A e \in Devices : disk[e] \in VGs \/ disk'[e] \in VGs => disk'[e] = disk[e]
  BY NoVGContents DEF Inv, TypeOK, RemovePV
<1>3. WorkFits'
  BY <1>1 DEF Inv, RemovePV, Goto, WorkFits, CreateSteps, DeleteSteps, WipedSteps, HeldSteps,
          CleanedSteps
<1> QED
  BY <1>1, <1>2, <1>3, MembersKept, StatusKept DEF Fits

LEMMA AddDevicesFits ==
    ASSUME Inv, AddDevicesToVG
    PROVE  Fits'
<1>1. UNCHANGED <<api, cached, attached>> /\ cur \in VGs /\ api[cur].fin /\ pc = "addDevices"
  BY WorkIsGuarded DEF AddDevicesToVG, GiveUp, apiVars, CreateSteps
<1>2. CASE GiveUp /\ UNCHANGED disk
  BY <1>1, <1>2, Frame, FailedStatusWritten, IdleFits, EndIsIdle DEF GiveUp, Fits
<1>3. CASE /\ todo \subseteq attached
           /\ disk' = [d \in Devices |-> IF d \in todo THEN cur ELSE disk[d]]
           /\ todo' = {} /\ Goto(IF cur \in Thin THEN "addPool" ELSE "relist")
           /\ UNCHANGED status
  <2>1. \A d \in todo : disk[d] \notin VGs /\ (cur \in Selector => OwnerOf[d] = cur)
    BY <1>1 DEF Inv, WorkFits
  <2>2. cur \in WipedFirst => api[cur].wiped /\ cached[cur].wiped
    BY <1>1 DEF Inv, WorkFits, WipedSteps, CacheFollows, CreateSteps
  <2>3. HostVGGuarded' /\ CacheFollows'
    BY <1>1, <1>3 DEF Inv, HostVGGuarded, CacheFollows
  <2>4. MembersFit'
    <3> SUFFICES ASSUME NEW e \in Devices, disk'[e] \in VGs
                 PROVE  /\ disk'[e] \in Selector => OwnerOf[e] = disk'[e]
                        /\ disk'[e] \in WipedFirst => api[disk'[e]].wiped /\ cached[disk'[e]].wiped
                        /\ \E a \in attached : disk'[a] = disk'[e]
      BY <1>1 DEF MembersFit
    <3>1. CASE e \in todo
      BY <1>3, <2>1, <2>2, <3>1
    <3>2. CASE e \notin todo
      <4>1. disk'[e] = disk[e]
        BY <1>3, <3>2
      <4>2. PICK a \in attached : disk[a] = disk[e]
        BY <4>1 DEF Inv, MembersFit
      <4>3. disk'[a] = disk[a]
        BY <1>3, <2>1, <4>1, <4>2 DEF Inv, TypeOK
      <4> QED
        BY <4>1, <4>2, <4>3 DEF Inv, MembersFit
    <3> QED
      BY <3>1, <3>2
  <2>5. WorkFits'
    BY <1>1, <1>3 DEF Inv, Goto, WorkFits, CreateSteps, DeleteSteps, WipedSteps, HeldSteps,
          CleanedSteps
  <2> QED
    BY <1>1, <1>3, <2>3, <2>4, <2>5, StatusKept DEF Fits
<1> QED
  BY <1>2, <1>3 DEF AddDevicesToVG

LEMMA DeleteVGFits ==
    ASSUME Inv, DeleteVG
    PROVE  Fits'
<1>1. UNCHANGED <<api, cached, attached>> /\ cur \in VGs /\ api[cur].fin /\ pc = "deleteVG"
  BY WorkIsGuarded DEF DeleteVG, GiveUp, apiVars, HeldSteps
<1>2. CASE GiveUp /\ UNCHANGED disk
  BY <1>1, <1>2, Frame, FailedStatusWritten, IdleFits, EndIsIdle DEF GiveUp, Fits
<1>3. CASE /\ disk' = [d \in Devices |-> IF disk[d] = cur THEN Orphan ELSE disk[d]]
           /\ Goto("deletePVs") /\ UNCHANGED status
  <2>1. \A d \in Devices : /\ disk'[d] # cur
                           /\ disk'[d] \in VGs => disk'[d] = disk[d]
                           /\ disk[d] # cur => disk'[d] = disk[d]
    BY <1>1, <1>3, NoVGContents
  <2>2. HostVGGuarded' /\ CacheFollows'
    BY <1>1, <2>1 DEF Inv, HostVGGuarded, CacheFollows
  <2>3. MembersFit'
    <3> SUFFICES ASSUME NEW e \in Devices, disk'[e] \in VGs
                 PROVE  /\ disk'[e] \in Selector => OwnerOf[e] = disk'[e]
                        /\ disk'[e] \in WipedFirst => api[disk'[e]].wiped /\ cached[disk'[e]].wiped
                        /\ \E a \in attached : disk'[a] = disk'[e]
      BY <1>1 DEF MembersFit
    <3>1. disk'[e] = disk[e] /\ disk[e] # cur
      BY <2>1
    <3>2. PICK a \in attached : disk[a] = disk[e]
      BY <3>1 DEF Inv, MembersFit
    <3>3. disk'[a] = disk[a]
      BY <2>1, <3>1, <3>2 DEF Inv, TypeOK
    <3> QED
      BY <3>1, <3>2, <3>3 DEF Inv, MembersFit
  <2>4. WorkFits'
    BY <1>1, <1>3, <2>1 DEF Inv, Goto, WorkFits, CreateSteps, DeleteSteps, WipedSteps, HeldSteps,
          CleanedSteps
  <2> QED
    BY <1>1, <1>3, <2>2, <2>3, <2>4, StatusKept DEF Fits
<1> QED
  BY <1>2, <1>3 DEF DeleteVG

LEMMA DeletePVsFits ==
    ASSUME Inv, DeletePVs
    PROVE  Fits'
<1>1. UNCHANGED <<api, cached, attached>> /\ cur \in VGs /\ api[cur].fin /\ pc = "deletePVs"
  BY WorkIsGuarded DEF DeletePVs, GiveUp, apiVars, HeldSteps
<1>2. \A d \in Devices : disk[d] \in VGs \/ disk'[d] \in VGs => disk'[d] = disk[d]
  BY NoVGContents DEF DeletePVs
<1>3. CASE GiveUp
  BY <1>1, <1>2, <1>3, MembersKept, FailedStatusWritten, IdleFits, EndIsIdle DEF GiveUp, Fits
<1>4. CASE Goto("deleteConf") /\ UNCHANGED status
  <2>1. WorkFits'
    BY <1>1, <1>2, <1>4 DEF Inv, Goto, WorkFits, CreateSteps, DeleteSteps, WipedSteps, HeldSteps,
          CleanedSteps
  <2> QED
    BY <1>1, <1>2, <1>4, <2>1, MembersKept, StatusKept DEF Fits
<1> QED
  BY <1>3, <1>4 DEF DeletePVs

-----------------------------------------------------------------------------
(***************************************************************************)
(* The process, the operator and the environment.                          *)
(***************************************************************************)

\* A new process starts from the current objects.
LEMMA BootFits ==
    ASSUME Inv, NEW f, Boot(f)
    PROVE  Fits'
<1>1. UNCHANGED <<api, status, disk, attached>> /\ cached' = api /\ pc' = "idle"
  BY DEF Boot
<1>2. HostVGGuarded' /\ StatusGuarded'
  BY <1>1 DEF Inv, HostVGGuarded, StatusGuarded
<1>3. CacheFollows'
  BY <1>1 DEF Inv, CacheFollows
<1>4. MembersFit'
  BY <1>1 DEF Inv, MembersFit
<1> QED
  BY <1>1, <1>2, <1>3, <1>4, IdleFits DEF Fits

LEMMA ProcessFits ==
    ASSUME Inv, Process
    PROVE  Fits'
<1>1. CASE AddWatch \/ CancelContext
  <2>1. UNCHANGED <<api, cached, disk, attached, status, pc, cur, todo, changed>>
    BY <1>1 DEF AddWatch, CancelContext, apiVars, hostVars, workVars, localVars
  <2>2. WorkFits'
    BY <2>1 DEF Inv, WorkFits
  <2> QED
    BY <2>1, <2>2, Frame, StatusKept DEF Fits
<1>2. CASE ExitAndRestart \/ Crash \/ Reboot
  BY <1>2, BootFits DEF ExitAndRestart, Crash, Reboot
<1> QED
  BY <1>1, <1>2 DEF Process

\* An object of class v becomes o: what o has to keep of the old one.
LEMMA ObjectChanged ==
    ASSUME Inv, NEW v \in VGs, NEW o, api' = [api EXCEPT ![v] = o],
           UNCHANGED <<cached, disk, attached, status, pc, cur, todo, changed>>,
           o.fin <=> api[v].fin, o.fin => o.alive, o.fin => o.wiped = api[v].wiped,
           o.alive => o.paths \in ValidPaths(v)
    PROVE  Fits'
<1>1. api'[v] = o /\ \A u \in VGs : u # v => api'[u] = api[u]
  BY DEF Inv, TypeOK
<1>2. \A u \in VGs : (api'[u].fin <=> api[u].fin) /\ (api'[u].fin => api'[u].wiped = api[u].wiped)
  BY <1>1
<1>3. HostVGGuarded' /\ StatusGuarded'
  BY <1>2 DEF Inv, HostVGGuarded, StatusGuarded
<1>4. CacheFollows'
  BY <1>1, <1>2 DEF Inv, CacheFollows
<1>5. MembersFit'
  BY <1>2 DEF Inv, MembersFit, HostVGGuarded
<1>6. WorkFits'
  BY <1>2 DEF Inv, TypeOK, WorkFits, HeldSteps, CreateSteps
<1> QED
  BY <1>3, <1>4, <1>5, <1>6 DEF Fits

LEMMA OperatorFits ==
    ASSUME Inv, Operator
    PROVE  Fits'
<1>1. UNCHANGED <<cached, disk, attached, status, pc, cur, todo, changed>>
  BY DEF Operator, CreateNodeStatus, CreateVolumeGroup, EditVolumeGroup, DeleteVolumeGroup,
     OtherNodesDone, SetStorageClass, operatorUnchanged, hostVars, workVars, localVars
<1>2. ASSUME UNCHANGED api PROVE Fits'
  <2>1. WorkFits'
    BY <1>1, <1>2 DEF Inv, WorkFits
  <2> QED
    BY <1>1, <1>2, <2>1, Frame, StatusKept DEF Fits
<1>3. ASSUME NEW v \in VGs, CreateVolumeGroup(v) PROVE Fits'
  <2>1. PICK p \in ValidPaths(v), r \in Ratios :
          api' = [api EXCEPT ![v] = [NoObject EXCEPT !.alive = TRUE, !.paths = p, !.ratio = r]]
    BY <1>3 DEF CreateVolumeGroup
  <2> DEFINE o == [NoObject EXCEPT !.alive = TRUE, !.paths = p, !.ratio = r]
  <2>2. o.alive /\ ~o.fin /\ o.paths = p
    BY DEF NoObject
  <2>3. ~api[v].fin
    BY <1>3 DEF Inv, CacheFollows, CreateVolumeGroup
  <2> QED
    BY <1>1, <2>1, <2>2, <2>3, ObjectChanged
<1>4. ASSUME NEW v \in VGs, EditVolumeGroup(v) PROVE Fits'
  <2>1. PICK p \in ValidPaths(v), r \in Ratios : api' = [api EXCEPT ![v].paths = p, ![v].ratio = r]
    BY <1>4 DEF EditVolumeGroup
  <2> DEFINE o == [api[v] EXCEPT !.paths = p, !.ratio = r]
  <2>2. api' = [api EXCEPT ![v] = o]
    BY <2>1 DEF Inv, TypeOK
  <2>3. o.alive = api[v].alive /\ o.fin = api[v].fin /\ o.wiped = api[v].wiped /\ o.paths = p
    BY DEF Inv, TypeOK, Objects
  <2>4. api[v].fin => api[v].alive
    BY DEF Inv, CacheFollows
  <2> HIDE DEF o
  <2> QED
    BY <1>1, <2>2, <2>3, <2>4, ObjectChanged
<1>5. ASSUME NEW v \in VGs, DeleteVolumeGroup(v) PROVE Fits'
  <2> DEFINE marked == [api[v] EXCEPT !.deleting = TRUE]
  <2>1. \/ api' = [api EXCEPT ![v] = marked]
        \/ ~api[v].fin /\ api' = [api EXCEPT ![v] = NoObject]
    BY <1>5 DEF DeleteVolumeGroup
  <2>2. /\ marked.alive = api[v].alive /\ marked.fin = api[v].fin
        /\ marked.wiped = api[v].wiped /\ marked.paths = api[v].paths
        /\ ~NoObject.fin /\ ~NoObject.alive
    BY DEF Inv, TypeOK, Objects, NoObject
  <2>3. (api[v].fin => api[v].alive) /\ (api[v].alive => api[v].paths \in ValidPaths(v))
    BY DEF Inv, CacheFollows
  <2> HIDE DEF marked
  <2> QED
    BY <1>1, <2>1, <2>2, <2>3, ObjectChanged
<1>6. ASSUME NEW v \in VGs, OtherNodesDone(v) PROVE Fits'
  <2>1. ~NoObject.fin /\ ~NoObject.alive
    BY DEF NoObject
  <2> QED
    BY <1>1, <1>6, <2>1, ObjectChanged DEF OtherNodesDone
<1>7. CASE CreateNodeStatus \/ \E v \in VGs : SetStorageClass(v)
  BY <1>2, <1>7 DEF CreateNodeStatus, SetStorageClass
<1> QED
  BY <1>3, <1>4, <1>5, <1>6, <1>7 DEF Operator

\* The informer's copy of a class that is not in work becomes the current one.
LEMMA SyncCacheFits ==
    ASSUME Inv, NEW v \in VGs, SyncCache(v)
    PROVE  Fits'
<1>1. /\ UNCHANGED <<api, disk, attached, status, pc, cur, todo, changed>>
      /\ cur # v /\ cached' = [cached EXCEPT ![v] = api[v]]
  BY DEF SyncCache, hostVars, workVars, localVars
<1>2. cached'[v] = api[v] /\ \A u : u # v => cached'[u] = cached[u]
  BY <1>1 DEF Inv, TypeOK
<1>3. HostVGGuarded' /\ StatusGuarded'
  BY <1>1 DEF Inv, HostVGGuarded, StatusGuarded
<1>4. CacheFollows'
  BY <1>1, <1>2 DEF Inv, CacheFollows
<1>5. MembersFit'
  <2> SUFFICES ASSUME NEW e \in Devices, disk[e] \in VGs
               PROVE  /\ disk[e] \in Selector => OwnerOf[e] = disk[e]
                      /\ disk[e] \in WipedFirst => api[disk[e]].wiped /\ cached'[disk[e]].wiped
                      /\ \E a \in attached : disk[a] = disk[e]
    BY <1>1 DEF MembersFit
  <2>1. cached'[disk[e]] = cached[disk[e]] \/ cached'[disk[e]] = api[disk[e]]
    BY <1>2
  <2> QED
    BY <2>1 DEF Inv, MembersFit
<1>6. WorkFits'
  BY <1>1, <1>2 DEF Inv, WorkFits
<1> QED
  BY <1>3, <1>4, <1>5, <1>6 DEF Fits

LEMMA EnvironmentFits ==
    ASSUME Inv, Environment
    PROVE  Fits'
<1>1. ASSUME UNCHANGED <<api, cached, disk, status, pc, cur, todo, changed>> PROVE WorkFits'
  BY <1>1 DEF Inv, WorkFits
<1>2. CASE RelabelNode \/ \E v \in VGs : \/ EnqueueAgain(v) \/ CreateLogicalVolume(v)
                                         \/ DeleteLogicalVolumes(v)
  <2>1. UNCHANGED <<api, cached, disk, attached, status, pc, cur, todo, changed>>
    BY <1>2 DEF RelabelNode, EnqueueAgain, CreateLogicalVolume, DeleteLogicalVolumes, apiVars,
       hostVars, workVars, localVars
  <2> QED
    BY <1>1, <2>1, Frame, StatusKept DEF Fits
<1>3. ASSUME NEW d \in Devices, DetachDevice(d) \/ AttachDevice(d) PROVE Fits'
  <2>1. UNCHANGED <<api, cached, disk, status, pc, cur, todo, changed>>
    BY <1>3 DEF DetachDevice, AttachDevice, apiVars, workVars, localVars
  <2>2. HostVGGuarded' /\ CacheFollows'
    BY <2>1 DEF Inv, HostVGGuarded, CacheFollows
  <2>3. \A v \in VGs : (\E e \in attached : disk[e] = v) => \E e \in attached' : disk[e] = v
    BY <1>3 DEF DetachDevice, AttachDevice
  <2>4. MembersFit'
    BY <2>1, <2>3 DEF Inv, MembersFit
  <2> QED
    BY <1>1, <2>1, <2>2, <2>4, StatusKept DEF Fits
<1> QED
  BY <1>2, <1>3, SyncCacheFits DEF Environment

-----------------------------------------------------------------------------
(***************************************************************************)
(* The invariant and what follows from it.                                 *)
(***************************************************************************)

\* Devices are only detached by a pull.
LEMMA AttachedStep ==
    ASSUME Inv, [Next]_vars
    PROVE  AllAttached'
<1>1. CASE Process \/ Operator \/ UNCHANGED vars
  BY <1>1 DEF Inv, AllAttached, vars, hostVars, Process, AddWatch, CancelContext,
     ExitAndRestart, Crash, Reboot, Boot, Operator, CreateNodeStatus, CreateVolumeGroup,
     EditVolumeGroup, DeleteVolumeGroup, OtherNodesDone, SetStorageClass, operatorUnchanged
<1>2. CASE Environment
  BY <1>2 DEF Inv, AllAttached, Environment, RelabelNode, SyncCache, EnqueueAgain,
     CreateLogicalVolume, DeleteLogicalVolumes, DetachDevice, AttachDevice, Fault, hostVars
<1>3. CASE (\E v \in VGs : StartReconcile(v)) \/ CreatePath
  BY <1>3 DEF Inv, AllAttached, CreatePath, hostVars, StartReconcile, AddFinalizer,
     UpdateObject, Inspect, WipeDone, Annotate, FilterDevices, RelistVGs, SetProgressing,
     AddThinPoolToVG, ValidateLVs, ApplyLVMDConfig, SetReady, WipeDevice, ReduceVG, RemovePV,
     AddDevicesToVG
<1>4. CASE DeletePath
  BY <1>4 DEF Inv, AllAttached, DeletePath, hostVars, LoadConf, CheckRetain, DeletePool,
     DeleteVG, DeletePVs, DeleteConf, RemoveVolumeGroupStatus, RemoveFinalizer, UpdateObject
<1> QED
  BY <1>1, <1>2, <1>3, <1>4 DEF Next, Worker

LEMMA GuardInit == Init => Inv
<1> SUFFICES ASSUME Init PROVE Inv
  OBVIOUS
<1>1. TypeOK
  BY TypeInit
<1>2. ~NoObject.alive /\ ~NoObject.fin
  BY DEF NoObject
<1>3. \A d \in Devices : disk[d] \notin VGs
  BY NoVGContents DEF Init
<1>4. HostVGGuarded /\ StatusGuarded /\ CacheFollows /\ MembersFit
  BY <1>2, <1>3 DEF Init, HostVGGuarded, StatusGuarded, CacheFollows, MembersFit
<1>5. WorkFits
  BY DEF Init, WorkFits, CreateSteps, DeleteSteps, WipedSteps, HeldSteps,
          CleanedSteps
<1>6. AllAttached
  BY DEF Init, AllAttached
<1> QED
  BY <1>1, <1>4, <1>5, <1>6 DEF Inv

LEMMA GuardStep ==
    ASSUME NoHiddenGroup, Inv, [Next]_vars
    PROVE  Inv'
<1>1. TypeOK' /\ AllAttached'
  BY TypeStep, AttachedStep DEF Inv
<1>2. CASE Worker
  BY <1>2, StartFits, InspectFits, WipeDoneFits, FilterFits, RelistFits, ProgressFits, PoolFits,
     ValidateFits, ApplyFits, ReadyFits, LoadConfFits, CheckRetainFits, DeletePoolFits,
     DeleteConfFits, RemoveStatusFits, AddFinalizerFits, AnnotateFits, RemoveFinalizerFits,
     WipeDeviceFits, ReduceFits, RemovePVFits, AddDevicesFits, DeleteVGFits, DeletePVsFits, <1>1
  DEF Worker, CreatePath, DeletePath, Inv, Fits
<1>3. CASE Process \/ Operator \/ Environment
  BY <1>1, <1>3, ProcessFits, OperatorFits, EnvironmentFits DEF Inv, Fits
<1>4. CASE UNCHANGED vars
  BY <1>1, <1>4 DEF vars, apiVars, hostVars, lvmdVars, workVars, localVars, Inv, HostVGGuarded,
     StatusGuarded, CacheFollows, MembersFit, WorkFits
<1> QED
  BY <1>2, <1>3, <1>4 DEF Next

\* The steps that change what a device carries.
DiskActions ==
    \/ \E d \in Devices : WipeDevice(d) \/ ReduceVG(d) \/ RemovePV(d)
    \/ AddDevicesToVG \/ DeleteVG \/ DeletePVs

LEMMA DiskStep ==
    ASSUME [Next]_vars
    PROVE  UNCHANGED disk \/ DiskActions
<1>1. CASE Process \/ Operator \/ Environment \/ UNCHANGED vars
  BY <1>1 DEF vars, hostVars, Process, AddWatch, CancelContext, ExitAndRestart, Crash, Reboot,
     Boot, Operator, CreateNodeStatus, CreateVolumeGroup, EditVolumeGroup, DeleteVolumeGroup,
     OtherNodesDone, SetStorageClass, operatorUnchanged, Environment, RelabelNode, SyncCache,
     EnqueueAgain, CreateLogicalVolume, DeleteLogicalVolumes, DetachDevice, AttachDevice
<1>2. CASE (\E v \in VGs : StartReconcile(v)) \/ CreatePath
  BY <1>2 DEF DiskActions, CreatePath, hostVars, StartReconcile, AddFinalizer, UpdateObject,
     Inspect, WipeDone, Annotate, FilterDevices, RelistVGs, SetProgressing, AddThinPoolToVG,
     ValidateLVs, ApplyLVMDConfig, SetReady
<1>3. CASE DeletePath
  BY <1>3 DEF DiskActions, DeletePath, hostVars, LoadConf, CheckRetain, DeletePool, DeleteConf,
     RemoveVolumeGroupStatus, RemoveFinalizer, UpdateObject
<1> QED
  BY <1>1, <1>2, <1>3 DEF Next, Worker

\* Only vgreduce and vgremove take a member out of its volume group.
LEMMA MemberStep ==
    ASSUME NoOptionalWipe, Inv, [Next]_vars, NEW d \in Devices, disk[d] \in VGs
    PROVE  disk'[d] \in {disk[d], Orphan}
<1>1. ASSUME NEW e \in Devices, WipeDevice(e) PROVE disk'[d] = disk[d]
  <2>1. e # d
    BY <1>1, WipedIsNoMember DEF WipeDevice
  <2> QED
    BY <1>1, <2>1 DEF WipeDevice, Inv, TypeOK
<1>2. ASSUME NEW e \in Devices, ReduceVG(e) PROVE disk'[d] \in {disk[d], Orphan}
  BY <1>2 DEF ReduceVG, Inv, TypeOK
<1>3. ASSUME NEW e \in Devices, RemovePV(e) PROVE disk'[d] = disk[d]
  BY <1>3, NoVGContents DEF RemovePV, Inv, TypeOK
<1>4. CASE AddDevicesToVG
  BY <1>4 DEF AddDevicesToVG, Inv, WorkFits
<1>5. CASE DeleteVG \/ DeletePVs
  BY <1>5, NoVGContents DEF DeleteVG, DeletePVs
<1> QED
  BY <1>1, <1>2, <1>3, <1>4, <1>5, DiskStep DEF DiskActions

-----------------------------------------------------------------------------
(***************************************************************************)
(* Foreign data.  What the worker relies on does not need the guards.      *)
(***************************************************************************)

\* The object in hand asks for what the worker does, the devices it wipes are
\* named by it, and the devices it adds carry nothing.
RequestFits ==
    /\ pc \in CreateSteps => cached[cur].alive /\ ~cached[cur].deleting
    /\ pc = "wipe" => /\ cur \in ForceWipe /\ ~cached[cur].wiped
                      /\ todo \subseteq cached[cur].paths
    /\ pc \in {"progress", "addDevices"} => \A d \in todo : Usable(d)

RequestInv == TypeOK /\ RequestFits

\* Other steps of the same reconcile.
LEMMA RequestGoesOn ==
    ASSUME RequestFits, UNCHANGED <<cached, cur>>, pc' \in CreateSteps => pc \in CreateSteps,
           pc' \notin {"wipe", "progress", "addDevices"}
    PROVE  RequestFits'
BY DEF RequestFits

LEMMA RequestEnds == Done \/ Requeue => RequestFits'
BY EndIsIdle DEF RequestFits, CreateSteps

\* The steps that choose devices, and those that work on them.
LEMMA RequestChosen ==
    ASSUME RequestInv, \/ Inspect \/ FilterDevices \/ SetProgressing
                       \/ \E d \in Devices : WipeDevice(d)
    PROVE  RequestFits'
<1>1. UNCHANGED cached
  BY DEF Inspect, FilterDevices, SetProgressing, WipeDevice, apiVars
<1>2. CASE Inspect
  <2>1. CASE Requeue
    BY <2>1, RequestEnds
  <2>2. CASE ~Requeue
    BY <1>1, <1>2, <2>2 DEF Inspect, Goto, ShouldWipeDevices, RequestInv, RequestFits, CreateSteps
  <2> QED
    BY <2>1, <2>2
<1>3. CASE FilterDevices
  <2>1. \A d \in Available(cur) : Usable(d)
    BY DEF Available, Discovered
  <2>2. CASE Requeue
    BY <2>2, RequestEnds
  <2>3. CASE ~Requeue
    BY <1>1, <1>3, <2>1, <2>3 DEF FilterDevices, Goto, hostVars, RequestInv, RequestFits,
       CreateSteps, Usable
  <2> QED
    BY <2>2, <2>3
<1>4. CASE SetProgressing
  <2>1. CASE Requeue
    BY <2>1, RequestEnds
  <2>2. CASE ~Requeue
    BY <1>1, <1>4, <2>2 DEF SetProgressing, Goto, hostVars, localVars, RequestInv, RequestFits,
       CreateSteps, Usable
  <2> QED
    BY <2>1, <2>2
<1>5. ASSUME NEW d \in Devices, WipeDevice(d) PROVE RequestFits'
  <2>1. CASE Requeue
    BY <2>1, RequestEnds
  <2>2. CASE ~Requeue
    BY <1>1, <1>5, <2>2 DEF WipeDevice, Goto, RequestInv, RequestFits, CreateSteps
  <2> QED
    BY <2>1, <2>2
<1> QED
  BY <1>2, <1>3, <1>4, <1>5

LEMMA RequestWorker ==
    ASSUME RequestInv, Worker
    PROVE  RequestFits'
<1>1. ASSUME NEW v \in VGs, StartReconcile(v) PROVE RequestFits'
  BY <1>1 DEF StartReconcile, apiVars, RequestInv, RequestFits, CreateSteps
<1>2. CASE AddFinalizer \/ Annotate \/ RemoveFinalizer
  BY <1>2, RequestEnds DEF AddFinalizer, Annotate, RemoveFinalizer, UpdateObject
<1>3. CASE WipeDone \/ RelistVGs \/ AddDevicesToVG \/ AddThinPoolToVG
  <2>1. UNCHANGED cached /\ pc \in CreateSteps
    BY <1>3 DEF WipeDone, RelistVGs, AddDevicesToVG, AddThinPoolToVG, GiveUp, apiVars, CreateSteps
  <2>2. \/ Requeue
        \/ UNCHANGED cur /\ pc' \notin {"wipe", "progress", "addDevices"}
    BY <1>3 DEF WipeDone, RelistVGs, AddDevicesToVG, AddThinPoolToVG, GiveUp, Goto
  <2> QED
    BY <2>1, <2>2, RequestEnds, RequestGoesOn DEF RequestInv
<1>4. CASE ValidateLVs \/ ApplyLVMDConfig
  <2>1. UNCHANGED cached /\ pc \in CreateSteps
    BY <1>4 DEF ValidateLVs, ApplyLVMDConfig, GiveUp, apiVars, CreateSteps
  <2>2. \/ Requeue
        \/ UNCHANGED cur /\ pc' \notin {"wipe", "progress", "addDevices"}
    BY <1>4 DEF ValidateLVs, ApplyLVMDConfig, GiveUp, Goto
  <2> QED
    BY <2>1, <2>2, RequestEnds, RequestGoesOn DEF RequestInv
<1>5. CASE SetReady
  BY <1>5 DEF SetReady, Requeue, Finish, RequestFits, CreateSteps
<1>6. ASSUME NEW d \in Devices, ReduceVG(d) \/ RemovePV(d) PROVE RequestFits'
  <2>1. UNCHANGED cached /\ pc \in CreateSteps
    BY <1>6 DEF ReduceVG, RemovePV, GiveUp, apiVars, CreateSteps
  <2>2. \/ Requeue
        \/ UNCHANGED cur /\ pc' \notin {"wipe", "progress", "addDevices"}
    BY <1>6 DEF ReduceVG, RemovePV, GiveUp, Goto
  <2> QED
    BY <2>1, <2>2, RequestEnds, RequestGoesOn DEF RequestInv
<1>7. CASE LoadConf \/ CheckRetain \/ DeletePool \/ DeleteVG \/ DeletePVs \/ DeleteConf
           \/ RemoveVolumeGroupStatus
  <2>1. Requeue \/ pc' \in DeleteSteps
    BY <1>7 DEF LoadConf, CheckRetain, DeletePool, DeleteVG, DeletePVs, DeleteConf,
       RemoveVolumeGroupStatus, GiveUp, Goto, DeleteSteps
  <2>2. pc' \in DeleteSteps => RequestFits'
    BY DEF RequestFits, CreateSteps, DeleteSteps
  <2> QED
    BY <2>1, <2>2, RequestEnds
<1> QED
  BY <1>1, <1>2, <1>3, <1>4, <1>5, <1>6, <1>7, RequestChosen DEF Worker, CreatePath, DeletePath

LEMMA RequestStep ==
    ASSUME RequestInv, [Next]_vars
    PROVE  RequestInv'
<1> SUFFICES RequestFits'
  BY TypeStep DEF RequestInv
<1>1. CASE ExitAndRestart \/ Crash \/ Reboot
  <2>1. pc' = "idle"
    BY <1>1 DEF ExitAndRestart, Crash, Reboot, Boot
  <2> QED
    BY <2>1 DEF RequestFits, CreateSteps
<1>2. ASSUME UNCHANGED <<cached, cur, pc, todo, disk>> PROVE RequestFits'
  BY <1>2 DEF RequestInv, RequestFits, Usable
<1>3. CASE AddWatch \/ CancelContext \/ Operator \/ UNCHANGED vars
  <2>1. UNCHANGED <<cached, cur, pc, todo, disk>>
    BY <1>3 DEF vars, apiVars, hostVars, workVars, AddWatch, CancelContext, Operator,
       CreateNodeStatus, CreateVolumeGroup, EditVolumeGroup, DeleteVolumeGroup, OtherNodesDone,
       SetStorageClass, operatorUnchanged
  <2> QED
    BY <1>2, <2>1
<1>4. ASSUME NEW v \in VGs, SyncCache(v) PROVE RequestFits'
  <2>1. UNCHANGED <<cur, pc, todo, disk>> /\ cur # v
    BY <1>4 DEF SyncCache, hostVars, workVars
  <2>2. pc # "idle" => cached'[cur] = cached[cur]
    BY <1>4, <2>1 DEF SyncCache, RequestInv, TypeOK
  <2> QED
    BY <2>1, <2>2 DEF RequestInv, RequestFits, Usable, CreateSteps
<1>5. CASE Environment
  <2>1. (\E v \in VGs : SyncCache(v)) \/ UNCHANGED <<cached, cur, pc, todo, disk>>
    BY <1>5 DEF Environment, RelabelNode, EnqueueAgain, CreateLogicalVolume,
       DeleteLogicalVolumes, DetachDevice, AttachDevice, apiVars, hostVars, workVars
  <2> QED
    BY <1>2, <1>4, <2>1
<1>6. CASE Worker
  BY <1>6, RequestWorker
<1> QED
  BY <1>1, <1>3, <1>5, <1>6 DEF Next, Process

LEMMA RequestInit == Init => RequestInv
BY TypeInit DEF Init, RequestInv, RequestFits, CreateSteps

\* Only wipeDevices touches a device with a foreign signature.
LEMMA ForeignStep ==
    ASSUME RequestInv, [Next]_vars, NEW d \in Devices, disk[d] = Foreign, disk'[d] # Foreign
    PROVE  /\ disk'[d] = Blank
           /\ cur \in ForceWipe /\ d \in cached[cur].paths
           /\ cached[cur].alive /\ ~cached[cur].deleting /\ ~cached[cur].wiped
<1>0. disk \in [Devices -> Contents] /\ Foreign # Orphan /\ Foreign # Blank /\ Foreign \notin VGs
  BY NoVGContents DEF RequestInv, TypeOK, Foreign, Orphan, Blank
<1>1. ASSUME NEW e \in Devices, WipeDevice(e)
      PROVE  e = d /\ disk'[d] = Blank /\ pc = "wipe" /\ d \in todo
  BY <1>0, <1>1 DEF WipeDevice
<1>2. ASSUME NEW e \in Devices, ReduceVG(e) \/ RemovePV(e) PROVE FALSE
  <2>1. cur \in VGs
    BY <1>2 DEF ReduceVG, RemovePV, RequestInv, TypeOK
  <2>2. UNCHANGED disk \/ (disk[e] # Foreign /\ \E x : disk' = [disk EXCEPT ![e] = x])
    BY <1>0, <1>2, <2>1 DEF ReduceVG, RemovePV
  <2> QED
    BY <1>0, <2>2
<1>3. ASSUME AddDevicesToVG PROVE FALSE
  <2>1. d \notin todo
    BY <1>0, <1>3 DEF AddDevicesToVG, RequestInv, RequestFits, Usable
  <2> QED
    BY <1>0, <1>3, <2>1 DEF AddDevicesToVG
<1>4. ASSUME DeleteVG \/ DeletePVs PROVE FALSE
  <2>1. cur \in VGs
    BY <1>4 DEF DeleteVG, DeletePVs, RequestInv, TypeOK
  <2> QED
    BY <1>0, <1>4, <2>1 DEF DeleteVG, DeletePVs
<1>5. disk' # disk
  OBVIOUS
<1>6. \E e \in Devices : WipeDevice(e)
  BY <1>2, <1>3, <1>4, <1>5, DiskStep DEF DiskActions
<1> QED
  BY <1>1, <1>6 DEF RequestInv, RequestFits, CreateSteps

-----------------------------------------------------------------------------
(***************************************************************************)
(* The theorems.                                                           *)
(***************************************************************************)

\* The inductive invariant holds in every reachable state.
THEOREM GuardInvariant == NoHiddenGroup => (Spec => []Inv)
<1> SUFFICES ASSUME NoHiddenGroup PROVE Spec => []Inv
  OBVIOUS
<1>1. Inv /\ [Next]_vars => Inv'
  BY GuardStep
<1> QED
  BY <1>1, GuardInit, PTL DEF Spec

\* Storage is never orphaned: whatever the number of classes and devices, the
\* interleaving of the reconciles with the operator, stale reads of the informer
\* cache, failing calls, crashes, reboots and pulled devices, a volume group of
\* this node belongs to an object that still carries the cleanup finalizer. If
\* optional paths are wiped as well, no device may go missing: wipeDevices may
\* then clear the last device by which processDelete would see the volume group.
THEOREM StorageGuarded == NoHiddenGroup => (Spec => []HostVGGuarded)
<1>1. Inv => HostVGGuarded
  BY DEF Inv
<1> QED
  BY <1>1, GuardInvariant, PTL

\* No entry of the node status outlives the cleanup of its volume group, under
\* the same assumption: processDelete removes the entry before the finalizer, and
\* setVolumeGroupFailedStatus writes one only while a volume group is seen.
THEOREM StatusEntriesGuarded == NoHiddenGroup => (Spec => []StatusGuarded)
<1>1. Inv => StatusGuarded
  BY DEF Inv
<1> QED
  BY <1>1, GuardInvariant, PTL

\* wipeDevices and pvremove never touch a device that is in a volume group: a
\* member leaves it through vgreduce or vgremove only. Here a class with forceWipe
\* must not have optional paths: see the run second_wipe.
THEOREM MembersSurvive == NoOptionalWipe => (Spec => MembersNotWiped)
<1> SUFFICES ASSUME NoOptionalWipe PROVE Spec => MembersNotWiped
  OBVIOUS
<1>1. NoHiddenGroup
  BY DEF NoHiddenGroup
<1>2. Inv /\ [Next]_vars =>
        [\A d \in Devices : disk[d] \in VGs => disk'[d] \in {disk[d], Orphan}]_vars
  BY MemberStep
<1>3. Spec => [][\A d \in Devices : disk[d] \in VGs => disk'[d] \in {disk[d], Orphan}]_vars
  BY <1>1, <1>2, GuardInvariant, PTL DEF Spec
<1> QED
  BY <1>3 DEF MembersNotWiped

\* forceWipeDevicesAndDestroyAllData is the only way to lose data that is not
\* LVM's, without any assumption: whatever fails, restarts or is stale, a device
\* with a foreign signature is neither wiped nor put into a volume group except
\* by wipeDevices for an object that asks for it and names the device.
THEOREM ForeignDataStays == Spec => ForeignDataKept
<1> DEFINE Kept == \A d \in Devices : disk[d] = Foreign /\ disk'[d] # Foreign =>
                      /\ disk'[d] = Blank
                      /\ cur \in ForceWipe /\ d \in cached[cur].paths
                      /\ cached[cur].alive /\ ~cached[cur].deleting /\ ~cached[cur].wiped
<1>1. RequestInv /\ [Next]_vars => RequestInv'
  BY RequestStep
<1>2. RequestInv /\ [Next]_vars => [Kept]_vars
  BY ForeignStep
<1>3. Spec => [][Kept]_vars
  BY <1>1, <1>2, RequestInit, PTL DEF Spec
<1> QED
  BY <1>3 DEF ForeignDataKept

=============================================================================
