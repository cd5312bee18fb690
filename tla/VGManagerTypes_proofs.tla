------------------------ MODULE VGManagerTypes_proofs ------------------------
(***************************************************************************)
(* Type correctness of VGManager.                                          *)
(***************************************************************************)
EXTENDS VGManager, TLAPS

\* The provers a leaf is given to when it names none: most are first-order and
\* go to Zenon, the rest (arithmetic, records, sequences) to the SMT solver.
USE Zenon, SMTT(30)

-----------------------------------------------------------------------------

\* TypeOK in parts that most actions leave alone.
ApiType ==
    /\ api \in [VGs -> Objects] /\ cached \in [VGs -> Objects]
    /\ sc \in [VGs -> BOOLEAN] /\ nodeStatus \in BOOLEAN /\ matches \in BOOLEAN
StatusType == status \in [VGs -> States]
HostType ==
    /\ disk \in [Devices -> Contents] /\ attached \subseteq Devices
    /\ pool \in [VGs -> {"none", "active", "inactive"}] /\ lv \in [VGs -> BOOLEAN]
LvmdType ==
    /\ lvmd \in [cache : Configs, file : Configs] /\ loaded \in Configs
    /\ watch \in {"pending", "on", "failed"} /\ notify \in {"none", "pending", "cancelled"}
WorkType ==
    /\ queue \subseteq VGs
    /\ pc \in Steps /\ cur \in VGs \cup {NoVG} /\ (pc # "idle" => cur \in VGs)
    /\ todo \subseteq Devices /\ listed \subseteq Devices
    /\ conf \in Configs /\ changed \in BOOLEAN
FaultsType == faults \in 0..MaxFaults

LEMMA TypeParts ==
    TypeOK <=> ApiType /\ StatusType /\ HostType /\ LvmdType /\ WorkType /\ FaultsType
BY DEF TypeOK, ApiType, StatusType, HostType, LvmdType, WorkType, FaultsType

LEMMA TypePartsPrime ==
    TypeOK' <=> ApiType' /\ StatusType' /\ HostType' /\ LvmdType' /\ WorkType' /\ FaultsType'
BY DEF TypeOK, ApiType, StatusType, HostType, LvmdType, WorkType, FaultsType

\* The operations on the lvmd configuration keep its type.
LEMMA ConfigTypes ==
    /\ Nil \in Configs /\ EmptyConfig \in Configs
    /\ \A c \in Configs, v \in VGs : WithoutClass(c, v) \in Configs
    /\ \A c \in Configs, v \in VGs, r \in 0..MaxRatio : WithClass(c, v, r) \in Configs
<1>1. Nil \in Configs
  BY MaxRatioAssumption DEF Nil, Configs
<1>2. EmptyConfig \in Configs
  BY <1>1 DEF EmptyConfig, Configs
<1>3. \A c \in Configs, v \in VGs : WithoutClass(c, v) \in Configs
  BY MaxRatioAssumption DEF WithoutClass, Configs
<1>4. \A c \in Configs, v \in VGs, r \in 0..MaxRatio : WithClass(c, v, r) \in Configs
  BY MaxRatioAssumption DEF WithClass, Configs
<1> QED
  BY <1>1, <1>2, <1>3, <1>4

\* Loading, saving and deleting it keep the type of the pair of cache and file.
LEMMA LvmdTypes ==
    ASSUME NEW l \in [cache : Configs, file : Configs], NEW c \in Configs
    PROVE  /\ Load(l) \in Configs
           /\ AfterLoad(l) \in [cache : Configs, file : Configs]
           /\ AfterSave(l, c) \in [cache : Configs, file : Configs]
           /\ AfterFailedSave(l, c) \subseteq [cache : Configs, file : Configs]
           /\ TornFiles(l, c) \subseteq Configs
           /\ AfterDelete(l) \in [cache : Configs, file : Configs]
<1>1. Load(l) \in Configs
  BY DEF Load
<1>2. AfterLoad(l) \in [cache : Configs, file : Configs]
  BY <1>1 DEF AfterLoad
<1>3. AfterSave(l, c) \in [cache : Configs, file : Configs]
  BY DEF AfterSave
<1>4. AfterFailedSave(l, c) \subseteq [cache : Configs, file : Configs]
  BY ConfigTypes DEF AfterFailedSave
<1>5. TornFiles(l, c) \subseteq Configs
  BY ConfigTypes DEF TornFiles
<1>6. AfterDelete(l) \in [cache : Configs, file : Configs]
  BY ConfigTypes DEF AfterDelete
<1> QED
  BY <1>1, <1>2, <1>3, <1>4, <1>5, <1>6

\* The objects the updates write.
LEMMA SaveType ==
    ASSUME LvmdType, NEW c \in Configs, Save(c) \/ SaveFails(c), UNCHANGED <<loaded, watch>>
    PROVE  LvmdType'
<1>1. lvmd' \in [cache : Configs, file : Configs]
  BY LvmdTypes DEF Save, SaveFails, LvmdType
<1>2. UNCHANGED notify \/ FileChanged
  BY DEF Save, SaveFails
<1> QED
  BY <1>1, <1>2 DEF FileChanged, LvmdType

LEMMA ObjectTypes ==
    /\ NoObject \in Objects
    /\ \A o \in Objects : /\ [o EXCEPT !.fin = TRUE] \in Objects
                          /\ [o EXCEPT !.fin = FALSE] \in Objects
                          /\ [o EXCEPT !.wiped = TRUE] \in Objects
                          /\ [o EXCEPT !.deleting = TRUE] \in Objects
                          /\ o.ratio \in 0..MaxRatio
                          /\ o.paths \subseteq Devices
    /\ \A v \in VGs : \A o \in Objects, p \in ValidPaths(v), r \in Ratios :
         /\ [o EXCEPT !.paths = p, !.ratio = r] \in Objects
         /\ [NoObject EXCEPT !.alive = TRUE, !.paths = p, !.ratio = r] \in Objects
<1>1. NoObject \in Objects
  BY MaxRatioAssumption DEF Objects, NoObject
<1>2. ASSUME NEW o \in Objects
      PROVE /\ [o EXCEPT !.fin = TRUE] \in Objects
            /\ [o EXCEPT !.fin = FALSE] \in Objects
            /\ [o EXCEPT !.wiped = TRUE] \in Objects
            /\ [o EXCEPT !.deleting = TRUE] \in Objects
            /\ o.ratio \in 0..MaxRatio
            /\ o.paths \subseteq Devices
  BY DEF Objects
<1>3. ASSUME NEW v \in VGs, NEW o \in Objects, NEW p \in ValidPaths(v), NEW r \in Ratios
      PROVE /\ [o EXCEPT !.paths = p, !.ratio = r] \in Objects
            /\ [NoObject EXCEPT !.alive = TRUE, !.paths = p, !.ratio = r] \in Objects
  <2>1. p \subseteq Devices
    BY DEF ValidPaths
  <2>2. r \in 0..MaxRatio
    BY MaxRatioAssumption DEF Ratios
  <2> QED
    BY <2>1, <2>2, <1>1 DEF Objects
<1> QED
  BY <1>1, <1>2, <1>3

\* A call, failing or not, keeps the number of faults in its bound.
LEMMA CallType ==
    ASSUME FaultsType, NEW k, CallOK \/ CallFails(k) \/ Fault(k)
    PROVE  FaultsType'
BY VGManagerAssumption DEF FaultsType, CallOK, CallFails, Fault

LEMMA UpdateType ==
    ASSUME FaultsType, UpdateOK \/ UpdateFails
    PROVE  FaultsType'
BY CallType DEF UpdateOK, UpdateFails

\* The end of a reconcile, with and without a requeue.
LEMMA FinishType ==
    ASSUME WorkType, pc # "idle", NEW r, Finish(r)
    PROVE  WorkType'
BY ConfigTypes, VGManagerAssumption DEF WorkType, Finish, Steps

LEMMA EndType ==
    ASSUME WorkType, pc # "idle", Done \/ Requeue
    PROVE  WorkType'
BY FinishType DEF Done, Requeue

LEMMA UpdateObjectType ==
    ASSUME ApiType, WorkType, pc # "idle", NEW objs \in SUBSET Objects, UpdateObject(objs)
    PROVE  ApiType'
BY DEF UpdateObject, ApiType, WorkType

LEMMA FailedStatusType ==
    ASSUME StatusType, NEW pvs, FailedStatus(pvs)
    PROVE  StatusType'
BY DEF StatusType, FailedStatus, States

LEMMA TypeInit == Init => TypeOK
<1> SUFFICES ASSUME Init PROVE TypeOK
  OBVIOUS
<1>1. ApiType /\ StatusType
  BY ObjectTypes DEF Init, ApiType, StatusType, States
<1>2. HostType
  BY VGManagerAssumption DEF Init, HostType, Contents, Blank, Foreign
<1>3. LvmdType
  BY ConfigTypes DEF Init, LvmdType
<1>4. WorkType
  BY ConfigTypes DEF Init, WorkType, Steps
<1>5. FaultsType
  BY VGManagerAssumption DEF Init, FaultsType
<1> QED
  BY <1>1, <1>2, <1>3, <1>4, <1>5, TypeParts

\* One step per action, and under it one per part of TypeOK the action changes.
LEMMA TypeStep == TypeOK /\ [Next]_vars => TypeOK'
<1> SUFFICES ASSUME ApiType, StatusType, HostType, LvmdType, WorkType, FaultsType, [Next]_vars
             PROVE  TypeOK'
  BY TypeParts
<1> USE VGManagerAssumption
<1>1. ASSUME NEW v \in VGs, StartReconcile(v) PROVE TypeOK'
  <2>1. ApiType' /\ StatusType' /\ HostType' /\ LvmdType' /\ FaultsType'
    BY <1>1 DEF StartReconcile, apiVars, hostVars, lvmdVars, ApiType, FaultsType,
       HostType, LvmdType, StatusType
  <2>2. WorkType'
    BY <1>1 DEF StartReconcile, Goto, Steps, CreateSteps, DeleteSteps, workVars,
       localVars, WorkType
  <2> QED
    BY <2>1, <2>2, TypePartsPrime
<1>2. CASE AddFinalizer
  <2>1. ApiType'
    <3>1. [cached[cur] EXCEPT !.fin = TRUE] \in Objects
      BY <1>2, ObjectTypes DEF AddFinalizer, ApiType, WorkType
    <3> QED
      BY <1>2, <3>1, UpdateObjectType DEF AddFinalizer
  <2>2. StatusType'
    BY <1>2 DEF AddFinalizer, UpdateObject, StatusType
  <2>3. HostType'
    BY <1>2 DEF AddFinalizer, UpdateObject, hostVars, HostType
  <2>4. LvmdType'
    BY <1>2 DEF AddFinalizer, UpdateObject, lvmdVars, LvmdType
  <2>5. WorkType'
    BY <1>2, EndType DEF AddFinalizer, UpdateObject, workVars, localVars, WorkType
  <2>6. FaultsType'
    BY <1>2, UpdateType DEF AddFinalizer, UpdateObject, FaultsType
  <2> QED
    BY <2>1, <2>2, <2>3, <2>4, <2>5, <2>6, TypePartsPrime
<1>3. CASE Inspect
  <2>1. ApiType' /\ HostType' /\ LvmdType'
    BY <1>3 DEF Inspect, apiVars, hostVars, lvmdVars, ApiType, HostType, LvmdType
  <2>2. StatusType'
    BY <1>3, FailedStatusType DEF Inspect, StatusType
  <2>3. WorkType'
    <3>1. ListPVs(cur) \subseteq Devices /\ cached[cur].paths \subseteq Devices
      BY <1>3, ObjectTypes DEF Inspect, ListPVs, Members, ApiType, WorkType
    <3>2. CASE Requeue
      BY <1>3, <3>2, EndType DEF Inspect
    <3>3. CASE ~Requeue
      BY <1>3, <3>1, <3>3 DEF Inspect, Goto, Steps, CreateSteps, WorkType
    <3> QED
      BY <3>2, <3>3
  <2>4. FaultsType'
    BY <1>3, CallType DEF Inspect, FaultsType
  <2> QED
    BY <2>1, <2>2, <2>3, <2>4, TypePartsPrime
<1>4. ASSUME NEW d \in Devices, WipeDevice(d) PROVE TypeOK'
  <2>1. ApiType' /\ StatusType' /\ LvmdType'
    BY <1>4 DEF WipeDevice, apiVars, lvmdVars, ApiType, LvmdType, StatusType
  <2>2. HostType'
    BY <1>4 DEF WipeDevice, Contents, hostVars, HostType
  <2>3. WorkType'
    BY <1>4, EndType DEF WipeDevice, Goto, Steps, CreateSteps, DeleteSteps, workVars,
       localVars, WorkType
  <2>4. FaultsType'
    BY <1>4, CallType DEF WipeDevice, FaultsType
  <2> QED
    BY <2>1, <2>2, <2>3, <2>4, TypePartsPrime
<1>5. CASE WipeDone
  <2>1. ApiType' /\ StatusType' /\ HostType' /\ LvmdType' /\ FaultsType'
    BY <1>5 DEF WipeDone, apiVars, hostVars, lvmdVars, ApiType, FaultsType, HostType,
       LvmdType, StatusType
  <2>2. WorkType'
    BY <1>5 DEF WipeDone, Goto, Steps, CreateSteps, DeleteSteps, workVars, localVars, WorkType
  <2> QED
    BY <2>1, <2>2, TypePartsPrime
<1>6. CASE Annotate
  <2>1. ApiType'
    <3>1. [cached[cur] EXCEPT !.wiped = TRUE] \in Objects
      BY <1>6, ObjectTypes DEF Annotate, ApiType, WorkType
    <3> QED
      BY <1>6, <3>1, UpdateObjectType DEF Annotate
  <2>2. StatusType'
    BY <1>6 DEF Annotate, UpdateObject, StatusType
  <2>3. HostType'
    BY <1>6 DEF Annotate, UpdateObject, hostVars, HostType
  <2>4. LvmdType'
    BY <1>6 DEF Annotate, UpdateObject, lvmdVars, LvmdType
  <2>5. WorkType'
    BY <1>6, EndType DEF Annotate, UpdateObject, workVars, localVars, WorkType
  <2>6. FaultsType'
    BY <1>6, UpdateType DEF Annotate, UpdateObject, FaultsType
  <2> QED
    BY <2>1, <2>2, <2>3, <2>4, <2>5, <2>6, TypePartsPrime
<1>7. CASE FilterDevices
  <2>1. ApiType' /\ HostType' /\ LvmdType'
    BY <1>7 DEF FilterDevices, apiVars, hostVars, lvmdVars, ApiType, HostType, LvmdType
  <2>2. StatusType'
    BY <1>7, FailedStatusType DEF FilterDevices, StatusType
  <2>3. WorkType'
    BY <1>7, EndType DEF FilterDevices, Available, Discovered, RemovedDevices, HostType,
       Goto, Steps, CreateSteps, DeleteSteps, workVars, localVars, WorkType
  <2>4. FaultsType'
    BY <1>7, CallType DEF FilterDevices, FaultsType
  <2> QED
    BY <2>1, <2>2, <2>3, <2>4, TypePartsPrime
<1>8. ASSUME NEW d \in Devices, ReduceVG(d) PROVE TypeOK'
  <2>1. ApiType'
    BY <1>8 DEF ReduceVG, GiveUp, apiVars, ApiType
  <2>2. StatusType'
    BY <1>8, FailedStatusType DEF ReduceVG, GiveUp, StatusType
  <2>3. HostType'
    BY <1>8 DEF ReduceVG, Contents, hostVars, HostType
  <2>4. LvmdType'
    BY <1>8 DEF ReduceVG, GiveUp, lvmdVars, LvmdType
  <2>5. WorkType'
    BY <1>8, EndType DEF ReduceVG, GiveUp, Goto, Steps, CreateSteps, DeleteSteps,
       workVars, localVars, WorkType
  <2>6. FaultsType'
    BY <1>8, CallType DEF ReduceVG, FaultsType
  <2> QED
    BY <2>1, <2>2, <2>3, <2>4, <2>5, <2>6, TypePartsPrime
<1>9. ASSUME NEW d \in Devices, RemovePV(d) PROVE TypeOK'
  <2>1. ApiType' /\ StatusType' /\ LvmdType'
    BY <1>9 DEF RemovePV, apiVars, lvmdVars, ApiType, LvmdType, StatusType
  <2>2. HostType'
    BY <1>9 DEF RemovePV, Contents, hostVars, HostType
  <2>3. WorkType'
    BY <1>9 DEF RemovePV, Goto, Steps, CreateSteps, DeleteSteps, workVars, localVars, WorkType
  <2>4. FaultsType'
    BY <1>9, CallType DEF RemovePV, FaultsType
  <2> QED
    BY <2>1, <2>2, <2>3, <2>4, TypePartsPrime
<1>10. CASE RelistVGs
  <2>1. ApiType' /\ StatusType' /\ HostType' /\ LvmdType'
    BY <1>10 DEF RelistVGs, apiVars, hostVars, lvmdVars, ApiType, HostType, LvmdType,
       StatusType
  <2>2. WorkType'
    BY <1>10, EndType DEF RelistVGs, ListPVs, Members, Goto, Steps, CreateSteps,
       DeleteSteps, workVars, localVars, WorkType
  <2>3. FaultsType'
    BY <1>10, CallType DEF RelistVGs, FaultsType
  <2> QED
    BY <2>1, <2>2, <2>3, TypePartsPrime
<1>11. CASE SetProgressing
  <2>1. ApiType' /\ HostType' /\ LvmdType'
    BY <1>11 DEF SetProgressing, apiVars, hostVars, lvmdVars, ApiType, HostType, LvmdType
  <2>2. StatusType'
    BY <1>11 DEF SetProgressing, States, StatusType
  <2>3. WorkType'
    BY <1>11, EndType DEF SetProgressing, Goto, Steps, CreateSteps, DeleteSteps,
       workVars, localVars, WorkType
  <2>4. FaultsType'
    BY <1>11, CallType DEF SetProgressing, FaultsType
  <2> QED
    BY <2>1, <2>2, <2>3, <2>4, TypePartsPrime
<1>12. CASE AddDevicesToVG
  <2>1. ApiType'
    BY <1>12 DEF AddDevicesToVG, GiveUp, apiVars, ApiType
  <2>2. StatusType'
    BY <1>12, FailedStatusType DEF AddDevicesToVG, GiveUp, StatusType
  <2>3. HostType'
    BY <1>12 DEF AddDevicesToVG, Contents, HostType, WorkType
  <2>4. LvmdType'
    BY <1>12 DEF AddDevicesToVG, GiveUp, lvmdVars, LvmdType
  <2>5. WorkType'
    BY <1>12, EndType DEF AddDevicesToVG, GiveUp, Goto, Steps, CreateSteps, DeleteSteps,
       workVars, localVars, WorkType
  <2>6. FaultsType'
    BY <1>12, CallType DEF AddDevicesToVG, FaultsType
  <2> QED
    BY <2>1, <2>2, <2>3, <2>4, <2>5, <2>6, TypePartsPrime
<1>13. CASE AddThinPoolToVG
  <2>1. ApiType'
    BY <1>13 DEF AddThinPoolToVG, GiveUp, apiVars, ApiType
  <2>2. StatusType'
    BY <1>13, FailedStatusType DEF AddThinPoolToVG, GiveUp, StatusType
  <2>3. HostType'
    BY <1>13 DEF AddThinPoolToVG, hostVars, HostType
  <2>4. LvmdType'
    BY <1>13 DEF AddThinPoolToVG, GiveUp, lvmdVars, LvmdType
  <2>5. WorkType'
    BY <1>13, EndType DEF AddThinPoolToVG, GiveUp, Goto, Steps, CreateSteps,
       DeleteSteps, workVars, localVars, WorkType
  <2>6. FaultsType'
    BY <1>13, CallType DEF AddThinPoolToVG, FaultsType
  <2> QED
    BY <2>1, <2>2, <2>3, <2>4, <2>5, <2>6, TypePartsPrime
<1>14. CASE ValidateLVs
  <2>1. ApiType'
    BY <1>14 DEF ValidateLVs, GiveUp, apiVars, ApiType
  <2>2. StatusType'
    BY <1>14, FailedStatusType DEF ValidateLVs, GiveUp, StatusType
  <2>3. HostType'
    BY <1>14 DEF ValidateLVs, hostVars, HostType
  <2>4. LvmdType'
    BY <1>14 DEF ValidateLVs, GiveUp, lvmdVars, LvmdType
  <2>5. WorkType'
    BY <1>14, EndType DEF ValidateLVs, GiveUp, Goto, Steps, CreateSteps, DeleteSteps,
       workVars, localVars, WorkType
  <2>6. FaultsType'
    BY <1>14, CallType DEF ValidateLVs, FaultsType
  <2> QED
    BY <2>1, <2>2, <2>3, <2>4, <2>5, <2>6, TypePartsPrime
<1>15. CASE ApplyLVMDConfig
  <2>1. ApiType' /\ HostType'
    BY <1>15 DEF ApplyLVMDConfig, apiVars, hostVars, ApiType, HostType
  <2>2. StatusType'
    BY <1>15, FailedStatusType DEF ApplyLVMDConfig, StatusType
  <2>3. LvmdType'
    <3> DEFINE new == UpdatedConfig(Load(lvmd), cur)
    <3>1. Load(lvmd) \in Configs /\ AfterLoad(lvmd) \in [cache : Configs, file : Configs]
      BY ConfigTypes, LvmdTypes DEF LvmdType
    <3>2. cur \in VGs /\ cached[cur].ratio \in 0..MaxRatio
      BY <1>15, ObjectTypes DEF ApplyLVMDConfig, ApiType, WorkType
    <3>3. new \in Configs
      BY <3>1, <3>2, ConfigTypes DEF UpdatedConfig
    <3>4. /\ UNCHANGED <<loaded, watch>>
          /\ \/ Save(new) \/ SaveFails(new)
             \/ UNCHANGED notify /\ (UNCHANGED lvmd \/ lvmd' = AfterLoad(lvmd))
      BY <1>15 DEF ApplyLVMDConfig
    <3> HIDE DEF new
    <3>5. CASE Save(new) \/ SaveFails(new)
      BY <3>3, <3>4, <3>5, SaveType
    <3>6. CASE UNCHANGED notify /\ (UNCHANGED lvmd \/ lvmd' = AfterLoad(lvmd))
      BY <3>1, <3>4, <3>6 DEF LvmdType
    <3> QED
      BY <3>4, <3>5, <3>6
  <2>4. WorkType'
    BY <1>15, EndType DEF ApplyLVMDConfig, Goto, Steps, CreateSteps, DeleteSteps,
       workVars, localVars, WorkType
  <2>5. FaultsType'
    BY <1>15, CallType DEF ApplyLVMDConfig, SaveFails, FaultsType
  <2> QED
    BY <2>1, <2>2, <2>3, <2>4, <2>5, TypePartsPrime
<1>16. CASE SetReady
  <2>1. ApiType' /\ HostType' /\ LvmdType'
    BY <1>16 DEF SetReady, apiVars, hostVars, lvmdVars, ApiType, HostType, LvmdType
  <2>2. StatusType'
    BY <1>16 DEF SetReady, States, StatusType
  <2>3. WorkType'
    BY <1>16, EndType, FinishType DEF SetReady, Goto, Steps, CreateSteps, DeleteSteps,
       workVars, localVars, WorkType
  <2>4. FaultsType'
    BY <1>16, CallType DEF SetReady, FaultsType
  <2> QED
    BY <2>1, <2>2, <2>3, <2>4, TypePartsPrime
<1>17. CASE LoadConf
  <2>1. ApiType' /\ StatusType' /\ HostType'
    BY <1>17 DEF LoadConf, apiVars, hostVars, ApiType, HostType, StatusType
  <2>2. LvmdType'
    BY <1>17, LvmdTypes, ConfigTypes DEF LoadConf, lvmdVars, LvmdType
  <2>3. WorkType'
    <3>1. /\ ListPVs(cur) \subseteq Devices
          /\ WithoutClass(Load(lvmd), cur) \in Configs
      BY <1>17, LvmdTypes, ConfigTypes DEF LoadConf, ListPVs, Members, LvmdType, WorkType
    <3>2. CASE Requeue
      BY <1>17, <3>2, EndType DEF LoadConf
    <3>3. CASE ~Requeue
      BY <1>17, <3>1, <3>3 DEF LoadConf, Goto, Steps, DeleteSteps, WorkType
    <3> QED
      BY <3>2, <3>3
  <2>4. FaultsType'
    BY <1>17, CallType DEF LoadConf, FaultsType
  <2> QED
    BY <2>1, <2>2, <2>3, <2>4, TypePartsPrime
<1>18. CASE CheckRetain
  <2>1. ApiType' /\ StatusType' /\ HostType' /\ LvmdType'
    BY <1>18 DEF CheckRetain, apiVars, hostVars, lvmdVars, ApiType, HostType, LvmdType,
       StatusType
  <2>2. WorkType'
    BY <1>18, EndType DEF CheckRetain, Goto, Steps, CreateSteps, DeleteSteps, workVars,
       localVars, WorkType
  <2>3. FaultsType'
    BY <1>18, CallType DEF CheckRetain, FaultsType
  <2> QED
    BY <2>1, <2>2, <2>3, TypePartsPrime
<1>19. CASE DeletePool
  <2>1. ApiType'
    BY <1>19 DEF DeletePool, GiveUp, apiVars, ApiType
  <2>2. StatusType'
    BY <1>19, FailedStatusType DEF DeletePool, GiveUp, StatusType
  <2>3. HostType'
    BY <1>19 DEF DeletePool, hostVars, HostType
  <2>4. LvmdType'
    BY <1>19 DEF DeletePool, GiveUp, lvmdVars, LvmdType
  <2>5. WorkType'
    BY <1>19, EndType DEF DeletePool, GiveUp, Goto, Steps, CreateSteps, DeleteSteps,
       workVars, localVars, WorkType
  <2>6. FaultsType'
    BY <1>19, CallType DEF DeletePool, FaultsType
  <2> QED
    BY <2>1, <2>2, <2>3, <2>4, <2>5, <2>6, TypePartsPrime
<1>20. CASE DeleteVG
  <2>1. ApiType'
    BY <1>20 DEF DeleteVG, GiveUp, apiVars, ApiType
  <2>2. StatusType'
    BY <1>20, FailedStatusType DEF DeleteVG, GiveUp, StatusType
  <2>3. HostType'
    BY <1>20 DEF DeleteVG, Contents, hostVars, HostType
  <2>4. LvmdType'
    BY <1>20 DEF DeleteVG, GiveUp, lvmdVars, LvmdType
  <2>5. WorkType'
    BY <1>20, EndType DEF DeleteVG, GiveUp, Goto, Steps, CreateSteps, DeleteSteps,
       workVars, localVars, WorkType
  <2>6. FaultsType'
    BY <1>20, CallType DEF DeleteVG, FaultsType
  <2> QED
    BY <2>1, <2>2, <2>3, <2>4, <2>5, <2>6, TypePartsPrime
<1>21. CASE DeletePVs
  <2>1. ApiType'
    BY <1>21 DEF DeletePVs, GiveUp, apiVars, ApiType
  <2>2. StatusType'
    BY <1>21, FailedStatusType DEF DeletePVs, GiveUp, StatusType
  <2>3. HostType'
    BY <1>21 DEF DeletePVs, Contents, hostVars, HostType
  <2>4. LvmdType'
    BY <1>21 DEF DeletePVs, GiveUp, lvmdVars, LvmdType
  <2>5. WorkType'
    BY <1>21, EndType DEF DeletePVs, GiveUp, Goto, Steps, CreateSteps, DeleteSteps,
       workVars, localVars, WorkType
  <2>6. FaultsType'
    BY <1>21, CallType DEF DeletePVs, FaultsType
  <2> QED
    BY <2>1, <2>2, <2>3, <2>4, <2>5, <2>6, TypePartsPrime
<1>22. CASE DeleteConf
  <2>1. ApiType' /\ StatusType' /\ HostType'
    BY <1>22 DEF DeleteConf, apiVars, hostVars, ApiType, HostType, StatusType
  <2>2. LvmdType'
    <3>1. conf \in Configs /\ AfterDelete(lvmd) \in [cache : Configs, file : Configs]
      BY LvmdTypes DEF LvmdType, WorkType
    <3>2. /\ UNCHANGED <<loaded, watch>>
          /\ \/ Save(conf) \/ SaveFails(conf) \/ UNCHANGED <<lvmd, notify>>
             \/ lvmd' = AfterDelete(lvmd) /\ FileChanged
      BY <1>22 DEF DeleteConf
    <3>3. CASE Save(conf) \/ SaveFails(conf)
      BY <3>1, <3>2, <3>3, SaveType
    <3>4. CASE UNCHANGED <<lvmd, notify>> \/ (lvmd' = AfterDelete(lvmd) /\ FileChanged)
      BY <3>1, <3>2, <3>4 DEF LvmdType, FileChanged
    <3> QED
      BY <3>2, <3>3, <3>4
  <2>3. WorkType'
    BY <1>22, EndType DEF DeleteConf, Goto, Steps, CreateSteps, DeleteSteps, workVars,
       localVars, WorkType
  <2>4. FaultsType'
    BY <1>22, CallType DEF DeleteConf, SaveFails, FaultsType
  <2> QED
    BY <2>1, <2>2, <2>3, <2>4, TypePartsPrime
<1>23. CASE RemoveVolumeGroupStatus
  <2>1. ApiType' /\ HostType' /\ LvmdType'
    BY <1>23 DEF RemoveVolumeGroupStatus, apiVars, hostVars, lvmdVars, ApiType,
       HostType, LvmdType
  <2>2. StatusType'
    BY <1>23 DEF RemoveVolumeGroupStatus, States, StatusType
  <2>3. WorkType'
    BY <1>23, EndType DEF RemoveVolumeGroupStatus, Goto, Steps, CreateSteps,
       DeleteSteps, workVars, localVars, WorkType
  <2>4. FaultsType'
    BY <1>23, CallType DEF RemoveVolumeGroupStatus, FaultsType
  <2> QED
    BY <2>1, <2>2, <2>3, <2>4, TypePartsPrime
<1>24. CASE RemoveFinalizer
  <2>1. ApiType'
    <3>1. {NoObject, [cached[cur] EXCEPT !.fin = FALSE]} \in SUBSET Objects
      <4>1. cached[cur] \in Objects
        BY <1>24 DEF RemoveFinalizer, ApiType, WorkType
      <4> QED
        BY <4>1, ObjectTypes
    <3>2. CASE cached[cur].fin
      BY <1>24, <3>1, <3>2, UpdateObjectType DEF RemoveFinalizer
    <3>3. CASE ~cached[cur].fin
      BY <1>24, <3>3 DEF RemoveFinalizer, apiVars, ApiType
    <3> QED
      BY <3>2, <3>3
  <2>2. StatusType'
    BY <1>24 DEF RemoveFinalizer, UpdateObject, StatusType
  <2>3. HostType'
    BY <1>24 DEF RemoveFinalizer, UpdateObject, hostVars, HostType
  <2>4. LvmdType'
    BY <1>24 DEF RemoveFinalizer, UpdateObject, lvmdVars, LvmdType
  <2>5. WorkType'
    BY <1>24, EndType DEF RemoveFinalizer, UpdateObject, workVars, localVars, WorkType
  <2>6. FaultsType'
    BY <1>24, UpdateType DEF RemoveFinalizer, UpdateObject, FaultsType
  <2> QED
    BY <2>1, <2>2, <2>3, <2>4, <2>5, <2>6, TypePartsPrime
<1>25. CASE AddWatch
  <2>1. ApiType' /\ StatusType' /\ HostType' /\ WorkType'
    BY <1>25 DEF AddWatch, apiVars, hostVars, workVars, localVars, ApiType, HostType,
       StatusType, WorkType
  <2>2. LvmdType'
    BY <1>25 DEF AddWatch, lvmdVars, LvmdType
  <2>3. FaultsType'
    BY <1>25, CallType DEF AddWatch, FaultsType
  <2> QED
    BY <2>1, <2>2, <2>3, TypePartsPrime
<1>26. CASE CancelContext
  <2>1. ApiType' /\ StatusType' /\ HostType' /\ WorkType' /\ FaultsType'
    BY <1>26 DEF CancelContext, apiVars, hostVars, workVars, localVars, ApiType,
       FaultsType, HostType, StatusType, WorkType
  <2>2. LvmdType'
    BY <1>26 DEF CancelContext, lvmdVars, LvmdType
  <2> QED
    BY <2>1, <2>2, TypePartsPrime
<1>27. CASE ExitAndRestart
  <2>1. FaultsType'
    BY <1>27 DEF ExitAndRestart, FaultsType
  <2>2. ApiType'
    BY <1>27 DEF ExitAndRestart, Boot, apiVars, ApiType
  <2>3. StatusType'
    BY <1>27 DEF ExitAndRestart, Boot, StatusType
  <2>4. HostType'
    BY <1>27 DEF ExitAndRestart, Boot, hostVars, HostType
  <2>5. LvmdType'
    BY <1>27, ConfigTypes DEF ExitAndRestart, Boot, lvmdVars, LvmdType
  <2>6. WorkType'
    BY <1>27, ConfigTypes DEF ExitAndRestart, Boot, Steps, workVars, localVars, WorkType
  <2> QED
    BY <2>1, <2>2, <2>3, <2>4, <2>5, <2>6, TypePartsPrime
<1>28. CASE Crash
  <2>1. ApiType'
    BY <1>28 DEF Crash, Boot, apiVars, ApiType
  <2>2. StatusType'
    BY <1>28 DEF Crash, Boot, StatusType
  <2>3. HostType'
    BY <1>28 DEF Crash, Boot, hostVars, HostType
  <2>4. LvmdType'
    <3>1. PendingWrites \subseteq Configs
      <4>1. ASSUME pc = "apply" PROVE UpdatedConfig(Load(lvmd), cur) \in Configs
        BY <4>1, ConfigTypes, LvmdTypes, ObjectTypes
        DEF UpdatedConfig, ApiType, LvmdType, WorkType
      <4> QED
        BY <4>1 DEF PendingWrites, WorkType
    <3>2. UNION {TornFiles(lvmd, c) : c \in PendingWrites} \subseteq Configs
      BY <3>1, LvmdTypes DEF LvmdType
    <3>3. PICK f \in Configs : Boot(f)
      BY <1>28, <3>2 DEF Crash, LvmdType
    <3> QED
      BY <3>3, ConfigTypes DEF Boot, LvmdType
  <2>5. WorkType'
    BY <1>28, ConfigTypes DEF Crash, Boot, Steps, workVars, localVars, WorkType
  <2>6. FaultsType'
    BY <1>28, CallType DEF Crash, FaultsType
  <2> QED
    BY <2>1, <2>2, <2>3, <2>4, <2>5, <2>6, TypePartsPrime
<1>29. CASE Reboot
  <2>1. ApiType'
    BY <1>29 DEF Reboot, Boot, apiVars, ApiType
  <2>2. StatusType'
    BY <1>29 DEF Reboot, Boot, StatusType
  <2>3. HostType'
    BY <1>29 DEF Reboot, Boot, hostVars, HostType
  <2>4. LvmdType'
    BY <1>29, ConfigTypes DEF Reboot, Boot, lvmdVars, LvmdType
  <2>5. WorkType'
    BY <1>29, ConfigTypes DEF Reboot, Boot, Steps, workVars, localVars, WorkType
  <2>6. FaultsType'
    BY <1>29, CallType DEF Reboot, FaultsType
  <2> QED
    BY <2>1, <2>2, <2>3, <2>4, <2>5, <2>6, TypePartsPrime
<1>30. ASSUME NEW v \in VGs, SyncCache(v) PROVE TypeOK'
  <2>1. StatusType' /\ HostType' /\ LvmdType' /\ FaultsType'
    BY <1>30 DEF SyncCache, hostVars, lvmdVars, FaultsType, HostType, LvmdType, StatusType
  <2>2. ApiType'
    BY <1>30 DEF SyncCache, apiVars, ApiType
  <2>3. WorkType'
    BY <1>30 DEF SyncCache, workVars, localVars, WorkType
  <2> QED
    BY <2>1, <2>2, <2>3, TypePartsPrime
<1>31. ASSUME NEW v \in VGs, EnqueueAgain(v) PROVE TypeOK'
  <2>1. ApiType' /\ StatusType' /\ HostType' /\ LvmdType' /\ FaultsType'
    BY <1>31 DEF EnqueueAgain, apiVars, hostVars, lvmdVars, ApiType, FaultsType,
       HostType, LvmdType, StatusType
  <2>2. WorkType'
    BY <1>31 DEF EnqueueAgain, workVars, localVars, WorkType
  <2> QED
    BY <2>1, <2>2, TypePartsPrime
<1>32. ASSUME NEW v \in VGs, CreateVolumeGroup(v) PROVE TypeOK'
  <2>1. ApiType'
    <3>1. PICK p \in ValidPaths(v), r \in Ratios :
            api' = [api EXCEPT ![v] = [NoObject EXCEPT !.alive = TRUE, !.paths = p, !.ratio = r]]
      BY <1>32 DEF CreateVolumeGroup
    <3>2. [NoObject EXCEPT !.alive = TRUE, !.paths = p, !.ratio = r] \in Objects
      BY ObjectTypes
    <3> QED
      BY <1>32, <3>1, <3>2 DEF CreateVolumeGroup, operatorUnchanged, ApiType
  <2>2. StatusType'
    BY <1>32 DEF CreateVolumeGroup, operatorUnchanged, StatusType
  <2>3. HostType'
    BY <1>32 DEF CreateVolumeGroup, operatorUnchanged, hostVars, HostType
  <2>4. LvmdType'
    BY <1>32 DEF CreateVolumeGroup, operatorUnchanged, lvmdVars, LvmdType
  <2>5. WorkType'
    BY <1>32 DEF CreateVolumeGroup, operatorUnchanged, workVars, localVars, WorkType
  <2>6. FaultsType'
    BY <1>32 DEF CreateVolumeGroup, operatorUnchanged, FaultsType
  <2> QED
    BY <2>1, <2>2, <2>3, <2>4, <2>5, <2>6, TypePartsPrime
<1>33. ASSUME NEW v \in VGs, EditVolumeGroup(v) PROVE TypeOK'
  <2>1. ApiType'
    <3>1. PICK p \in ValidPaths(v), r \in Ratios :
            api' = [api EXCEPT ![v].paths = p, ![v].ratio = r]
      BY <1>33 DEF EditVolumeGroup
    <3>2. [api[v] EXCEPT !.paths = p, !.ratio = r] \in Objects
      BY ObjectTypes DEF ApiType
    <3>3. api' = [api EXCEPT ![v] = [api[v] EXCEPT !.paths = p, !.ratio = r]]
      BY <3>1 DEF ApiType, Objects
    <3> QED
      BY <1>33, <3>2, <3>3 DEF EditVolumeGroup, operatorUnchanged, ApiType
  <2>2. StatusType'
    BY <1>33 DEF EditVolumeGroup, operatorUnchanged, StatusType
  <2>3. HostType'
    BY <1>33 DEF EditVolumeGroup, operatorUnchanged, hostVars, HostType
  <2>4. LvmdType'
    BY <1>33 DEF EditVolumeGroup, operatorUnchanged, lvmdVars, LvmdType
  <2>5. WorkType'
    BY <1>33 DEF EditVolumeGroup, operatorUnchanged, workVars, localVars, WorkType
  <2>6. FaultsType'
    BY <1>33 DEF EditVolumeGroup, operatorUnchanged, FaultsType
  <2> QED
    BY <2>1, <2>2, <2>3, <2>4, <2>5, <2>6, TypePartsPrime
<1>34. ASSUME NEW v \in VGs, DeleteVolumeGroup(v) PROVE TypeOK'
  <2>1. ApiType'
    <3>1. PICK o \in Objects : api' = [api EXCEPT ![v] = o]
      BY <1>34, ObjectTypes DEF DeleteVolumeGroup, ApiType
    <3> QED
      BY <1>34, <3>1 DEF DeleteVolumeGroup, operatorUnchanged, ApiType
  <2>2. StatusType'
    BY <1>34 DEF DeleteVolumeGroup, operatorUnchanged, StatusType
  <2>3. HostType'
    BY <1>34 DEF DeleteVolumeGroup, operatorUnchanged, hostVars, HostType
  <2>4. LvmdType'
    BY <1>34 DEF DeleteVolumeGroup, operatorUnchanged, lvmdVars, LvmdType
  <2>5. WorkType'
    BY <1>34 DEF DeleteVolumeGroup, operatorUnchanged, workVars, localVars, WorkType
  <2>6. FaultsType'
    BY <1>34 DEF DeleteVolumeGroup, operatorUnchanged, FaultsType
  <2> QED
    BY <2>1, <2>2, <2>3, <2>4, <2>5, <2>6, TypePartsPrime
<1>35. ASSUME NEW v \in VGs, OtherNodesDone(v) PROVE TypeOK'
  <2>1. ApiType'
    BY <1>35, ObjectTypes DEF OtherNodesDone, operatorUnchanged, apiVars, ApiType
  <2>2. StatusType'
    BY <1>35 DEF OtherNodesDone, operatorUnchanged, StatusType
  <2>3. HostType'
    BY <1>35 DEF OtherNodesDone, operatorUnchanged, hostVars, HostType
  <2>4. LvmdType'
    BY <1>35 DEF OtherNodesDone, operatorUnchanged, lvmdVars, LvmdType
  <2>5. WorkType'
    BY <1>35 DEF OtherNodesDone, operatorUnchanged, workVars, localVars, WorkType
  <2>6. FaultsType'
    BY <1>35 DEF OtherNodesDone, operatorUnchanged, FaultsType
  <2> QED
    BY <2>1, <2>2, <2>3, <2>4, <2>5, <2>6, TypePartsPrime
<1>36. ASSUME NEW v \in VGs, SetStorageClass(v) PROVE TypeOK'
  <2>1. ApiType'
    BY <1>36, ObjectTypes DEF SetStorageClass, operatorUnchanged, apiVars, ApiType
  <2>2. StatusType'
    BY <1>36 DEF SetStorageClass, operatorUnchanged, StatusType
  <2>3. HostType'
    BY <1>36 DEF SetStorageClass, operatorUnchanged, hostVars, HostType
  <2>4. LvmdType'
    BY <1>36 DEF SetStorageClass, operatorUnchanged, lvmdVars, LvmdType
  <2>5. WorkType'
    BY <1>36 DEF SetStorageClass, operatorUnchanged, workVars, localVars, WorkType
  <2>6. FaultsType'
    BY <1>36 DEF SetStorageClass, operatorUnchanged, FaultsType
  <2> QED
    BY <2>1, <2>2, <2>3, <2>4, <2>5, <2>6, TypePartsPrime
<1>37. CASE CreateNodeStatus
  <2>1. ApiType'
    BY <1>37 DEF CreateNodeStatus, operatorUnchanged, apiVars, ApiType
  <2>2. StatusType'
    BY <1>37 DEF CreateNodeStatus, operatorUnchanged, StatusType
  <2>3. HostType'
    BY <1>37 DEF CreateNodeStatus, operatorUnchanged, hostVars, HostType
  <2>4. LvmdType'
    BY <1>37 DEF CreateNodeStatus, operatorUnchanged, lvmdVars, LvmdType
  <2>5. WorkType'
    BY <1>37 DEF CreateNodeStatus, operatorUnchanged, workVars, localVars, WorkType
  <2>6. FaultsType'
    BY <1>37 DEF CreateNodeStatus, operatorUnchanged, FaultsType
  <2> QED
    BY <2>1, <2>2, <2>3, <2>4, <2>5, <2>6, TypePartsPrime
<1>38. CASE RelabelNode
  <2>1. StatusType' /\ HostType' /\ LvmdType' /\ WorkType'
    BY <1>38 DEF RelabelNode, hostVars, lvmdVars, workVars, localVars, HostType,
       LvmdType, StatusType, WorkType
  <2>2. ApiType'
    BY <1>38 DEF RelabelNode, apiVars, ApiType
  <2>3. FaultsType'
    BY <1>38, CallType DEF RelabelNode, FaultsType
  <2> QED
    BY <2>1, <2>2, <2>3, TypePartsPrime
<1>39. ASSUME NEW v \in VGs, CreateLogicalVolume(v) PROVE TypeOK'
  <2>1. ApiType' /\ StatusType' /\ LvmdType' /\ WorkType' /\ FaultsType'
    BY <1>39 DEF CreateLogicalVolume, apiVars, lvmdVars, workVars, localVars, ApiType,
       FaultsType, LvmdType, StatusType, WorkType
  <2>2. HostType'
    BY <1>39 DEF CreateLogicalVolume, hostVars, HostType
  <2> QED
    BY <2>1, <2>2, TypePartsPrime
<1>40. ASSUME NEW v \in VGs, DeleteLogicalVolumes(v) PROVE TypeOK'
  <2>1. ApiType' /\ StatusType' /\ LvmdType' /\ WorkType' /\ FaultsType'
    BY <1>40 DEF DeleteLogicalVolumes, apiVars, lvmdVars, workVars, localVars, ApiType,
       FaultsType, LvmdType, StatusType, WorkType
  <2>2. HostType'
    BY <1>40 DEF DeleteLogicalVolumes, hostVars, HostType
  <2> QED
    BY <2>1, <2>2, TypePartsPrime
<1>41. ASSUME NEW d \in Devices, DetachDevice(d) PROVE TypeOK'
  <2>1. ApiType' /\ StatusType' /\ LvmdType' /\ WorkType'
    BY <1>41 DEF DetachDevice, apiVars, lvmdVars, workVars, localVars, ApiType,
       LvmdType, StatusType, WorkType
  <2>2. HostType'
    BY <1>41 DEF DetachDevice, hostVars, HostType
  <2>3. FaultsType'
    BY <1>41, CallType DEF DetachDevice, FaultsType
  <2> QED
    BY <2>1, <2>2, <2>3, TypePartsPrime
<1>42. ASSUME NEW d \in Devices, AttachDevice(d) PROVE TypeOK'
  <2>1. ApiType' /\ StatusType' /\ LvmdType' /\ WorkType' /\ FaultsType'
    BY <1>42 DEF AttachDevice, apiVars, lvmdVars, workVars, localVars, ApiType,
       FaultsType, LvmdType, StatusType, WorkType
  <2>2. HostType'
    BY <1>42 DEF AttachDevice, hostVars, HostType
  <2> QED
    BY <2>1, <2>2, TypePartsPrime
<1>43. CASE UNCHANGED vars
  BY <1>43, TypePartsPrime
  DEF vars, apiVars, hostVars, lvmdVars, localVars, workVars, ApiType, StatusType, HostType, LvmdType, WorkType, FaultsType
<1> QED
  BY <1>1, <1>2, <1>3, <1>4, <1>5, <1>6, <1>7, <1>8, <1>9, <1>10, <1>11, <1>12, <1>13,
     <1>14, <1>15, <1>16, <1>17, <1>18, <1>19, <1>20, <1>21, <1>22, <1>23, <1>24, <1>25,
     <1>26, <1>27, <1>28, <1>29, <1>30, <1>31, <1>32, <1>33, <1>34, <1>35, <1>36, <1>37,
     <1>38, <1>39, <1>40, <1>41, <1>42, <1>43
  DEF Next, Worker, CreatePath, DeletePath, Process, Operator, Environment

\* Every variable keeps its type: TypeOK is an invariant.
THEOREM TypeCorrect == Spec => []TypeOK
BY TypeInit, TypeStep, PTL DEF Spec

=============================================================================
