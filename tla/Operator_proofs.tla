--------------------------- MODULE Operator_proofs ---------------------------
(***************************************************************************)
(* The operator's controllers keep the finalizers of the nodes, and the    *)
(* LVMCluster is released when its storage is gone, for every number of    *)
(* nodes and classes, every interleaving and every fault.                  *)
(***************************************************************************)
EXTENDS Operator, TLAPS

\* The provers a leaf is given to when it names none: most are first-order and
\* go to Zenon, the rest (arithmetic, records, sequences) to the SMT solver.
USE Zenon, SMTT(30)

-----------------------------------------------------------------------------
(***************************************************************************)
(* Type correctness.                                                       *)
(***************************************************************************)

LEMMA TypeParts == TypeOK => ClusterTypeOK /\ WorkerTypeOK /\ RemovalTypeOK
BY DEF TypeOK

LEMMA EmptyTypes ==
    /\ NoCluster \in Clusters /\ NoVG \in VolumeGroups
    /\ NoStatus \in NodeStatuses /\ NoDaemonSet \in DaemonSets
    /\ [c \in Classes |-> NoVG] \in [Classes -> VolumeGroups]
    /\ AnyNode \in Nodes
<1>1. NoCluster \in Clusters /\ NoStatus \in NodeStatuses /\ NoDaemonSet \in DaemonSets
  BY DEF NoCluster, Clusters, NoStatus, NodeStatuses, NoDaemonSet, DaemonSets
<1>2. NoVG \in VolumeGroups
  BY DEF NoVG, VolumeGroups
<1>3. AnyNode \in Nodes
  BY ClusterAssumption DEF AnyNode
<1> QED
  BY <1>1, <1>2, <1>3

LEMMA GroupTypes ==
    ASSUME NEW o \in VolumeGroups
    PROVE  /\ Settled(o) \in VolumeGroups /\ Deleted(o) \in VolumeGroups
           /\ \A fins : Stripped(o, fins) \in VolumeGroups
<1>1. \A p \in VolumeGroups : Settled(p) \in VolumeGroups
  BY EmptyTypes DEF Settled
<1>2. [o EXCEPT !.deleting = TRUE] \in VolumeGroups
  BY DEF VolumeGroups
<1>3. \A fins : [o EXCEPT !.fins = @ \ fins] \in VolumeGroups
  BY DEF VolumeGroups
<1> QED
  BY <1>1, <1>2, <1>3 DEF Deleted, Stripped

LEMMA FaultType ==
    ASSUME ClusterTypeOK, NEW k, Fault(k)
    PROVE  faults' \in 0 .. MaxFaults
BY ClusterAssumption DEF ClusterTypeOK, Fault

LEMMA RestType == Rest => WorkerTypeOK'
BY EmptyTypes DEF Rest, WorkerTypeOK

LEMMA RemovalRestType == RemovalRest => RemovalTypeOK'
BY EmptyTypes DEF RemovalRest, RemovalTypeOK, RemovalPcs

LEMMA GotoType ==
    ASSUME WorkerTypeOK, NEW s \in CreateSteps \cup DeleteSteps, Goto(s)
    PROVE  WorkerTypeOK'
BY DEF WorkerTypeOK, Goto

LEMMA ItemTypes ==
    /\ \A S \in SUBSET Classes : Units(S) \subseteq Items
    /\ \A S \in SUBSET Classes : {<<"class", c>> : c \in S} \subseteq Items
    /\ \A S \in SUBSET Classes : {<<"group", c>> : c \in S} \subseteq Items
    /\ \A c \in Classes : <<"class", c>> \in Items /\ <<"group", c>> \in Items
    /\ \A S \in SUBSET Nodes : {<<"status", n>> : n \in S} \subseteq Items
BY DEF Units, Items

LEMMA ItemDoneType ==
    ASSUME WorkerTypeOK, NEW item, NEW more \in SUBSET Items, ItemDone(item, more)
    PROVE  WorkerTypeOK'
BY DEF WorkerTypeOK, ItemDone

LEMMA UnitFailsType ==
    ASSUME WorkerTypeOK, NEW item, UnitFails(item)
    PROVE  WorkerTypeOK'
BY DEF WorkerTypeOK, UnitFails

LEMMA TypeInit == Init => TypeOK
<1> SUFFICES ASSUME Init PROVE TypeOK
  OBVIOUS
<1>1. ClusterTypeOK
  <2>1. cluster \in Clusters
    BY ClusterAssumption DEF Init, ClusterInit, Clusters
  <2>2. vg \in [Classes -> VolumeGroups] /\ ns \in [Nodes -> NodeStatuses] /\ ds \in DaemonSets
    BY EmptyTypes DEF Init, ClusterInit
  <2>3. nodes \subseteq Nodes
    BY DEF Init, ClusterInit
  <2>4. faults \in 0 .. MaxFaults
    BY ClusterAssumption DEF Init, ClusterInit
  <2> QED
    BY <2>1, <2>2, <2>3, <2>4 DEF Init, ClusterInit, ClusterTypeOK
<1>2. WorkerTypeOK
  BY EmptyTypes DEF Init, WorkerInit, WorkerTypeOK
<1>3. RemovalTypeOK
  BY EmptyTypes DEF Init, RemovalInit, RemovalTypeOK, RemovalPcs
<1> QED
  BY <1>1, <1>2, <1>3 DEF TypeOK

\* Steps that leave a part alone.
LEMMA TypeFrames ==
    /\ ClusterTypeOK /\ UNCHANGED clusterVars => ClusterTypeOK'
    /\ WorkerTypeOK /\ UNCHANGED workerVars => WorkerTypeOK'
    /\ RemovalTypeOK /\ UNCHANGED removalVars => RemovalTypeOK'
<1>1. ClusterTypeOK /\ UNCHANGED clusterVars => ClusterTypeOK'
  BY DEF ClusterTypeOK, clusterVars, objects, machines, storage
<1>2. WorkerTypeOK /\ UNCHANGED workerVars => WorkerTypeOK'
  BY DEF WorkerTypeOK, workerVars
<1>3. RemovalTypeOK /\ UNCHANGED removalVars => RemovalTypeOK'
  BY DEF RemovalTypeOK, removalVars
<1> QED
  BY <1>1, <1>2, <1>3

LEMMA UsersTypes ==
    ASSUME ClusterTypeOK, Users
    PROVE  ClusterTypeOK'
<1> USE DEF ClusterTypeOK, objects, machines, storage
<1>1. CASE DeleteCluster
  BY <1>1, ClusterAssumption, EmptyTypes DEF DeleteCluster, Clusters
<1>2. ASSUME NEW c \in Classes, DropClass(c) \/ AddClass(c) PROVE ClusterTypeOK'
  BY <1>2 DEF DropClass, AddClass, Clusters
<1>3. ASSUME NEW c \in Classes, Claim(c) \/ Unclaim(c) PROVE ClusterTypeOK'
  BY <1>3 DEF Claim, Unclaim
<1>4. ASSUME NEW n \in Nodes, NEW c \in Classes, DeleteRetained(n, c) PROVE ClusterTypeOK'
  BY <1>4 DEF DeleteRetained
<1> QED
  BY <1>1, <1>2, <1>3, <1>4 DEF Users

LEMMA VGManagersTypes ==
    ASSUME ClusterTypeOK, VGManagers
    PROVE  ClusterTypeOK'
<1>0. PICK n \in Nodes, c \in Classes : Hold(n, c) \/ Build(n, c) \/ Tear(n, c) \/ Release(n, c)
  BY DEF VGManagers
<1>1. vg[c] \in VolumeGroups
  BY DEF ClusterTypeOK
<1>2. CASE Hold(n, c)
  <2>1. vg' \in [Classes -> VolumeGroups]
    BY <1>1, <1>2 DEF Hold, ClusterTypeOK, VolumeGroups
  <2> QED
    BY <1>2, <2>1 DEF Hold, ClusterTypeOK, machines, storage
<1>3. CASE Build(n, c)
  <2>1. faults' \in 0 .. MaxFaults
    BY <1>3, FaultType DEF Build, ClusterTypeOK
  <2> QED
    BY <1>3, <2>1 DEF Build, ClusterTypeOK, objects, storage
<1>4. CASE Tear(n, c)
  BY <1>4 DEF Tear, ClusterTypeOK, objects, storage
<1>5. CASE Release(n, c)
  <2>1. vg' \in [Classes -> VolumeGroups]
    BY <1>1, <1>5, GroupTypes DEF Release, ClusterTypeOK
  <2> QED
    BY <1>5, <2>1 DEF Release, ClusterTypeOK, machines, storage
<1> QED
  BY <1>0, <1>2, <1>3, <1>4, <1>5

LEMMA PlatformTypes ==
    ASSUME ClusterTypeOK, Platform
    PROVE  ClusterTypeOK'
<1>1. ASSUME NEW n \in Nodes, Leave(n) \/ Join(n) \/ BecomeUnready(n) PROVE ClusterTypeOK'
  <2>1. faults' \in 0 .. MaxFaults
    BY <1>1, FaultType DEF Leave, Join, BecomeUnready
  <2>2. CASE Leave(n)
    BY <2>1, <2>2 DEF Leave, ClusterTypeOK, objects, storage
  <2>3. CASE Join(n)
    BY <2>1, <2>3 DEF Join, ClusterTypeOK, objects, storage
  <2>4. CASE BecomeUnready(n)
    BY <2>1, <2>4 DEF BecomeUnready, ClusterTypeOK, objects, storage
  <2> QED
    BY <1>1, <2>2, <2>3, <2>4
<1>2. ASSUME NEW n \in Nodes, BecomeReady(n) \/ StartPod(n) \/ StopPod(n) PROVE ClusterTypeOK'
  BY <1>2 DEF BecomeReady, StartPod, StopPod, ClusterTypeOK, objects, storage
<1>3. ASSUME NEW n \in Nodes, CollectStatus(n) PROVE ClusterTypeOK'
  BY <1>3 DEF CollectStatus, ClusterTypeOK, NodeStatuses, machines, storage
<1>4. ASSUME NEW c \in Classes, CollectVG(c) PROVE ClusterTypeOK'
  <2>1. vg' \in [Classes -> VolumeGroups]
    BY <1>4, GroupTypes DEF CollectVG, ClusterTypeOK
  <2> QED
    BY <1>4, <2>1 DEF CollectVG, ClusterTypeOK, machines, storage
<1>5. CASE CollectDaemonSet
  BY <1>5, EmptyTypes DEF CollectDaemonSet, ClusterTypeOK, machines, storage
<1>6. ASSUME NEW n \in Nodes, NEW c \in Classes, Provision(n, c) \/ Reclaim(n, c)
      PROVE  ClusterTypeOK'
  BY <1>6 DEF Provision, Reclaim, ClusterTypeOK, objects, machines
<1> QED
  BY <1>1, <1>2, <1>3, <1>4, <1>5, <1>6 DEF Platform

LEMMA RemovalTypes ==
    ASSUME ClusterTypeOK, RemovalTypeOK, RemovalNext
    PROVE  ClusterTypeOK' /\ RemovalTypeOK'
<1>1. ASSUME NEW n \in Nodes, RemGet(n) PROVE ClusterTypeOK' /\ RemovalTypeOK'
  BY <1>1, TypeFrames DEF RemGet, ClusterTypeOK, RemovalTypeOK, RemovalPcs
<1>2. CASE RemGetNode \/ RemList
  BY <1>2, TypeFrames, RemovalRestType
  DEF RemGetNode, RemList, ClusterTypeOK, RemovalTypeOK, RemovalPcs
<1>3. CASE RemDelete \/ RemUpdate
  <2>1. ns' \in [Nodes -> NodeStatuses]
    <3>1. CASE RemDelete
      <4>1. UNCHANGED ns \/ ns' = [ns EXCEPT ![remNode].deleting = TRUE]
        BY <3>1 DEF RemDelete
      <4> QED
        BY <4>1 DEF ClusterTypeOK, NodeStatuses
    <3>2. CASE RemUpdate
      BY <3>2, EmptyTypes DEF RemUpdate, ClusterTypeOK, RemovalTypeOK
    <3> QED
      BY <1>3, <3>1, <3>2
  <2>2. ClusterTypeOK'
    BY <1>3, <2>1 DEF RemDelete, RemUpdate, ClusterTypeOK, machines, storage
  <2>3. RemovalTypeOK'
    BY <1>3, RemovalRestType DEF RemDelete, RemUpdate, RemovalTypeOK, RemovalPcs
  <2> QED
    BY <2>2, <2>3
<1>4. ASSUME NEW c \in Classes, RemClean(c) PROVE ClusterTypeOK' /\ RemovalTypeOK'
  <2>1. vg' \in [Classes -> VolumeGroups]
    BY <1>4, GroupTypes DEF RemClean, ClusterTypeOK
  <2>2. ClusterTypeOK'
    BY <1>4, <2>1 DEF RemClean, ClusterTypeOK, machines, storage
  <2>3. RemovalTypeOK'
    BY <1>4, RemovalRestType DEF RemClean, RemovalTypeOK
  <2> QED
    BY <2>2, <2>3
<1>5. CASE RemFails
  BY <1>5, FaultType, RemovalRestType DEF RemFails, ClusterTypeOK, objects, machines, storage
<1> QED
  BY <1>1, <1>2, <1>3, <1>4, <1>5 DEF RemovalNext

LEMMA CreateTypes ==
    ASSUME ClusterTypeOK, WorkerTypeOK, CreatePath
    PROVE  ClusterTypeOK' /\ WorkerTypeOK'
<1>0. inst.classes \subseteq Classes
  BY DEF WorkerTypeOK, Clusters
<1>1. CASE AddFinalizer
  <2>1. cluster' \in Clusters
    BY <1>1 DEF AddFinalizer, ClusterTypeOK, Clusters
  <2>2. WorkerTypeOK'
    BY <1>0, <1>1, <2>1, ItemTypes, RestType DEF AddFinalizer, WorkerTypeOK, CreateSteps
  <2> QED
    BY <1>1, <2>1, <2>2 DEF AddFinalizer, ClusterTypeOK, machines, storage
<1>2. ASSUME NEW c \in Classes, EnsureGroup(c) PROVE ClusterTypeOK' /\ WorkerTypeOK'
  <2>1. vg' \in [Classes -> VolumeGroups]
    BY <1>2 DEF EnsureGroup, ClusterTypeOK, VolumeGroups
  <2> QED
    BY <1>2, <2>1, ItemDoneType DEF EnsureGroup, ClusterTypeOK, machines, storage
<1>3. ASSUME NEW c \in Classes, EnsureStorageClass(c) PROVE ClusterTypeOK' /\ WorkerTypeOK'
  BY <1>3, ItemDoneType DEF EnsureStorageClass, ClusterTypeOK, machines, storage
<1>4. CASE EnsureDaemonSet
  <2>1. EnsuredDaemonSet(inst.classes) \in DaemonSets
    BY <1>0, ClusterAssumption DEF EnsuredDaemonSet, Selected, DaemonSets, ClusterTypeOK
  <2> QED
    BY <1>4, <2>1, ItemDoneType, UnitFailsType DEF EnsureDaemonSet, ClusterTypeOK, machines, storage
<1>5. CASE ListValidNodes
  <2>1. ValidNodes(inst.classes) \subseteq Nodes
    BY DEF ValidNodes, ClusterTypeOK
  <2>2. todo' \subseteq Items
    BY <1>5, <2>1, ItemTypes DEF ListValidNodes, WorkerTypeOK
  <2>3. failed' \in BOOLEAN
    BY <1>5, Zenon DEF ListValidNodes, WorkerTypeOK, ValidNodesFails
  <2> QED
    BY <1>5, <2>2, <2>3, TypeFrames DEF ListValidNodes, WorkerTypeOK
<1>6. ASSUME NEW n \in Nodes, EnsureStatus(n) PROVE ClusterTypeOK' /\ WorkerTypeOK'
  <2>1. ns' \in [Nodes -> NodeStatuses]
    BY <1>6 DEF EnsureStatus, ClusterTypeOK, NodeStatuses
  <2> QED
    BY <1>6, <2>1, ItemDoneType DEF EnsureStatus, ClusterTypeOK, machines, storage
<1>7. CASE EnsureCSINode
  BY <1>7, TypeFrames, ItemDoneType, UnitFailsType DEF EnsureCSINode
<1>8. CASE EnsureRest
  <2>1. extra' \subseteq Extras
    BY <1>8 DEF EnsureRest, CreateSnapshotClasses, CreateSCCs, CreateServiceMonitor,
       CreateCSIDriver, CreatePolicies, Extras, ClusterTypeOK
  <2> QED
    BY <1>8, <2>1, ItemDoneType DEF EnsureRest, ClusterTypeOK, machines, storage
<1>9. CASE UnitsDone
  BY <1>9, TypeFrames, RestType, ItemTypes DEF UnitsDone, WorkerTypeOK, ClusterTypeOK, CreateSteps
<1>10. ASSUME NEW c \in Classes, DropStorageClass(c) PROVE ClusterTypeOK' /\ WorkerTypeOK'
  <2>1. WorkerTypeOK'
    BY <1>10, RestType, ItemDoneType, ItemTypes DEF DropStorageClass
  <2> QED
    BY <1>10, <2>1 DEF DropStorageClass, ClusterTypeOK, machines, storage
<1>11. ASSUME NEW c \in Classes, DropGroup(c) PROVE ClusterTypeOK' /\ WorkerTypeOK'
  <2>1. vg' \in [Classes -> VolumeGroups]
    BY <1>11, GroupTypes DEF DropGroup, ClusterTypeOK
  <2>2. WorkerTypeOK'
    BY <1>11, RestType, ItemDoneType DEF DropGroup
  <2> QED
    BY <1>11, <2>1, <2>2 DEF DropGroup, ClusterTypeOK, machines, storage
<1> QED
  BY <1>1, <1>2, <1>3, <1>4, <1>5, <1>6, <1>7, <1>8, <1>9, <1>10, <1>11 DEF CreatePath

LEMMA DeleteTypes ==
    ASSUME ClusterTypeOK, WorkerTypeOK, DeletePath
    PROVE  ClusterTypeOK' /\ WorkerTypeOK'
<1> USE DEF DeleteSteps
<1>1. CASE ListNodes
  BY <1>1, TypeFrames DEF ListNodes, WorkerTypeOK, ClusterTypeOK
<1>2. CASE ListGroups
  BY <1>2, TypeFrames, GotoType, ItemTypes DEF ListGroups, WorkerTypeOK, ClusterTypeOK
<1>3. ASSUME NEW c \in Classes, StripGroup(c) PROVE ClusterTypeOK' /\ WorkerTypeOK'
  <2>1. vg' \in [Classes -> VolumeGroups]
    BY <1>3, GroupTypes DEF StripGroup, ClusterTypeOK
  <2>2. WorkerTypeOK'
    BY <1>3, RestType DEF StripGroup, WorkerTypeOK
  <2> QED
    BY <1>3, <2>1, <2>2 DEF StripGroup, ClusterTypeOK, machines, storage
<1>4. CASE FreeVolumes
  <2>1. freed' \subseteq vols
    BY <1>4 DEF FreeVolumes, ClusterTypeOK
  <2> QED
    BY <1>4, <2>1, GotoType DEF FreeVolumes, ClusterTypeOK, objects, machines
<1>5. CASE CheckClaims \/ CheckRetained
  BY <1>5, TypeFrames, GotoType, RestType DEF CheckClaims, CheckRetained
<1>6. CASE DeleteGroups
  <2>1. vg' \in [Classes -> VolumeGroups]
    BY <1>6, GroupTypes DEF DeleteGroups, ClusterTypeOK
  <2>2. WorkerTypeOK'
    BY <1>6, GotoType, RestType DEF DeleteGroups
  <2> QED
    BY <1>6, <2>1, <2>2 DEF DeleteGroups, ClusterTypeOK, machines, storage
<1>7. CASE DeleteDaemonSet
  BY <1>7, EmptyTypes, GotoType, RestType DEF DeleteDaemonSet, ClusterTypeOK, machines, storage
<1>8. CASE DeleteStatuses
  <2>1. WorkerTypeOK'
    BY <1>8, GotoType, RestType DEF DeleteStatuses
  <2>2. \A n \in Nodes : [ns[n] EXCEPT !.deleting = TRUE] \in NodeStatuses
    BY DEF ClusterTypeOK, NodeStatuses
  <2>3. ns' \in [Nodes -> NodeStatuses]
    BY <1>8, <2>2, EmptyTypes DEF DeleteStatuses, ClusterTypeOK
  <2> QED
    BY <1>8, <2>1, <2>3 DEF DeleteStatuses, ClusterTypeOK, machines, storage
<1>9. CASE DeleteStorageClasses
  BY <1>9, GotoType DEF DeleteStorageClasses, DeleteCSIDriver, ClusterTypeOK, machines, storage
<1>10. CASE CheckCSINodes
  <2>1. extra' \subseteq Extras
    BY <1>10 DEF CheckCSINodes, DeleteSnapshotClasses, DeleteSCCs, DeletePolicies,
       DeleteServiceMonitor, ClusterTypeOK
  <2>2. WorkerTypeOK'
    BY <1>10, GotoType, RestType DEF CheckCSINodes
  <2> QED
    BY <1>10, <2>1, <2>2 DEF CheckCSINodes, ClusterTypeOK, machines, storage
<1>11. CASE ReleaseCluster
  BY <1>11, EmptyTypes, RestType DEF ReleaseCluster, ClusterTypeOK, machines, storage
<1> QED
  BY <1>1, <1>2, <1>3, <1>4, <1>5, <1>6, <1>7, <1>8, <1>9, <1>10, <1>11 DEF DeletePath

LEMMA TypeStep == TypeOK /\ [Next]_vars => TypeOK'
<1> SUFFICES ASSUME ClusterTypeOK, WorkerTypeOK, RemovalTypeOK, [Next]_vars
             PROVE  ClusterTypeOK' /\ WorkerTypeOK' /\ RemovalTypeOK'
  BY DEF TypeOK
<1>1. CASE Surroundings /\ UNCHANGED <<workerVars, removalVars>>
  BY <1>1, TypeFrames, UsersTypes, VGManagersTypes, PlatformTypes DEF Surroundings
<1>2. CASE RemovalNext /\ UNCHANGED workerVars
  BY <1>2, TypeFrames, RemovalTypes
<1>3. CASE (CreatePath \/ DeletePath) /\ UNCHANGED removalVars
  BY <1>3, TypeFrames, CreateTypes, DeleteTypes
<1>4. CASE Reconcile /\ UNCHANGED removalVars
  <2>1. WorkerTypeOK'
    BY <1>4, ItemTypes DEF Reconcile, WorkerTypeOK, ClusterTypeOK, Clusters, CreateSteps, DeleteSteps
  <2> QED
    BY <1>4, <2>1, TypeFrames DEF Reconcile
<1>5. CASE RequestFails /\ UNCHANGED removalVars
  BY <1>5, TypeFrames, RestType, FaultType DEF RequestFails, ClusterTypeOK, objects, machines, storage
<1>6. ASSUME NEW item \in Items, ItemFails(item), UNCHANGED removalVars
      PROVE  ClusterTypeOK' /\ WorkerTypeOK' /\ RemovalTypeOK'
  BY <1>6, TypeFrames, UnitFailsType, FaultType
  DEF ItemFails, ClusterTypeOK, objects, machines, storage
<1>7. CASE Crash
  BY <1>7, RestType, RemovalRestType, FaultType DEF Crash, ClusterTypeOK, objects, machines, storage
<1>8. CASE UNCHANGED vars
  BY <1>8, TypeFrames DEF vars
<1> QED
  BY <1>1, <1>2, <1>3, <1>4, <1>5, <1>6, <1>7, <1>8 DEF Next, WorkerNext

\* Every reachable state is well typed: the shared objects, and what the two
\* controllers remember between their requests.
THEOREM TypeCorrect == Spec => []TypeOK
BY TypeInit, TypeStep, PTL DEF Spec

-----------------------------------------------------------------------------
(***************************************************************************)
(* The inductive invariant.                                                *)
(***************************************************************************)

\* An LVMVolumeGroup that does not exist carries nothing, and one that is being
\* deleted exists because of a finalizer.
GroupsFit ==
    \A c \in Classes : /\ vg[c].alive \/ vg[c] = NoVG
                       /\ vg[c].deleting => vg[c].fins # {}

\* A volume is in a volume group.
VolumesFit == vols \subseteq host

\* Whatever mentions a node has been written when the node was in the cluster.
Unknown(n) == n \notin nodes \cup left

NodesFit ==
    \A n \in Nodes : Unknown(n) =>
        /\ ~ns[n].alive
        /\ \A c \in Classes : n \notin vg[c].fins /\ <<n, c>> \notin host
        /\ <<"status", n>> \notin todo
        /\ remPc # "idle" => remNode # n

\* A node that joined after the nodes were listed has no status, and therefore
\* no finalizer that could be taken for a stale one.
ListFits ==
    pc \in {"stale", "strip"} =>
        \A n \in Present \ known : ~ns[n].alive /\ \A c \in Classes : n \notin vg[c].fins

\* Node removal works on a node that was gone when it looked.
RemovalFits == remPc \in {"delete", "update", "list", "clean"} => remNode \in left

\* What processDelete has seen to be gone stays so.
AfterGroups == {"daemon", "statuses", "classes", "csinode", "release"}
AfterDaemon == {"statuses", "classes", "csinode", "release"}

GatesFit ==
    /\ pc \in AfterGroups => \A c \in inst.classes : ~vg[c].alive
    /\ pc \in AfterDaemon => ~ds.alive /\ pods = {}
    /\ pc \in {"csinode", "release"} => sc \cap inst.classes = {} /\ "csidriver" \notin extra
    /\ pc = "release" => extra \subseteq {"scc"}

\* The finalizer of the LVMCluster is added to one that exists.
ClusterFits ==
    /\ cluster.fin => cluster.alive
    /\ pc = "finalizer" => inst.alive

Inv == /\ TypeOK /\ GroupsFit /\ NodesFit /\ ListFits /\ RemovalFits /\ GatesFit
       /\ ClusterFits /\ VolumesFit /\ HostGuarded

-----------------------------------------------------------------------------
(***************************************************************************)
(* What a step may do to each part of the state.                           *)
(***************************************************************************)

\* Kinds of steps.
SurroundingsStep == Surroundings /\ UNCHANGED <<workerVars, removalVars>>
RemovalStep == RemovalNext /\ UNCHANGED workerVars
WorkerStep == (CreatePath \/ DeletePath) /\ UNCHANGED removalVars
QuietStep ==
    \/ Reconcile \/ RequestFails \/ (\E item \in Items : ItemFails(item))
    \/ Crash \/ UNCHANGED vars

LEMMA StepKinds ==
    ASSUME [Next]_vars
    PROVE  SurroundingsStep \/ RemovalStep \/ WorkerStep \/ QuietStep
BY DEF Next, WorkerNext, SurroundingsStep, RemovalStep, WorkerStep, QuietStep

LEMMA QuietLeaves == QuietStep => UNCHANGED <<objects, machines, storage>>
BY DEF QuietStep, Reconcile, RequestFails, ItemFails, Crash, vars, clusterVars

\* Nodes come and go; one that was in the cluster is remembered.
LEMMA NodesStep ==
    ASSUME Inv, [Next]_vars
    PROVE  /\ left \subseteq left' /\ nodes \subseteq nodes' \cup left'
           /\ \A n \in Nodes : n \in Present' => n \in Present \/ Unknown(n)
<1>1. \/ UNCHANGED <<nodes, left>>
      \/ \E n \in Nodes : Leave(n) \/ Join(n)
  <2>1. CASE SurroundingsStep
    BY <2>1 DEF SurroundingsStep, Surroundings, Users, VGManagers, Platform, DeleteCluster,
       DropClass, AddClass, Claim, Unclaim, DeleteRetained, Hold, Build, Tear, Release,
       BecomeUnready, BecomeReady, StartPod, StopPod, CollectStatus, CollectVG,
       CollectDaemonSet, Provision, Reclaim, machines
  <2>2. CASE RemovalStep
    BY <2>2 DEF RemovalStep, RemovalNext, RemGet, RemGetNode, RemDelete, RemUpdate, RemList,
       RemClean, RemFails, clusterVars, machines
  <2>3. CASE WorkerStep
    BY <2>3 DEF WorkerStep, CreatePath, DeletePath, AddFinalizer, EnsureDaemonSet,
       ListValidNodes, EnsureCSINode, EnsureRest, UnitsDone, EnsureGroup, EnsureStorageClass,
       DropStorageClass, DropGroup, EnsureStatus, ListNodes, ListGroups, FreeVolumes,
       CheckClaims, CheckRetained, DeleteGroups, DeleteDaemonSet, DeleteStatuses,
       DeleteStorageClasses, CheckCSINodes, ReleaseCluster, StripGroup, clusterVars, machines
  <2>4. CASE QuietStep
    BY <2>4, QuietLeaves DEF machines
  <2> QED
    BY <2>1, <2>2, <2>3, <2>4, StepKinds
<1> QED
  BY <1>1 DEF Leave, Join, Present, Unknown, Inv, TypeOK, ClusterTypeOK

\* A volume group appears on a node that holds the LVMVolumeGroup.
LEMMA HostStep ==
    ASSUME [Next]_vars
    PROVE  \/ host' \subseteq host
           \/ \E n \in Nodes, c \in Classes : Build(n, c)
<1>1. CASE SurroundingsStep
  BY <1>1 DEF SurroundingsStep, Surroundings, Users, VGManagers, Platform, DeleteCluster,
     DropClass, AddClass, Claim, Unclaim, DeleteRetained, Hold, Tear, Release,
     Leave, Join, BecomeUnready, BecomeReady, StartPod, StopPod, CollectStatus, CollectVG,
     CollectDaemonSet, Provision, Reclaim, machines
<1>2. CASE RemovalStep
  BY <1>2 DEF RemovalStep, RemovalNext, RemGet, RemGetNode, RemDelete, RemUpdate, RemList,
     RemClean, RemFails, clusterVars, machines
<1>3. CASE WorkerStep
  BY <1>3 DEF WorkerStep, CreatePath, DeletePath, AddFinalizer, EnsureDaemonSet,
     ListValidNodes, EnsureCSINode, EnsureRest, UnitsDone, EnsureGroup, EnsureStorageClass,
     DropStorageClass, DropGroup, EnsureStatus, ListNodes, ListGroups, FreeVolumes,
     CheckClaims, CheckRetained, DeleteGroups, DeleteDaemonSet, DeleteStatuses,
     DeleteStorageClasses, CheckCSINodes, ReleaseCluster, StripGroup, clusterVars, machines
<1>4. CASE QuietStep
  BY <1>4, QuietLeaves DEF machines
<1> QED
  BY <1>1, <1>2, <1>3, <1>4, StepKinds

\* The nodes whose status may be created: those that the worker has listed.
LEMMA StatusStep ==
    ASSUME Inv, [Next]_vars, NEW n \in Nodes, ns'[n].alive
    PROVE  ns[n].alive \/ (pc = "ensure" /\ <<"status", n>> \in todo)
<1>0. ns \in [Nodes -> NodeStatuses] /\ ~NoStatus.alive
  BY DEF Inv, TypeOK, ClusterTypeOK, NoStatus
<1>1. CASE SurroundingsStep
  <2>1. UNCHANGED ns \/ \E m \in Nodes : CollectStatus(m)
    BY <1>1 DEF SurroundingsStep, Surroundings, Users, VGManagers, Platform, DeleteCluster,
       DropClass, AddClass, Claim, Unclaim, DeleteRetained, Hold, Build, Tear, Release,
       Leave, Join, BecomeUnready, BecomeReady, StartPod, StopPod, CollectVG,
       CollectDaemonSet, Provision, Reclaim, objects
  <2> QED
    BY <1>0, <2>1 DEF CollectStatus, NodeStatuses
<1>2. CASE RemovalStep
  <2>1. UNCHANGED ns \/ RemDelete \/ RemUpdate
    BY <1>2 DEF RemovalStep, RemovalNext, RemGet, RemGetNode, RemList, RemClean, RemFails,
       clusterVars, objects
  <2> QED
    BY <1>0, <2>1 DEF RemDelete, RemUpdate, NodeStatuses
<1>3. CASE WorkerStep
  <2>1. UNCHANGED ns \/ DeleteStatuses \/ \E m \in Nodes : EnsureStatus(m)
    BY <1>3 DEF WorkerStep, CreatePath, DeletePath, AddFinalizer, EnsureDaemonSet,
       ListValidNodes, EnsureCSINode, EnsureRest, UnitsDone, EnsureGroup, EnsureStorageClass,
       DropStorageClass, DropGroup, ListNodes, ListGroups, FreeVolumes,
       CheckClaims, CheckRetained, DeleteGroups, DeleteDaemonSet,
       DeleteStorageClasses, CheckCSINodes, ReleaseCluster, StripGroup, clusterVars, objects
  <2>2. CASE DeleteStatuses
    BY <1>0, <2>2 DEF DeleteStatuses, NodeStatuses
  <2>3. ASSUME NEW m \in Nodes, EnsureStatus(m)
        PROVE  ns[n].alive \/ (pc = "ensure" /\ <<"status", n>> \in todo)
    BY <1>0, <2>3 DEF EnsureStatus, Ensures, NodeStatuses
  <2> QED
    BY <2>1, <2>2, <2>3
<1>4. CASE QuietStep
  BY <1>4, QuietLeaves DEF objects
<1> QED
  BY <1>1, <1>2, <1>3, <1>4, StepKinds

\* What happens to the LVMVolumeGroup of a class: created, deleted, held by a
\* node that has a status, or stripped of finalizers, those of nodes that stay in
\* the cluster only by their own vgmanager.
Ensured(c) == pc = "ensure" /\ vg'[c] = [vg[c] EXCEPT !.alive = TRUE]
HeldBy(n, c) ==
    /\ n \in nodes /\ ns[n].alive /\ vg[c].alive /\ ~vg[c].deleting
    /\ vg'[c] = [vg[c] EXCEPT !.fins = @ \cup {n}]
StrippedOf(fins, c) ==
    /\ vg'[c] = Stripped(vg[c], fins)
    /\ \A n \in fins \cap vg[c].fins : n \in Present => vg[c].deleting /\ <<n, c>> \notin host

GroupChange(c) ==
    \/ vg'[c] = vg[c] \/ vg'[c] = Deleted(vg[c])
    \/ Ensured(c)
    \/ \E n \in Nodes : HeldBy(n, c)
    \/ \E fins \in SUBSET Nodes : StrippedOf(fins, c)

LEMMA SurroundingsGroups ==
    ASSUME Inv, SurroundingsStep, NEW c \in Classes
    PROVE  GroupChange(c)
<1>0. vg \in [Classes -> VolumeGroups]
  BY DEF Inv, TypeOK, ClusterTypeOK
<1>1. \/ UNCHANGED vg \/ \E d \in Classes : CollectVG(d)
      \/ \E n \in Nodes, d \in Classes : Hold(n, d) \/ Release(n, d)
  BY DEF SurroundingsStep, Surroundings, Users, VGManagers, Platform, DeleteCluster,
     DropClass, AddClass, Claim, Unclaim, DeleteRetained, Build, Tear,
     Leave, Join, BecomeUnready, BecomeReady, StartPod, StopPod, CollectStatus,
     CollectDaemonSet, Provision, Reclaim, objects
<1>2. ASSUME NEW d \in Classes, CollectVG(d) PROVE GroupChange(c)
  BY <1>0, <1>2 DEF CollectVG, GroupChange
<1>3. ASSUME NEW n \in Nodes, NEW d \in Classes, Hold(n, d) PROVE GroupChange(c)
  <2>1. CASE c = d
    <3>1. HeldBy(n, c)
      BY <1>0, <1>3, <2>1 DEF Hold, HeldBy, Reconciles, VolumeGroups
    <3> QED
      BY <3>1 DEF GroupChange
  <2>2. CASE c # d
    BY <1>0, <1>3, <2>2 DEF Hold, GroupChange
  <2> QED
    BY <2>1, <2>2
<1>4. ASSUME NEW n \in Nodes, NEW d \in Classes, Release(n, d) PROVE GroupChange(c)
  <2>1. CASE c = d
    <3>1. StrippedOf({n}, c)
      BY <1>0, <1>4, <2>1 DEF Release, StrippedOf
    <3> QED
      BY <3>1 DEF GroupChange
  <2>2. CASE c # d
    BY <1>0, <1>4, <2>2 DEF Release, GroupChange
  <2> QED
    BY <2>1, <2>2
<1> QED
  BY <1>1, <1>2, <1>3, <1>4 DEF GroupChange

LEMMA RemovalGroups ==
    ASSUME Inv, RemovalStep, NEW c \in Classes
    PROVE  GroupChange(c)
<1>0. vg \in [Classes -> VolumeGroups] /\ remNode \in Nodes
  BY DEF Inv, TypeOK, ClusterTypeOK, RemovalTypeOK
<1>1. UNCHANGED vg \/ \E d \in Classes : RemClean(d)
  BY DEF RemovalStep, RemovalNext, RemGet, RemGetNode, RemDelete, RemUpdate, RemList, RemFails,
     clusterVars, objects
<1>2. ASSUME NEW d \in Classes, RemClean(d) PROVE GroupChange(c)
  <2>1. remNode \notin Present
    BY <1>2 DEF RemClean, Inv, RemovalFits, Present
  <2>2. CASE vg'[c] = Stripped(vg[c], {remNode})
    <3>1. StrippedOf({remNode}, c)
      BY <2>1, <2>2 DEF StrippedOf
    <3> QED
      BY <1>0, <3>1 DEF GroupChange
  <2>3. vg'[c] = vg[c] \/ vg'[c] = Stripped(vg[c], {remNode})
    BY <1>0, <1>2 DEF RemClean
  <2> QED
    BY <2>2, <2>3 DEF GroupChange
<1> QED
  BY <1>1, <1>2 DEF GroupChange

LEMMA WorkerGroups ==
    ASSUME Inv, WorkerStep, NEW c \in Classes
    PROVE  GroupChange(c)
<1>0. vg \in [Classes -> VolumeGroups]
  BY DEF Inv, TypeOK, ClusterTypeOK
<1>1. \/ UNCHANGED vg \/ DeleteGroups
      \/ \E d \in Classes : EnsureGroup(d) \/ DropGroup(d) \/ StripGroup(d)
  BY DEF WorkerStep, CreatePath, DeletePath, AddFinalizer, EnsureDaemonSet,
     ListValidNodes, EnsureCSINode, EnsureRest, UnitsDone, EnsureStorageClass,
     DropStorageClass, EnsureStatus, ListNodes, ListGroups, FreeVolumes,
     CheckClaims, CheckRetained, DeleteDaemonSet, DeleteStatuses,
     DeleteStorageClasses, CheckCSINodes, ReleaseCluster, clusterVars, objects
<1>2. CASE DeleteGroups
  BY <1>0, <1>2 DEF DeleteGroups, GroupChange
<1>3. ASSUME NEW d \in Classes, DropGroup(d) PROVE GroupChange(c)
  BY <1>0, <1>3 DEF DropGroup, GroupChange
<1>4. ASSUME NEW d \in Classes, EnsureGroup(d) PROVE GroupChange(c)
  BY <1>0, <1>4 DEF EnsureGroup, Ensures, GroupChange, Ensured
<1>5. ASSUME NEW d \in Classes, StripGroup(d) PROVE GroupChange(c)
  <2>1. CASE UNCHANGED vg
    BY <2>1 DEF GroupChange
  <2>2. ASSUME NEW fins \in StalePicks(seen[d].fins, known), vg[d] = seen[d], pc = "strip",
               vg' = [vg EXCEPT ![d] = Stripped(@, fins)]
        PROVE  GroupChange(c)
    <3>1. fins \subseteq vg[d].fins \ known
      BY <2>2 DEF StalePicks
    <3>2. vg[d].fins \subseteq Nodes
      BY <1>0 DEF VolumeGroups
    <3>3. fins \in SUBSET Nodes /\ \A n \in fins : n \notin Present
      BY <2>2, <3>1, <3>2 DEF Inv, ListFits
    <3>4. CASE c = d
      <4>1. StrippedOf(fins, c)
        BY <1>0, <2>2, <3>3, <3>4 DEF StrippedOf
      <4> QED
        BY <3>3, <4>1 DEF GroupChange
    <3>5. CASE c # d
      BY <1>0, <2>2, <3>5 DEF GroupChange
    <3> QED
      BY <3>4, <3>5
  <2> QED
    BY <1>5, <2>1, <2>2 DEF StripGroup
<1> QED
  BY <1>1, <1>2, <1>3, <1>4, <1>5 DEF GroupChange

LEMMA GroupStep ==
    ASSUME Inv, [Next]_vars, NEW c \in Classes
    PROVE  GroupChange(c)
<1>1. CASE QuietStep
  BY <1>1, QuietLeaves DEF objects, GroupChange
<1> QED
  BY <1>1, StepKinds, SurroundingsGroups, RemovalGroups, WorkerGroups

GroupEffect(c) ==
    /\ vg'[c].alive \/ vg'[c] = NoVG
    /\ vg'[c].deleting => vg'[c].fins # {}
    /\ vg'[c].alive => vg[c].alive \/ pc = "ensure"
    /\ \A n \in Nodes : n \in vg'[c].fins => n \in vg[c].fins \/ (n \in nodes /\ ns[n].alive)
    /\ \A n \in Present : n \in vg[c].fins /\ <<n, c>> \in host => n \in vg'[c].fins

LEMMA GroupEffects ==
    ASSUME Inv, [Next]_vars, NEW c \in Classes
    PROVE  GroupEffect(c)
<1>0. /\ vg[c] \in VolumeGroups /\ (vg[c].alive \/ vg[c] = NoVG)
      /\ vg[c].deleting => vg[c].fins # {}
  BY DEF Inv, TypeOK, ClusterTypeOK, GroupsFit
<1>1. CASE vg'[c] = vg[c]
  BY <1>0, <1>1 DEF GroupEffect
<1>2. CASE vg'[c] = Deleted(vg[c])
  BY <1>0, <1>2 DEF GroupEffect, Deleted, Settled, VolumeGroups, NoVG
<1>3. CASE Ensured(c)
  BY <1>0, <1>3 DEF GroupEffect, Ensured, VolumeGroups, NoVG
<1>4. ASSUME NEW n \in Nodes, HeldBy(n, c) PROVE GroupEffect(c)
  BY <1>0, <1>4 DEF GroupEffect, HeldBy, VolumeGroups, NoVG
<1>5. ASSUME NEW fins \in SUBSET Nodes, StrippedOf(fins, c) PROVE GroupEffect(c)
  <2>1. CASE vg[c].deleting /\ vg[c].fins \ fins = {}
    <3>1. vg'[c] = NoVG
      BY <1>0, <1>5, <2>1 DEF StrippedOf, Stripped, Settled, VolumeGroups
    <3>2. ~NoVG.alive /\ ~NoVG.deleting /\ NoVG.fins = {}
      BY DEF NoVG
    <3>3. \A n \in Present : n \in vg[c].fins => <<n, c>> \notin host
      BY <1>5, <2>1 DEF StrippedOf
    <3> QED
      BY <3>1, <3>2, <3>3 DEF GroupEffect
  <2>2. CASE ~(vg[c].deleting /\ vg[c].fins \ fins = {})
    <3>1. vg'[c] = [vg[c] EXCEPT !.fins = @ \ fins]
      BY <1>0, <1>5, <2>2 DEF StrippedOf, Stripped, Settled, VolumeGroups
    <3> QED
      BY <1>0, <1>5, <2>2, <3>1 DEF GroupEffect, StrippedOf, VolumeGroups, NoVG
  <2> QED
    BY <2>1, <2>2
<1> QED
  BY <1>1, <1>2, <1>3, <1>4, <1>5, GroupStep DEF GroupChange

\* What the worker remembers.
LEMMA TodoStep ==
    ASSUME [Next]_vars, NEW n \in Nodes, <<"status", n>> \in todo'
    PROVE  <<"status", n>> \in todo \/ n \in nodes
<1>1. CASE Rest
  BY <1>1 DEF Rest
<1>2. CASE UNCHANGED todo
  BY <1>2
<1>3. ASSUME NEW i, NEW c, ItemDone(i, {}) \/ ItemDone(i, {<<"group", c>>}) \/ UnitFails(i)
      PROVE  <<"status", n>> \in todo
  BY <1>3 DEF ItemDone, UnitFails
<1>4. CASE Reconcile \/ AddFinalizer
  BY <1>1, <1>4 DEF Reconcile, AddFinalizer, Units
<1>5. CASE ListValidNodes
  BY <1>5 DEF ListValidNodes, ValidNodes
<1>6. CASE UnitsDone \/ ListGroups
  BY <1>1, <1>6 DEF UnitsDone, ListGroups, Goto
<1>7. ASSUME NEW c \in Classes, DropStorageClass(c) PROVE <<"status", n>> \in todo \/ n \in nodes
  BY <1>1, <1>3, <1>7 DEF DropStorageClass
<1>8. ASSUME NEW c \in Classes, DropGroup(c) PROVE <<"status", n>> \in todo \/ n \in nodes
  BY <1>1, <1>3, <1>8 DEF DropGroup
<1>9. ASSUME NEW c \in Classes, StripGroup(c) PROVE <<"status", n>> \in todo \/ n \in nodes
  BY <1>1, <1>9 DEF StripGroup
<1>10. CASE EnsureDaemonSet \/ EnsureCSINode \/ EnsureRest
  BY <1>3, <1>10 DEF EnsureDaemonSet, EnsureCSINode, EnsureRest
<1>11. ASSUME NEW c \in Classes, EnsureGroup(c) \/ EnsureStorageClass(c)
       PROVE  <<"status", n>> \in todo
  BY <1>3, <1>11 DEF EnsureGroup, EnsureStorageClass
<1>12. ASSUME NEW m \in Nodes, EnsureStatus(m) PROVE <<"status", n>> \in todo
  BY <1>3, <1>12 DEF EnsureStatus
<1>13. ASSUME NEW i \in Items, ItemFails(i) PROVE <<"status", n>> \in todo
  BY <1>3, <1>13 DEF ItemFails
<1>14. CASE \/ ListNodes \/ FreeVolumes \/ CheckClaims \/ CheckRetained \/ DeleteGroups
            \/ DeleteDaemonSet \/ DeleteStatuses \/ DeleteStorageClasses \/ CheckCSINodes
            \/ ReleaseCluster \/ RequestFails \/ Crash
  BY <1>1, <1>14 DEF ListNodes, FreeVolumes, CheckClaims, CheckRetained, DeleteGroups,
     DeleteDaemonSet, DeleteStatuses, DeleteStorageClasses, CheckCSINodes,
     ReleaseCluster, RequestFails, Crash, Goto
<1>15. CASE UNCHANGED workerVars
  BY <1>15 DEF workerVars
<1> QED
  BY <1>4, <1>5, <1>6, <1>7, <1>8, <1>9, <1>10, <1>11, <1>12, <1>13, <1>14, <1>15
  DEF Next, WorkerNext, CreatePath, DeletePath, vars

\* The deletion path goes on from one gate to the next, or ends.
PathSteps == {"stale", "strip"} \cup AfterGroups

LEMMA PathStep ==
    ASSUME [Next]_vars, pc' \in PathSteps
    PROVE  \/ UNCHANGED workerVars
           \/ ListNodes \/ ListGroups \/ DeleteGroups \/ DeleteDaemonSet \/ DeleteStatuses
           \/ DeleteStorageClasses \/ CheckCSINodes
           \/ \E c \in Classes : StripGroup(c)
<1> USE DEF PathSteps, AfterGroups
<1>1. ~Rest
  BY DEF Rest
<1>2. ASSUME NEW i, NEW more, pc \notin PathSteps, ItemDone(i, more) \/ UnitFails(i) PROVE FALSE
  BY <1>2 DEF ItemDone, UnitFails
<1>3. ~(Reconcile \/ AddFinalizer \/ ListValidNodes \/ UnitsDone)
  BY <1>1 DEF Reconcile, AddFinalizer, ListValidNodes, UnitsDone, Ensures
<1>4. ~(EnsureDaemonSet \/ EnsureCSINode \/ EnsureRest)
  BY <1>2 DEF EnsureDaemonSet, EnsureCSINode, EnsureRest, Ensures
<1>5. ASSUME NEW c \in Classes, DropStorageClass(c) \/ DropGroup(c) PROVE FALSE
  BY <1>1, <1>2, <1>5 DEF DropStorageClass, DropGroup
<1>6. ASSUME NEW c \in Classes, EnsureGroup(c) \/ EnsureStorageClass(c) PROVE FALSE
  BY <1>2, <1>6 DEF EnsureGroup, EnsureStorageClass, Ensures
<1>7. ASSUME NEW n \in Nodes, EnsureStatus(n) PROVE FALSE
  BY <1>2, <1>7 DEF EnsureStatus, Ensures
<1>8. ASSUME NEW i \in Items, ItemFails(i) PROVE FALSE
  BY <1>2, <1>8 DEF ItemFails, Ensures
<1>9. ~(FreeVolumes \/ CheckClaims \/ CheckRetained)
  BY <1>1 DEF FreeVolumes, CheckClaims, CheckRetained, Goto
<1>10. ~(ReleaseCluster \/ RequestFails \/ Crash)
  BY <1>1 DEF ReleaseCluster, RequestFails, Crash
<1> QED
  BY <1>3, <1>4, <1>5, <1>6, <1>7, <1>8, <1>9, <1>10
  DEF Next, WorkerNext, CreatePath, DeletePath, vars

LEMMA ListedStep ==
    ASSUME [Next]_vars, pc' \in {"stale", "strip"}
    PROVE  \/ ListNodes
           \/ pc \in {"stale", "strip"} /\ UNCHANGED known
<1>1. pc' \in PathSteps
  BY DEF PathSteps
<1> QED
  BY <1>1, PathStep DEF workerVars, ListGroups, DeleteGroups, DeleteDaemonSet, DeleteStatuses,
     DeleteStorageClasses, CheckCSINodes, StripGroup, Goto, Rest

LEMMA GateStep ==
    ASSUME [Next]_vars, pc' \in AfterGroups
    PROVE  /\ UNCHANGED inst /\ pc # "ensure"
           /\ pc \in AfterGroups \/ (DeleteGroups /\ \A c \in inst.classes : ~vg[c].alive)
           /\ pc' \in AfterDaemon => pc \in AfterDaemon \/ (DeleteDaemonSet /\ pods = {})
           /\ pc' \in {"csinode", "release"} => pc \in {"csinode", "release"} \/ DeleteStorageClasses
           /\ pc' = "release" => pc = "release" \/ CheckCSINodes
<1>1. pc' \in PathSteps
  BY DEF PathSteps
<1> USE DEF AfterGroups, AfterDaemon
<1>2. CASE UNCHANGED workerVars
  BY <1>2 DEF workerVars
<1>3. CASE ListNodes \/ ListGroups \/ \E c \in Classes : StripGroup(c)
  BY <1>3 DEF ListNodes, ListGroups, StripGroup, Goto, Rest
<1>4. CASE \/ DeleteGroups \/ DeleteDaemonSet \/ DeleteStatuses \/ DeleteStorageClasses
           \/ CheckCSINodes
  BY <1>4 DEF DeleteGroups, DeleteDaemonSet, DeleteStatuses, DeleteStorageClasses,
     CheckCSINodes, Goto, Rest
<1> QED
  BY <1>1, <1>2, <1>3, <1>4, PathStep

\* Node removal keeps to its node.
LEMMA RemovalNode ==
    ASSUME Inv, [Next]_vars, remPc' # "idle"
    PROVE  /\ (remPc # "idle" /\ UNCHANGED remNode) \/ (ns[remNode'].alive /\ remNode' \in Nodes)
           /\ remPc' \in {"delete", "update", "list", "clean"} =>
                /\ UNCHANGED remNode
                /\ \/ remPc \in {"delete", "update", "list", "clean"}
                   \/ remPc = "node" /\ remNode \notin nodes
<1>1. CASE UNCHANGED removalVars
  BY <1>1 DEF removalVars
<1>2. CASE Crash \/ RemFails
  BY <1>2 DEF Crash, RemFails, RemovalRest
<1>3. ASSUME NEW n \in Nodes, RemGet(n)
      PROVE  ns[remNode'].alive /\ remNode' \in Nodes /\ remPc' = "node"
  BY <1>3 DEF RemGet
<1>4. CASE RemGetNode \/ RemDelete \/ RemUpdate \/ RemList \/ \E c \in Classes : RemClean(c)
  BY <1>4 DEF RemGetNode, RemDelete, RemUpdate, RemList, RemClean, RemovalRest
<1> QED
  BY <1>1, <1>2, <1>3, <1>4 DEF Next, RemovalNext, vars

\* Outside of the units nothing is created, and pods start only for a DaemonSet.
LEMMA NothingNew ==
    ASSUME [Next]_vars, pc # "ensure"
    PROVE  /\ sc' \subseteq sc /\ extra' \subseteq extra
           /\ UNCHANGED ds \/ ds' = NoDaemonSet
           /\ ds.alive \/ pods' \subseteq pods
<1>1. CASE SurroundingsStep
  BY <1>1 DEF SurroundingsStep, Surroundings, Users, VGManagers, Platform, DeleteCluster,
     DropClass, AddClass, Claim, Unclaim, DeleteRetained, Hold, Build, Tear, Release,
     Leave, Join, BecomeUnready, BecomeReady, StartPod, StopPod, CollectStatus, CollectVG,
     CollectDaemonSet, Provision, Reclaim, objects, machines
<1>2. CASE RemovalStep
  BY <1>2 DEF RemovalStep, RemovalNext, RemGet, RemGetNode, RemDelete, RemUpdate, RemList,
     RemClean, RemFails, clusterVars, objects, machines
<1>3. CASE WorkerStep
  BY <1>3 DEF WorkerStep, CreatePath, DeletePath, AddFinalizer, EnsureDaemonSet,
     ListValidNodes, EnsureCSINode, EnsureRest, UnitsDone, EnsureGroup, EnsureStorageClass,
     DropStorageClass, DropGroup, EnsureStatus, ListNodes, ListGroups, FreeVolumes,
     CheckClaims, CheckRetained, DeleteGroups, DeleteDaemonSet, DeleteStatuses,
     DeleteStorageClasses, CheckCSINodes, ReleaseCluster, StripGroup, Ensures, clusterVars,
     objects, machines, DeleteCSIDriver, DeleteServiceMonitor, DeletePolicies, DeleteSCCs,
     DeleteSnapshotClasses
<1>4. CASE QuietStep
  BY <1>4, QuietLeaves DEF objects, machines
<1> QED
  BY <1>1, <1>2, <1>3, <1>4, StepKinds

-----------------------------------------------------------------------------
(***************************************************************************)
(* The invariant is inductive.                                             *)
(***************************************************************************)

LEMMA InvInit == Init => Inv
<1> SUFFICES ASSUME Init PROVE Inv
  OBVIOUS
<1>1. TypeOK
  BY TypeInit
<1>2. /\ GroupsFit /\ HostGuarded /\ ListFits /\ RemovalFits /\ GatesFit /\ ClusterFits
      /\ VolumesFit
  BY DEF ClusterFits, VolumesFit, NoVG, Init, ClusterInit, WorkerInit, RemovalInit, GroupsFit, HostGuarded, ListFits,
     RemovalFits, GatesFit, AfterGroups, AfterDaemon
<1>3. NodesFit
  BY DEF Init, ClusterInit, WorkerInit, RemovalInit, NodesFit, NoStatus, NoVG
<1> QED
  BY <1>1, <1>2, <1>3 DEF Inv

LEMMA NodesFitStep ==
    ASSUME Inv, [Next]_vars
    PROVE  NodesFit'
<1> SUFFICES ASSUME NEW n \in Nodes, Unknown(n)'
             PROVE  /\ ~ns'[n].alive
                    /\ \A c \in Classes : n \notin vg'[c].fins /\ <<n, c>> \notin host'
                    /\ <<"status", n>> \notin todo'
                    /\ remPc' # "idle" => remNode' # n
  BY DEF NodesFit
<1>1. Unknown(n) /\ n \notin nodes
  BY NodesStep DEF Unknown
<1>2. /\ ~ns[n].alive /\ <<"status", n>> \notin todo
      /\ \A c \in Classes : n \notin vg[c].fins /\ <<n, c>> \notin host
      /\ remPc # "idle" => remNode # n
  BY <1>1 DEF Inv, NodesFit
<1>3. ~ns'[n].alive
  BY <1>2, StatusStep
<1>4. \A c \in Classes : n \notin vg'[c].fins
  BY <1>1, <1>2, GroupEffects DEF GroupEffect
<1>5. \A c \in Classes : <<n, c>> \notin host'
  <2>1. ASSUME NEW m \in Nodes, NEW d \in Classes, Build(m, d)
        PROVE  m # n /\ host' = host \cup {<<m, d>>}
    BY <1>1, <2>1 DEF Build, Reconciles
  <2> QED
    BY <1>2, <2>1, HostStep
<1>6. <<"status", n>> \notin todo'
  BY <1>1, <1>2, TodoStep
<1>7. remPc' # "idle" => remNode' # n
  BY <1>2, RemovalNode
<1> QED
  BY <1>3, <1>4, <1>5, <1>6, <1>7

LEMMA ListFitsStep ==
    ASSUME Inv, [Next]_vars
    PROVE  ListFits'
<1> SUFFICES ASSUME pc' \in {"stale", "strip"}, NEW n \in Nodes, n \in Present', n \notin known'
             PROVE  ~ns'[n].alive /\ \A c \in Classes : n \notin vg'[c].fins
  <2>1. Present' \subseteq Nodes
    BY TypeStep DEF Inv, TypeOK, ClusterTypeOK, Present
  <2> QED
    BY <2>1 DEF ListFits
<1>1. ~ListNodes
  BY DEF ListNodes, Present, clusterVars, machines
<1>2. pc \in {"stale", "strip"} /\ n \notin known
  BY <1>1, ListedStep
<1>3. ~ns[n].alive /\ \A c \in Classes : n \notin vg[c].fins
  BY <1>2, NodesStep DEF Inv, ListFits, NodesFit
<1>4. ~ns'[n].alive
  BY <1>2, <1>3, StatusStep
<1>5. \A c \in Classes : n \notin vg'[c].fins
  BY <1>3, GroupEffects DEF GroupEffect
<1> QED
  BY <1>4, <1>5

LEMMA RemovalFitsStep ==
    ASSUME Inv, [Next]_vars
    PROVE  RemovalFits'
<1> SUFFICES ASSUME remPc' \in {"delete", "update", "list", "clean"} PROVE remNode' \in left'
  BY DEF RemovalFits
<1>1. UNCHANGED remNode /\ remNode \in Nodes
  BY RemovalNode DEF Inv, TypeOK, RemovalTypeOK
<1>2. remNode \in left
  BY <1>1, RemovalNode DEF Inv, RemovalFits, NodesFit, Unknown
<1> QED
  BY <1>1, <1>2, NodesStep

LEMMA HostGuardedStep ==
    ASSUME Inv, [Next]_vars
    PROVE  HostGuarded'
<1>1. host' \subseteq Nodes \X Classes
  BY TypeStep DEF Inv, TypeOK, ClusterTypeOK
<1> SUFFICES ASSUME NEW n \in Nodes, NEW c \in Classes, <<n, c>> \in host', n \in Present'
             PROVE  n \in vg'[c].fins
  BY <1>1 DEF HostGuarded
<1>2. CASE <<n, c>> \in host
  <2>1. n \in Present
    BY <1>2, NodesStep DEF Inv, NodesFit
  <2>2. n \in vg[c].fins
    BY <1>2, <2>1 DEF Inv, HostGuarded
  <2> QED
    BY <1>2, <2>1, <2>2, GroupEffects DEF GroupEffect
<1>3. CASE <<n, c>> \notin host
  <2>1. PICK m \in Nodes, d \in Classes : Build(m, d)
    BY <1>3, HostStep
  <2>2. <<m, d>> = <<n, c>> /\ UNCHANGED vg
    BY <1>3, <2>1 DEF Build, objects
  <2> QED
    BY <2>1, <2>2 DEF Build
<1> QED
  BY <1>2, <1>3

LEMMA GatesFitStep ==
    ASSUME Inv, [Next]_vars
    PROVE  GatesFit'
<1>0. inst.classes \subseteq Classes
  BY DEF Inv, TypeOK, WorkerTypeOK, Clusters
<1>1. ASSUME pc' \in AfterGroups, NEW c \in inst'.classes PROVE ~vg'[c].alive
  <2>1. c \in inst.classes /\ c \in Classes /\ pc # "ensure"
    BY <1>0, <1>1, GateStep
  <2>2. ~vg[c].alive
    BY <1>1, <2>1, GateStep DEF Inv, GatesFit
  <2> QED
    BY <2>1, <2>2, GroupEffects DEF GroupEffect
<1>2. ASSUME pc' \in AfterDaemon PROVE ~ds'.alive /\ pods' = {}
  <2>1. pc' \in AfterGroups
    BY <1>2 DEF AfterGroups, AfterDaemon
  <2>2. CASE DeleteDaemonSet /\ pods = {}
    BY <2>2 DEF DeleteDaemonSet, NoDaemonSet, machines
  <2>3. CASE pc \in AfterDaemon
    <3>1. ~ds.alive /\ pods = {} /\ pc # "ensure"
      BY <2>3 DEF Inv, GatesFit, AfterDaemon
    <3> QED
      BY <3>1, NothingNew DEF NoDaemonSet
  <2> QED
    BY <1>2, <2>1, <2>2, <2>3, GateStep
<1>3. ASSUME pc' \in {"csinode", "release"}
      PROVE  sc' \cap inst'.classes = {} /\ "csidriver" \notin extra'
  <2>1. pc' \in AfterGroups
    BY <1>3 DEF AfterGroups
  <2>2. CASE DeleteStorageClasses
    BY <2>1, <2>2, GateStep DEF DeleteStorageClasses, DeleteCSIDriver
  <2>3. CASE pc \in {"csinode", "release"}
    <3>1. sc \cap inst.classes = {} /\ "csidriver" \notin extra /\ pc # "ensure"
      BY <2>3 DEF Inv, GatesFit
    <3> QED
      BY <2>1, <3>1, NothingNew, GateStep
  <2> QED
    BY <1>3, <2>1, <2>2, <2>3, GateStep
<1>4. ASSUME pc' = "release" PROVE extra' \subseteq {"scc"}
  <2>1. pc' \in AfterGroups
    BY <1>4 DEF AfterGroups
  <2>2. CASE CheckCSINodes
    <3>1. extra \subseteq Extras /\ "csidriver" \notin extra
      BY <2>2 DEF Inv, TypeOK, ClusterTypeOK, GatesFit, CheckCSINodes
    <3> QED
      BY <1>4, <2>2, <3>1 DEF CheckCSINodes, Rest, DeleteSnapshotClasses, DeleteSCCs,
         DeletePolicies, DeleteServiceMonitor, Extras
  <2>3. CASE pc = "release"
    BY <2>3, NothingNew DEF Inv, GatesFit
  <2> QED
    BY <1>4, <2>1, <2>2, <2>3, GateStep
<1> QED
  BY <1>1, <1>2, <1>3, <1>4 DEF GatesFit

LEMMA ClusterStep ==
    ASSUME [Next]_vars
    PROVE  \/ UNCHANGED cluster
           \/ DeleteCluster \/ \E c \in Classes : DropClass(c) \/ AddClass(c)
           \/ AddFinalizer \/ ReleaseCluster
<1>1. CASE SurroundingsStep
  BY <1>1 DEF SurroundingsStep, Surroundings, Users, VGManagers, Platform, Claim, Unclaim,
     DeleteRetained, Hold, Build, Tear, Release, Leave, Join, BecomeUnready, BecomeReady,
     StartPod, StopPod, CollectStatus, CollectVG, CollectDaemonSet, Provision, Reclaim, objects
<1>2. CASE RemovalStep
  BY <1>2 DEF RemovalStep, RemovalNext, RemGet, RemGetNode, RemDelete, RemUpdate, RemList,
     RemClean, RemFails, clusterVars, objects
<1>3. CASE WorkerStep
  BY <1>3 DEF WorkerStep, CreatePath, DeletePath, EnsureDaemonSet,
     ListValidNodes, EnsureCSINode, EnsureRest, UnitsDone, EnsureGroup, EnsureStorageClass,
     DropStorageClass, DropGroup, EnsureStatus, ListNodes, ListGroups, FreeVolumes,
     CheckClaims, CheckRetained, DeleteGroups, DeleteDaemonSet, DeleteStatuses,
     DeleteStorageClasses, CheckCSINodes, StripGroup, clusterVars, objects
<1>4. CASE QuietStep
  BY <1>4, QuietLeaves DEF objects
<1> QED
  BY <1>1, <1>2, <1>3, <1>4, StepKinds

LEMMA FinalizerStep ==
    ASSUME [Next]_vars, pc' = "finalizer"
    PROVE  Reconcile \/ UNCHANGED workerVars
<1>1. ~Rest
  BY DEF Rest
<1>2. ASSUME NEW i, NEW more, pc # "finalizer", ItemDone(i, more) \/ UnitFails(i) PROVE FALSE
  BY <1>2 DEF ItemDone, UnitFails
<1>3. ~(AddFinalizer \/ ListValidNodes \/ UnitsDone)
  BY <1>1 DEF AddFinalizer, ListValidNodes, UnitsDone, Ensures
<1>4. ~(EnsureDaemonSet \/ EnsureCSINode \/ EnsureRest)
  BY <1>2 DEF EnsureDaemonSet, EnsureCSINode, EnsureRest, Ensures
<1>5. ASSUME NEW c \in Classes, DropStorageClass(c) \/ DropGroup(c) PROVE FALSE
  BY <1>1, <1>2, <1>5 DEF DropStorageClass, DropGroup
<1>6. ASSUME NEW c \in Classes, EnsureGroup(c) \/ EnsureStorageClass(c) PROVE FALSE
  BY <1>2, <1>6 DEF EnsureGroup, EnsureStorageClass, Ensures
<1>7. ASSUME NEW n \in Nodes, EnsureStatus(n) PROVE FALSE
  BY <1>2, <1>7 DEF EnsureStatus, Ensures
<1>8. ASSUME NEW i \in Items, ItemFails(i) PROVE FALSE
  BY <1>2, <1>8 DEF ItemFails, Ensures
<1>9. ~DeletePath
  BY <1>1 DEF DeletePath, ListNodes, ListGroups, FreeVolumes, CheckClaims, CheckRetained,
     DeleteGroups, DeleteDaemonSet, DeleteStatuses, DeleteStorageClasses, CheckCSINodes,
     ReleaseCluster, StripGroup, Goto
<1>10. ~(RequestFails \/ Crash)
  BY <1>1 DEF RequestFails, Crash
<1> QED
  BY <1>3, <1>4, <1>5, <1>6, <1>7, <1>8, <1>9, <1>10 DEF Next, WorkerNext, CreatePath, vars

LEMMA ClusterFitsStep ==
    ASSUME Inv, [Next]_vars
    PROVE  ClusterFits'
<1>1. cluster'.fin => cluster'.alive
  <2>1. cluster \in Clusters /\ (cluster.fin => cluster.alive) /\ (pc = "finalizer" => inst.alive)
    BY DEF Inv, TypeOK, ClusterTypeOK, ClusterFits
  <2>2. CASE DeleteCluster
    BY <2>1, <2>2 DEF DeleteCluster, Clusters, NoCluster
  <2>3. ASSUME NEW c \in Classes, DropClass(c) \/ AddClass(c) PROVE cluster'.fin => cluster'.alive
    BY <2>1, <2>3 DEF DropClass, AddClass, Clusters
  <2>4. CASE AddFinalizer \/ ReleaseCluster
    BY <2>1, <2>4 DEF AddFinalizer, ReleaseCluster, Clusters, NoCluster
  <2> QED
    BY <2>1, <2>2, <2>3, <2>4, ClusterStep
<1>2. pc' = "finalizer" => inst'.alive
  BY FinalizerStep DEF Inv, ClusterFits, Reconcile, workerVars
<1> QED
  BY <1>1, <1>2 DEF ClusterFits

\* The parts that NodeStorage is about change one at a time, but for
\* LVMVolumeGroups that are deleted together.
GroupOnly(d) ==
    UNCHANGED <<host, vols>> /\ \A c \in Classes \ {d} : vg'[c] = vg[c]
HostOnly(n, c) == UNCHANGED <<vg, vols>> /\ (Build(n, c) \/ Tear(n, c))
VolumeOnly(n, c) ==
    UNCHANGED <<vg, host>> /\ (Provision(n, c) \/ Reclaim(n, c) \/ DeleteRetained(n, c))

LEMMA OneAtATime ==
    ASSUME Inv, [Next]_vars
    PROVE  \/ UNCHANGED <<vg, host, vols>>
           \/ DeleteGroups /\ UNCHANGED <<host, vols>>
           \/ \E d \in Classes : GroupOnly(d)
           \/ \E n \in Nodes, c \in Classes : HostOnly(n, c) \/ VolumeOnly(n, c)
<1>0. vg \in [Classes -> VolumeGroups] /\ vg' \in [Classes -> VolumeGroups]
  BY TypeStep DEF Inv, TypeOK, ClusterTypeOK
<1>1. CASE SurroundingsStep
  <2>1. CASE Users
    BY <2>1 DEF Users, DeleteCluster, DropClass, AddClass, Claim, Unclaim, VolumeOnly,
       DeleteRetained, objects, machines, storage
  <2>2. CASE VGManagers
    BY <1>0, <2>2 DEF VGManagers, Hold, Release, Build, Tear, HostOnly, GroupOnly, objects,
       machines, storage
  <2>3. CASE Platform
    BY <1>0, <2>3 DEF Platform, Leave, Join, BecomeUnready, BecomeReady, StartPod, StopPod,
       CollectStatus, CollectVG, CollectDaemonSet, Provision, Reclaim, VolumeOnly, GroupOnly,
       objects, machines, storage
  <2> QED
    BY <1>1, <2>1, <2>2, <2>3 DEF SurroundingsStep, Surroundings
<1>2. CASE RemovalStep
  BY <1>0, <1>2 DEF RemovalStep, RemovalNext, RemGet, RemGetNode, RemDelete, RemUpdate, RemList,
     RemClean, RemFails, GroupOnly, clusterVars, objects, machines, storage
<1>3. CASE WorkerStep
  <2>1. UNCHANGED <<host, vols>>
    BY <1>3 DEF WorkerStep, CreatePath, DeletePath, AddFinalizer, EnsureDaemonSet,
       ListValidNodes, EnsureCSINode, EnsureRest, UnitsDone, EnsureGroup, EnsureStorageClass,
       DropStorageClass, DropGroup, EnsureStatus, ListNodes, ListGroups, FreeVolumes,
       CheckClaims, CheckRetained, DeleteGroups, DeleteDaemonSet, DeleteStatuses,
       DeleteStorageClasses, CheckCSINodes, ReleaseCluster, StripGroup, clusterVars, objects,
       machines, storage
  <2>2. \/ UNCHANGED vg \/ DeleteGroups
        \/ \E d \in Classes : EnsureGroup(d) \/ DropGroup(d) \/ StripGroup(d)
    BY <1>3 DEF WorkerStep, CreatePath, DeletePath, AddFinalizer, EnsureDaemonSet,
       ListValidNodes, EnsureCSINode, EnsureRest, UnitsDone, EnsureStorageClass,
       DropStorageClass, EnsureStatus, ListNodes, ListGroups, FreeVolumes,
       CheckClaims, CheckRetained, DeleteDaemonSet, DeleteStatuses,
       DeleteStorageClasses, CheckCSINodes, ReleaseCluster, clusterVars, objects
  <2>3. ASSUME NEW d \in Classes, EnsureGroup(d) \/ DropGroup(d) \/ StripGroup(d)
        PROVE  GroupOnly(d)
    BY <1>0, <2>1, <2>3 DEF EnsureGroup, DropGroup, StripGroup, GroupOnly
  <2> QED
    BY <2>1, <2>2, <2>3
<1>4. CASE QuietStep
  BY <1>4, QuietLeaves DEF objects, machines, storage
<1> QED
  BY <1>1, <1>2, <1>3, <1>4, StepKinds

LEMMA VolumesFitStep ==
    ASSUME Inv, [Next]_vars
    PROVE  VolumesFit'
<1>1. ASSUME NEW n \in Nodes, NEW c \in Classes, HostOnly(n, c) \/ VolumeOnly(n, c)
      PROVE  vols' \subseteq host'
  BY <1>1 DEF HostOnly, VolumeOnly, Build, Tear, Provision, Reclaim, DeleteRetained, Inv,
     VolumesFit
<1> QED
  BY <1>1, OneAtATime DEF GroupOnly, Inv, VolumesFit

LEMMA InvStep == Inv /\ [Next]_vars => Inv'
<1> SUFFICES ASSUME Inv, [Next]_vars PROVE Inv'
  OBVIOUS
<1>1. TypeOK'
  BY TypeStep DEF Inv
<1>2. GroupsFit'
  BY GroupEffects DEF GroupsFit, GroupEffect
<1> QED
  BY <1>1, <1>2, NodesFitStep, ListFitsStep, RemovalFitsStep, HostGuardedStep, GatesFitStep,
     ClusterFitsStep, VolumesFitStep
  DEF Inv

\* The inductive invariant holds in every reachable state.
THEOREM Invariant == Spec => []Inv
BY InvInit, InvStep, PTL DEF Spec

\* No finalizer is taken from a node that is in the cluster and has a volume
\* group: neither checkStaleNodeFinalizers with its list of nodes, which may be
\* older than the LVMVolumeGroups it is compared with, nor node removal for a
\* status that it read before, whatever the number of nodes and classes, the
\* interleaving of the two controllers with the vgmanagers, failed requests and
\* crashes.
THEOREM FinalizersKept == Spec => []HostGuarded
<1>1. Inv => HostGuarded
  BY DEF Inv
<1> QED
  BY <1>1, Invariant, PTL

LEMMA ReleaseStep ==
    ASSUME Inv, [Next]_vars
    PROVE  ReleasedIsClean
<1> SUFFICES ASSUME cluster.fin, ~cluster'.alive
             PROVE  /\ \A v \in host : v[1] \in Present => v[2] \notin cluster.classes
                    /\ sc \cap cluster.classes = {}
                    /\ ~ds.alive /\ pods = {}
                    /\ \A c \in cluster.classes : ~vg[c].alive
                    /\ extra \subseteq {"scc"}
  BY DEF ReleasedIsClean

<1>1. cluster.alive /\ cluster \in Clusters
  BY DEF Inv, ClusterFits, TypeOK, ClusterTypeOK
<1>2. ~(\E c \in Classes : DropClass(c) \/ AddClass(c)) /\ ~DeleteCluster /\ ~AddFinalizer
  BY <1>1 DEF DropClass, AddClass, DeleteCluster, AddFinalizer, Clusters
<1>3. pc = "release" /\ cluster = inst
  BY <1>1, <1>2, ClusterStep DEF ReleaseCluster
<1>4. /\ \A c \in cluster.classes : ~vg[c].alive
      /\ ~ds.alive /\ pods = {}
      /\ sc \cap cluster.classes = {} /\ extra \subseteq {"scc"}
  BY <1>3 DEF Inv, GatesFit, AfterGroups, AfterDaemon
<1>5. ASSUME NEW v \in host, v[1] \in Present, v[2] \in cluster.classes PROVE FALSE
  <2>1. v[1] \in vg[v[2]].fins
    BY <1>5 DEF Inv, HostGuarded
  <2>2. vg[v[2]] = NoVG
    BY <1>1, <1>4, <1>5 DEF Inv, GroupsFit, Clusters
  <2>3. NoVG.fins = {}
    BY DEF NoVG
  <2> QED
    BY <2>1, <2>2, <2>3
<1> QED
  BY <1>4, <1>5

\* The LVMCluster loses its finalizer only when everything of the classes of its
\* spec is gone: processDelete passes its gates in order, nothing that it has
\* seen to be gone comes back while it goes on, and the last Update conflicts
\* with a change of the spec.
THEOREM ReleasedClean == Spec => ReleaseClean
<1>1. Inv /\ [Next]_vars => [ReleasedIsClean]_vars
  BY ReleaseStep
<1> QED
  BY <1>1, Invariant, PTL DEF Spec, ReleaseClean

-----------------------------------------------------------------------------
(***************************************************************************)
(* What the operator does to the storage of a node is a step of            *)
(* NodeStorage, the specification that the vgmanager of the node           *)
(* implements (module VGManagerStorage_proofs).                            *)
(***************************************************************************)

Promised(n) == UNCHANGED StorageOf(n)!vars \/ StorageOf(n)!Next

\* The LVMVolumeGroup of one class changes.
LEMMA GroupOnlyPromised ==
    ASSUME Inv, [Next]_vars, NEW n \in Present, NEW d \in Classes, GroupOnly(d)
    PROVE  Promised(n)
<1>0. /\ vg \in [Classes -> VolumeGroups] /\ vg' \in [Classes -> VolumeGroups]
      /\ n \in Nodes /\ n \in nodes
      /\ vg[d].alive \/ vg[d] = NoVG
      /\ vg[d].deleting => vg[d].fins # {}
  BY TypeStep DEF Inv, TypeOK, ClusterTypeOK, GroupsFit, Present
<1>1. /\ {c \in Classes : <<n, c>> \in host}' = {c \in Classes : <<n, c>> \in host}
      /\ {c \in Classes : <<n, c>> \in vols}' = {c \in Classes : <<n, c>> \in vols}
  BY DEF GroupOnly
<1> DEFINE object == [c \in Classes |-> VGPhase(vg[c])]
           held == {c \in Classes : n \in vg[c].fins}
<1>2. \A c \in Classes \ {d} : VGPhase(vg'[c]) = VGPhase(vg[c]) /\ (c \in held <=> c \in held')
  BY DEF GroupOnly
<1>3. ASSUME VGPhase(vg'[d]) = VGPhase(vg[d]), n \in vg'[d].fins <=> n \in vg[d].fins
      PROVE  Promised(n)
  <2>1. object' = object
    BY <1>2, <1>3 
  <2>2. held' = held
    BY <1>2, <1>3
  <2> QED
    BY <1>1, <2>1, <2>2 DEF StorageOf!vars, Promised
<1>4. ASSUME n \in vg'[d].fins <=> n \in vg[d].fins
      PROVE  held' = held
  BY <1>2, <1>4
<1>5. ASSUME NEW o, VGPhase(vg'[d]) = o PROVE object' = [object EXCEPT ![d] = o]
  BY <1>2, <1>5
<1>6. CASE vg'[d] = vg[d]
  BY <1>3, <1>6
<1>7. CASE vg'[d] = Deleted(vg[d])
  <2>1. CASE VGPhase(vg[d]) # "live"
    BY <1>0, <1>3, <1>7, <2>1 DEF Deleted, Settled, VGPhase, VolumeGroups, NoVG
  <2>2. CASE VGPhase(vg[d]) = "live"
    <3>1. /\ VGPhase(vg'[d]) \in {"deleting", "none"}
          /\ n \in vg[d].fins => VGPhase(vg'[d]) = "deleting"
          /\ n \in vg'[d].fins <=> n \in vg[d].fins
      BY <1>0, <1>7, <2>2 DEF Deleted, Settled, VGPhase, VolumeGroups, NoVG
    <3>2. held' = held
      BY <1>4, <3>1
    <3>3. object' \in [Classes -> {"none", "live", "deleting"}]
      BY DEF VGPhase
    <3>4. StorageOf(n)!RequestDeletion({d})
      BY <1>1, <1>2, <2>2, <3>1, <3>2, <3>3 DEF StorageOf!RequestDeletion
    <3> QED
      BY <3>4 DEF StorageOf!Next, Promised
  <2> QED
    BY <2>1, <2>2
<1>8. CASE Ensured(d)
  <2>1. CASE vg[d].alive
    BY <1>0, <1>3, <1>8, <2>1 DEF Ensured, VGPhase, VolumeGroups
  <2>2. CASE ~vg[d].alive
    <3>1. VGPhase(vg[d]) = "none" /\ VGPhase(vg'[d]) = "live" /\ vg'[d].fins = vg[d].fins
      BY <1>0, <1>8, <2>2 DEF Ensured, VGPhase, VolumeGroups, NoVG
    <3>2. StorageOf(n)!Create(d)
      BY <1>1, <1>4, <1>5, <3>1 DEF StorageOf!Create
    <3> QED
      BY <3>2 DEF StorageOf!Next, Promised
  <2> QED
    BY <2>1, <2>2
<1>9. ASSUME NEW m \in Nodes, HeldBy(m, d) PROVE Promised(n)
  <2>1. VGPhase(vg'[d]) = "live" /\ VGPhase(vg[d]) = "live" /\ vg'[d].fins = vg[d].fins \cup {m}
    BY <1>0, <1>9 DEF HeldBy, VGPhase, VolumeGroups
  <2>2. CASE m # n \/ n \in vg[d].fins
    BY <1>3, <2>1, <2>2
  <2>3. CASE m = n /\ n \notin vg[d].fins
    <3>1. object' = object
      BY <1>2, <2>1
    <3>2. held' = held \cup {d}
      BY <1>2, <2>1, <2>3
    <3>3. StorageOf(n)!Hold(d)
      BY <1>1, <2>1, <2>3, <3>1, <3>2 DEF StorageOf!Hold
    <3> QED
      BY <3>3 DEF StorageOf!Next, Promised
  <2> QED
    BY <2>2, <2>3
<1>10. ASSUME NEW fins \in SUBSET Nodes, StrippedOf(fins, d) PROVE Promised(n)
  <2>1. /\ vg'[d].fins = vg[d].fins \ fins
        /\ \/ VGPhase(vg'[d]) = VGPhase(vg[d])
           \/ /\ VGPhase(vg[d]) = "deleting" /\ VGPhase(vg'[d]) = "none"
              /\ n \notin vg'[d].fins
    BY <1>0, <1>10 DEF StrippedOf, Stripped, Settled, VGPhase, VolumeGroups, NoVG
  <2>2. CASE n \in fins /\ n \in vg[d].fins
    <3>0. vg[d].alive
      BY <1>0, <2>2, SMTT(20) DEF NoVG
    <3>1. VGPhase(vg[d]) = "deleting" /\ <<n, d>> \notin host
      BY <1>10, <2>2, <3>0 DEF StrippedOf, VGPhase
    <3>2. held' = held \ {d}
      BY <1>2, <2>1, <2>2
    <3>3. \E o \in {"deleting", "none"} : object' = [object EXCEPT ![d] = o]
      BY <1>5, <2>1, <3>1
    <3>4. StorageOf(n)!Release(d)
      BY <1>1, <2>2, <3>1, <3>2, <3>3 DEF StorageOf!Release
    <3> QED
      BY <3>4 DEF StorageOf!Next, Promised
  <2>3. CASE ~(n \in fins /\ n \in vg[d].fins) /\ VGPhase(vg'[d]) = VGPhase(vg[d])
    BY <1>3, <2>1, <2>3
  <2>4. CASE ~(n \in fins /\ n \in vg[d].fins) /\ VGPhase(vg'[d]) # VGPhase(vg[d])
    <3>1. n \notin vg[d].fins
      BY <2>1, <2>4
    <3>2. StorageOf(n)!Vanish(d)
      BY <1>1, <1>4, <1>5, <2>1, <2>4, <3>1 DEF StorageOf!Vanish
    <3> QED
      BY <3>2 DEF StorageOf!Next, Promised
  <2> QED
    BY <2>2, <2>3, <2>4
<1> QED
  BY <1>6, <1>7, <1>8, <1>9, <1>10, GroupStep DEF GroupChange

\* DeleteGroups requests the deletion of all classes of the spec.
LEMMA DeleteGroupsPromised ==
    ASSUME Inv, [Next]_vars, NEW n \in Present, DeleteGroups, UNCHANGED <<host, vols>>
    PROVE  Promised(n)
<1>0. /\ vg \in [Classes -> VolumeGroups] /\ vg' \in [Classes -> VolumeGroups]
      /\ n \in Nodes
  BY TypeStep DEF Inv, TypeOK, ClusterTypeOK, Present
<1>1. /\ {c \in Classes : <<n, c>> \in host}' = {c \in Classes : <<n, c>> \in host}
      /\ {c \in Classes : <<n, c>> \in vols}' = {c \in Classes : <<n, c>> \in vols}
  OBVIOUS
<1> DEFINE object == [c \in Classes |-> VGPhase(vg[c])]
           held == {c \in Classes : n \in vg[c].fins}
           asked == {c \in Classes : VGPhase(vg[c]) = "live" /\ vg'[c] # vg[c]}
<1>2. ASSUME NEW c \in Classes PROVE vg'[c] = vg[c] \/ vg'[c] = Deleted(vg[c])
  BY <1>0, <1>2 DEF DeleteGroups
<1>3. ASSUME NEW c \in Classes
      PROVE  /\ n \in vg'[c].fins <=> n \in vg[c].fins
             /\ c \in asked => /\ VGPhase(vg'[c]) \in {"deleting", "none"}
                               /\ n \in vg[c].fins => VGPhase(vg'[c]) = "deleting"
             /\ c \notin asked => VGPhase(vg'[c]) = VGPhase(vg[c])
  <2>1. /\ vg[c] \in VolumeGroups /\ (vg[c].alive \/ vg[c] = NoVG)
        /\ vg[c].deleting => vg[c].fins # {}
    BY <1>0 DEF Inv, GroupsFit
  <2>2. CASE vg'[c] = vg[c]
    BY <2>2
  <2>3. CASE vg'[c] # vg[c] /\ vg'[c] = Deleted(vg[c])
    <3>1. vg[c].alive /\ vg'[c] = Settled([vg[c] EXCEPT !.deleting = TRUE])
      BY <2>3 DEF Deleted
    <3>2. ~vg[c].deleting
      BY <2>1, <2>3, <3>1 DEF Settled, VolumeGroups
    <3>3. VGPhase(vg[c]) = "live" /\ c \in asked
      BY <2>3, <3>1, <3>2 DEF VGPhase
    <3> QED
      BY <2>1, <3>1, <3>3 DEF Settled, VGPhase, VolumeGroups, NoVG
  <2> QED
    BY <1>2, <2>2, <2>3
<1>4. held' = held
  BY <1>3
<1>5. object' \in [Classes -> {"none", "live", "deleting"}]
  BY DEF VGPhase
<1>6. asked \in SUBSET Classes
  OBVIOUS
<1>7. \A c \in asked : object[c] = "live"
  OBVIOUS
<1>8. \A c \in Classes : IF c \in asked
                          THEN object'[c] \in {"deleting", "none"}
                                 /\ (c \in held => object'[c] = "deleting")
                          ELSE object'[c] = object[c]
  BY <1>3
<1> HIDE DEF asked
<1>9. StorageOf(n)!RequestDeletion(asked)
  BY <1>1, <1>4, <1>5, <1>6, <1>7, <1>8 DEF StorageOf!RequestDeletion
<1> QED
  BY <1>6, <1>9 DEF StorageOf!Next, Promised

\* A vgmanager builds or tears a volume group of its own node.
LEMMA HostOnlyPromised ==
    ASSUME Inv, NEW n \in Present, NEW m \in Nodes, NEW d \in Classes, HostOnly(m, d)
    PROVE  Promised(n)
<1> DEFINE built == {c \in Classes : <<n, c>> \in host}
<1>0. vg' = vg /\ vols' = vols /\ host \subseteq Nodes \X Classes
  BY DEF HostOnly, Inv, TypeOK, ClusterTypeOK
<1>1. CASE m # n
  <2>1. built' = built
    BY <1>1 DEF HostOnly, Build, Tear
  <2> QED
    BY <1>0, <2>1 DEF StorageOf!vars, Promised
<1>2. CASE m = n /\ Build(m, d)
  <2>1. built' = built \cup {d} /\ d \notin built /\ n \in vg[d].fins
    BY <1>2 DEF Build
  <2>2. StorageOf(n)!Build(d)
    BY <1>0, <2>1 DEF StorageOf!Build
  <2> QED
    BY <2>2 DEF StorageOf!Next, Promised
<1>3. CASE m = n /\ Tear(m, d)
  <2>1. built' = built \ {d} /\ d \in built /\ <<n, d>> \notin vols
    BY <1>3 DEF Tear
  <2>2. VGPhase(vg[d]) = "deleting"
    BY <1>3 DEF Tear, Reconciles, VGPhase
  <2>3. StorageOf(n)!Tear(d)
    BY <1>0, <2>1, <2>2 DEF StorageOf!Tear
  <2> QED
    BY <2>3 DEF StorageOf!Next, Promised
<1> QED
  BY <1>1, <1>2, <1>3 DEF HostOnly

\* A volume comes or goes in a volume group that is there.
LEMMA VolumeOnlyPromised ==
    ASSUME Inv, NEW n \in Present, NEW m \in Nodes, NEW d \in Classes, VolumeOnly(m, d)
    PROVE  Promised(n)
<1> DEFINE used == {c \in Classes : <<n, c>> \in vols}
<1>0. vg' = vg /\ host' = host
  BY DEF VolumeOnly
<1>1. vols' \in {vols \cup {<<m, d>>}, vols \ {<<m, d>>}} /\ <<m, d>> \in host
  BY DEF VolumeOnly, Provision, Reclaim, DeleteRetained, Inv, VolumesFit
<1>2. CASE m # n
  <2>1. used' = used
    BY <1>1, <1>2
  <2> QED
    BY <1>0, <2>1 DEF StorageOf!vars, Promised
<1>3. CASE m = n
  <2>1. used' \in {used \cup {d}, used \ {d}}
    BY <1>1, <1>3
  <2>2. StorageOf(n)!Use(d)
    BY <1>0, <1>1, <1>3, <2>1 DEF StorageOf!Use
  <2> QED
    BY <2>2 DEF StorageOf!Next, Promised
<1> QED
  BY <1>2, <1>3

\* The operator, users and the platform keep to the promise of every vgmanager:
\* whatever happens to the LVMVolumeGroups, the volume groups and the volumes is,
\* for each node that stays in the cluster, a step of NodeStorage. Only its own
\* vgmanager gives back the finalizer of a node, after its volume group is gone.
THEOREM PromiseKept == Spec => StoragePromiseKept
<1> DEFINE Kept == \/ UNCHANGED <<vg, host, vols>>
                   \/ \A n \in Present : UNCHANGED StorageOf(n)!vars \/ StorageOf(n)!Next
<1>1. ASSUME Inv, [Next]_vars PROVE Kept
  <2>1. \/ UNCHANGED <<vg, host, vols>>
        \/ \A n \in Present : Promised(n)
    BY <1>1, OneAtATime, GroupOnlyPromised, DeleteGroupsPromised, HostOnlyPromised,
       VolumeOnlyPromised
  <2> QED
    BY <2>1 DEF Promised
<1>2. Inv /\ [Next]_vars => [Kept]_vars
  BY <1>1
<1> QED
  BY <1>2, Invariant, PTL DEF Spec, StoragePromiseKept

=============================================================================
