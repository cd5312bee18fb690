------------------------ MODULE OperatorStorage_proofs ------------------------
(***************************************************************************)
(* What a node with storage needs stays: the vgmanager DaemonSet on the    *)
(* node and the node's status outlive its volume groups, for every number  *)
(* of nodes and classes, every interleaving and every fault.               *)
(*                                                                         *)
(* The LVMCluster controller waits for the LVMVolumeGroups of the spec it  *)
(* has read. What it waits for is what exists if users only add classes to *)
(* the spec, and it is what is still in the spec if they only remove some. *)
(***************************************************************************)
EXTENDS Operator_proofs

\* The provers a leaf is given to when it names none: most are first-order and
\* go to Zenon, the rest (arithmetic, records, sequences) to the SMT solver.
USE Zenon, SMTT(30)

\* The classes of the spec only grow, or only shrink.
DropsNothing == "drop" \notin UserOps
AddsNothing == "add" \notin UserOps

-----------------------------------------------------------------------------
(***************************************************************************)
(* The invariants.                                                         *)
(***************************************************************************)

\* The life of the LVMCluster: it is deleted with its finalizer on, nothing
\* exists before the finalizer, the worker ensures while the finalizer is on and
\* takes the deletion path only after a deletion.
LifeFits ==
    /\ cluster.alive \/ cluster = NoCluster
    /\ cluster.foreground => cluster.deleting
    /\ cluster.deleting => cluster.fin
    /\ pc \in DeleteSteps => cluster.deleting
    /\ pc \in {"ensure", "drop"} => cluster.fin
    /\ pc = "finalizer" => ~inst.deleting
    /\ pc = "ensure" => \A c \in Classes : <<"group", c>> \in todo => c \in inst.classes
    /\ cluster.alive /\ ~cluster.fin =>
         ~ds.alive /\ pods = {} /\ host = {} /\ \A c \in Classes : ~vg[c].alive

\* A volume group is on a node that its class selects.
HostMatches == \A v \in host : v[1] \in Matches[v[2]]

LifeInv == Inv /\ LifeFits /\ HostMatches

\* Without the DaemonSet there is no storage yet, or the LVMVolumeGroups of the
\* spec are gone for good. Foreground propagation is excepted.
DaemonFits ==
    ~cluster.foreground /\ ~ds.alive =>
      \/ pods = {} /\ host = {}
      \/ /\ cluster.alive => cluster.deleting
         /\ pc # "ensure"
         /\ \A c \in cluster.classes : ~vg[c].alive

\* Classes are only added: what exists is in the spec, and in the copy of the
\* spec from which the worker deletes; the affinity of the DaemonSet selects no
\* more than the spec.
SpecGrows ==
    /\ pc = "ensure" => inst.classes \subseteq cluster.classes
    /\ \A c \in Classes : vg[c].alive => c \in cluster.classes
    /\ pc \in DeleteSteps => \A c \in Classes : vg[c].alive => c \in inst.classes
    /\ ds.alive => ds.on \subseteq Selected(cluster.classes)
    /\ ds.alive /\ pc = "ensure" => ds.on \subseteq Selected(inst.classes)

\* ... and therefore never gives up a node that it has had.
OnFits ==
    cluster.alive /\ ~cluster.foreground /\ ds.alive =>
        pods \subseteq ds.on /\ \A v \in host : v[1] \in ds.on

GrowInv == LifeInv /\ SpecGrows /\ DaemonFits /\ OnFits /\ StatusOutlivesStorage

\* Classes are only removed: the copy of the worker has what is still in the
\* spec, and the affinity selects its nodes.
SpecShrinks ==
    /\ pc # "idle" => cluster.classes \subseteq inst.classes
    /\ ds.alive => \A c \in cluster.classes : Matches[c] \subseteq ds.on

\* The node status exists as long as a volume group of a class of the spec.
StatusOutlivesSpec ==
    \A v \in host : v[1] \in Present /\ v[2] \in cluster.classes => ns[v[1]].alive

ShrinkInv == LifeInv /\ SpecShrinks /\ DaemonFits /\ StatusOutlivesSpec

-----------------------------------------------------------------------------
(***************************************************************************)
(* What a step may do to each part of the state.                           *)
(***************************************************************************)

\* The worker begins with a copy of the LVMCluster and keeps it to the end.
Proceeds ==
    /\ UNCHANGED inst
    /\ \/ pc' = pc
       \/ pc = "ensure" /\ pc' = "drop"
       \/ pc \in DeleteSteps /\ pc' \in DeleteSteps

LEMMA PcStep ==
    ASSUME [Next]_vars
    PROVE  Reconcile \/ (AddFinalizer /\ cluster = inst) \/ pc' = "idle" \/ Proceeds
<1>1. Rest => pc' = "idle"
  BY DEF Rest
<1>2. ASSUME NEW i, NEW more, ItemDone(i, more) \/ UnitFails(i) PROVE Proceeds
  BY <1>2 DEF ItemDone, UnitFails, Proceeds
<1>3. ASSUME NEW s \in DeleteSteps, pc \in DeleteSteps, Goto(s) PROVE Proceeds
  BY <1>3 DEF Goto, Proceeds
<1>4. CASE AddFinalizer \/ ListValidNodes \/ UnitsDone
  BY <1>1, <1>4 DEF AddFinalizer, ListValidNodes, UnitsDone, Proceeds
<1>5. CASE EnsureDaemonSet \/ EnsureCSINode \/ EnsureRest
  BY <1>2, <1>5 DEF EnsureDaemonSet, EnsureCSINode, EnsureRest
<1>6. ASSUME NEW c \in Classes, DropStorageClass(c) \/ DropGroup(c)
      PROVE  pc' = "idle" \/ Proceeds
  BY <1>1, <1>2, <1>6 DEF DropStorageClass, DropGroup
<1>7. ASSUME NEW c \in Classes, EnsureGroup(c) \/ EnsureStorageClass(c) PROVE Proceeds
  BY <1>2, <1>7 DEF EnsureGroup, EnsureStorageClass
<1>8. ASSUME NEW n \in Nodes, EnsureStatus(n) PROVE Proceeds
  BY <1>2, <1>8 DEF EnsureStatus
<1>9. ASSUME NEW i \in Items, ItemFails(i) PROVE Proceeds
  BY <1>2, <1>9 DEF ItemFails
<1>10. CASE ListNodes \/ ListGroups \/ \E c \in Classes : StripGroup(c)
  BY <1>1, <1>10 DEF ListNodes, ListGroups, StripGroup, Goto, Proceeds, DeleteSteps
<1>11. CASE FreeVolumes \/ CheckClaims \/ CheckRetained \/ DeleteGroups \/ DeleteDaemonSet
  BY <1>1, <1>11 DEF FreeVolumes, CheckClaims, CheckRetained, DeleteGroups, DeleteDaemonSet,
     Goto, Proceeds, DeleteSteps
<1>12. CASE DeleteStatuses
  BY <1>1, <1>12 DEF DeleteStatuses, Goto, Proceeds, DeleteSteps
<1>13. CASE DeleteStorageClasses \/ CheckCSINodes \/ ReleaseCluster
  BY <1>1, <1>13 DEF DeleteStorageClasses, CheckCSINodes, ReleaseCluster, Goto, Proceeds,
     DeleteSteps
<1>14. CASE RequestFails \/ Crash
  BY <1>1, <1>14 DEF RequestFails, Crash
<1>15. CASE UNCHANGED workerVars
  BY <1>15 DEF workerVars, Proceeds
<1> QED
  BY <1>4, <1>5, <1>6, <1>7, <1>8, <1>9, <1>10, <1>11, <1>12, <1>13, <1>14, <1>15
  DEF Next, WorkerNext, CreatePath, DeletePath, vars

\* The requests for LVMVolumeGroups that the worker has yet to make.
LEMMA GroupTodo ==
    ASSUME [Next]_vars, pc = "ensure", pc' = "ensure", NEW c, <<"group", c>> \in todo'
    PROVE  <<"group", c>> \in todo
<1>1. ~Rest
  BY DEF Rest
<1>2. ASSUME NEW i, ItemDone(i, {}) \/ UnitFails(i) PROVE <<"group", c>> \in todo
  BY <1>2 DEF ItemDone, UnitFails
<1>3. CASE ListValidNodes
  BY <1>3 DEF ListValidNodes
<1>4. ~UnitsDone /\ ~AddFinalizer /\ ~Reconcile
  BY <1>1 DEF UnitsDone, AddFinalizer, Reconcile
<1>5. CASE EnsureDaemonSet \/ EnsureCSINode \/ EnsureRest
  BY <1>2, <1>5 DEF EnsureDaemonSet, EnsureCSINode, EnsureRest
<1>6. ASSUME NEW d \in Classes PROVE ~DropStorageClass(d) /\ ~DropGroup(d)
  BY DEF DropStorageClass, DropGroup
<1>7. ASSUME NEW d \in Classes, EnsureGroup(d) \/ EnsureStorageClass(d)
      PROVE  <<"group", c>> \in todo
  BY <1>2, <1>7 DEF EnsureGroup, EnsureStorageClass
<1>8. ASSUME NEW n \in Nodes, EnsureStatus(n) PROVE <<"group", c>> \in todo
  BY <1>2, <1>8 DEF EnsureStatus
<1>9. ASSUME NEW i \in Items, ItemFails(i) PROVE <<"group", c>> \in todo
  BY <1>2, <1>9 DEF ItemFails
<1>10. ~DeletePath
  BY DEF DeletePath, ListNodes, ListGroups, FreeVolumes, CheckClaims, CheckRetained,
     DeleteGroups, DeleteDaemonSet, DeleteStatuses, DeleteStorageClasses, CheckCSINodes,
     ReleaseCluster, StripGroup
<1>11. ~RequestFails /\ ~Crash
  BY <1>1 DEF RequestFails, Crash
<1>12. CASE UNCHANGED workerVars
  BY <1>12 DEF workerVars
<1> QED
  BY <1>3, <1>4, <1>5, <1>6, <1>7, <1>8, <1>9, <1>10, <1>11, <1>12
  DEF Next, WorkerNext, CreatePath, vars

\* An LVMVolumeGroup comes with EnsureCreated of its class only.
LEMMA GroupBorn ==
    ASSUME Inv, [Next]_vars, NEW c \in Classes, vg'[c].alive, ~vg[c].alive
    PROVE  EnsureGroup(c)
<1>0. vg \in [Classes -> VolumeGroups] /\ vg[c] = NoVG
  BY DEF Inv, TypeOK, ClusterTypeOK, GroupsFit
<1>1. ~NoVG.alive /\ ~NoVG.deleting /\ Deleted(NoVG) = NoVG
  BY DEF NoVG, Deleted
<1>2. \A fins : ~Stripped(NoVG, fins).alive
  BY DEF NoVG, Stripped, Settled
<1>3. CASE SurroundingsStep
  <2>1. \/ UNCHANGED vg \/ \E d \in Classes : CollectVG(d)
        \/ \E n \in Nodes, d \in Classes : Hold(n, d) \/ Release(n, d)
    BY <1>3 DEF SurroundingsStep, Surroundings, Users, VGManagers, Platform, DeleteCluster,
       DropClass, AddClass, Claim, Unclaim, DeleteRetained, Build, Tear,
       Leave, Join, BecomeUnready, BecomeReady, StartPod, StopPod, CollectStatus,
       CollectDaemonSet, Provision, Reclaim, objects
  <2>2. ASSUME NEW n \in Nodes, NEW d \in Classes, Hold(n, d) PROVE FALSE
    BY <1>0, <1>1, <2>2 DEF Hold, Reconciles
  <2>3. ASSUME NEW n \in Nodes, NEW d \in Classes, Release(n, d) PROVE FALSE
    BY <1>0, <1>1, <2>3 DEF Release, Reconciles
  <2>4. ASSUME NEW d \in Classes, CollectVG(d) PROVE FALSE
    BY <1>0, <1>1, <2>4 DEF CollectVG
  <2> QED
    BY <2>1, <2>2, <2>3, <2>4
<1>4. CASE RemovalStep
  <2>1. UNCHANGED vg \/ \E d \in Classes : RemClean(d)
    BY <1>4 DEF RemovalStep, RemovalNext, RemGet, RemGetNode, RemDelete, RemUpdate, RemList,
       RemFails, clusterVars, objects
  <2> QED
    BY <1>0, <1>1, <1>2, <2>1 DEF RemClean
<1>5. CASE WorkerStep
  <2>1. \/ UNCHANGED vg \/ DeleteGroups
        \/ \E d \in Classes : EnsureGroup(d) \/ DropGroup(d) \/ StripGroup(d)
    BY <1>5 DEF WorkerStep, CreatePath, DeletePath, AddFinalizer, EnsureDaemonSet,
       ListValidNodes, EnsureCSINode, EnsureRest, UnitsDone, EnsureStorageClass,
       DropStorageClass, EnsureStatus, ListNodes, ListGroups, FreeVolumes,
       CheckClaims, CheckRetained, DeleteDaemonSet, DeleteStatuses,
       DeleteStorageClasses, CheckCSINodes, ReleaseCluster, clusterVars, objects
  <2>2. ~DeleteGroups
    BY <1>0, <1>1 DEF DeleteGroups
  <2>3. ASSUME NEW d \in Classes, DropGroup(d) PROVE FALSE
    BY <1>0, <1>1, <2>3 DEF DropGroup
  <2>4. ASSUME NEW d \in Classes, StripGroup(d) PROVE FALSE
    BY <1>0, <1>1, <1>2, <2>4 DEF StripGroup
  <2>5. ASSUME NEW d \in Classes, EnsureGroup(d) PROVE d = c
    BY <1>0, <1>1, <2>5 DEF EnsureGroup
  <2> QED
    BY <2>1, <2>2, <2>3, <2>4, <2>5
<1>6. CASE QuietStep
  BY <1>6, QuietLeaves DEF objects
<1> QED
  BY <1>3, <1>4, <1>5, <1>6, StepKinds

\* The DaemonSet is ensured or deleted, and pods start only for it.
LEMMA DaemonStep ==
    ASSUME [Next]_vars
    PROVE  /\ UNCHANGED ds \/ CollectDaemonSet \/ DeleteDaemonSet \/ EnsureDaemonSet
           /\ pods' \subseteq pods \/ \E n \in Nodes : StartPod(n)
<1>1. CASE SurroundingsStep
  BY <1>1 DEF SurroundingsStep, Surroundings, Users, VGManagers, Platform, DeleteCluster,
     DropClass, AddClass, Claim, Unclaim, DeleteRetained, Hold, Build, Tear, Release,
     Leave, Join, BecomeUnready, BecomeReady, StopPod, CollectStatus, CollectVG,
     CollectDaemonSet, StartPod, Provision, Reclaim, objects, machines
<1>2. CASE RemovalStep
  BY <1>2 DEF RemovalStep, RemovalNext, RemGet, RemGetNode, RemDelete, RemUpdate, RemList,
     RemClean, RemFails, clusterVars, objects, machines
<1>3. CASE WorkerStep
  BY <1>3 DEF WorkerStep, CreatePath, DeletePath, AddFinalizer, EnsureDaemonSet,
     ListValidNodes, EnsureCSINode, EnsureRest, UnitsDone, EnsureGroup, EnsureStorageClass,
     DropStorageClass, DropGroup, EnsureStatus, ListNodes, ListGroups, FreeVolumes,
     CheckClaims, CheckRetained, DeleteGroups, DeleteDaemonSet, DeleteStatuses,
     DeleteStorageClasses, CheckCSINodes, ReleaseCluster, StripGroup, clusterVars,
     objects, machines
<1>4. CASE QuietStep
  BY <1>4, QuietLeaves DEF objects, machines
<1> QED
  BY <1>1, <1>2, <1>3, <1>4, StepKinds

\* A DaemonSet that is deleted or collected is gone.
LEMMA DaemonGoes == CollectDaemonSet \/ DeleteDaemonSet => ~ds'.alive
<1>1. CollectDaemonSet \/ DeleteDaemonSet => ds' = NoDaemonSet
  BY DEF CollectDaemonSet, DeleteDaemonSet
<1>2. ~NoDaemonSet.alive
  BY DEF NoDaemonSet
<1> QED
  BY <1>1, <1>2

\* A node status goes away on the deletion path, or for a node that left.
LEMMA StatusGone ==
    ASSUME Inv, [Next]_vars, NEW n \in Nodes, ns[n].alive, ~ns'[n].alive
    PROVE  pc = "statuses" \/ n \in left
<1>0. ns \in [Nodes -> NodeStatuses]
  BY DEF Inv, TypeOK, ClusterTypeOK
<1>1. CASE SurroundingsStep
  <2>1. UNCHANGED ns \/ \E m \in Nodes : CollectStatus(m)
    BY <1>1 DEF SurroundingsStep, Surroundings, Users, VGManagers, Platform, DeleteCluster,
       DropClass, AddClass, Claim, Unclaim, DeleteRetained, Hold, Build, Tear, Release,
       Leave, Join, BecomeUnready, BecomeReady, StartPod, StopPod, CollectVG,
       CollectDaemonSet, Provision, Reclaim, objects
  <2> QED
    BY <1>0, <2>1 DEF CollectStatus, NodeStatuses
<1>2. CASE RemovalStep
  <2>1. UNCHANGED ns \/ RemDelete \/ RemUpdate
    BY <1>2 DEF RemovalStep, RemovalNext, RemGet, RemGetNode, RemList, RemClean, RemFails,
       clusterVars, objects
  <2>2. CASE RemDelete
    BY <1>0, <2>2 DEF RemDelete, NodeStatuses
  <2>3. CASE RemUpdate
    BY <1>0, <2>3 DEF RemUpdate, Inv, RemovalFits
  <2> QED
    BY <2>1, <2>2, <2>3
<1>3. CASE WorkerStep
  <2>1. UNCHANGED ns \/ DeleteStatuses \/ \E m \in Nodes : EnsureStatus(m)
    BY <1>3 DEF WorkerStep, CreatePath, DeletePath, AddFinalizer, EnsureDaemonSet,
       ListValidNodes, EnsureCSINode, EnsureRest, UnitsDone, EnsureGroup, EnsureStorageClass,
       DropStorageClass, DropGroup, ListNodes, ListGroups, FreeVolumes,
       CheckClaims, CheckRetained, DeleteGroups, DeleteDaemonSet,
       DeleteStorageClasses, CheckCSINodes, ReleaseCluster, StripGroup, clusterVars, objects
  <2>2. ASSUME NEW m \in Nodes, EnsureStatus(m) PROVE FALSE
    BY <1>0, <2>2 DEF EnsureStatus, NodeStatuses
  <2> QED
    BY <2>1, <2>2 DEF DeleteStatuses
<1>4. CASE QuietStep
  BY <1>4, QuietLeaves DEF objects
<1> QED
  BY <1>1, <1>2, <1>3, <1>4, StepKinds

\* The LVMCluster: it goes away without its finalizer or with the last request
\* of the deletion path, and stays away; what is deleted stays deleted.
ClusterGoes ==
    /\ cluster' = NoCluster
    /\ \/ DeleteCluster /\ cluster.alive /\ ~cluster.fin
       \/ ReleaseCluster /\ cluster = inst

ClusterStays ==
    /\ cluster.alive /\ cluster'.alive
    /\ cluster.fin => cluster'.fin
    /\ cluster'.fin => cluster.fin \/ AddFinalizer
    /\ cluster.deleting => cluster'.deleting /\ (cluster'.foreground <=> cluster.foreground)
    /\ cluster'.deleting => cluster.deleting \/ cluster.fin
    /\ cluster'.foreground => cluster'.deleting
    /\ cluster.foreground => cluster'.foreground
    /\ cluster'.classes # cluster.classes =>
         \E c \in Classes : \/ DropClass(c) /\ cluster'.classes = cluster.classes \ {c}
                            \/ AddClass(c) /\ cluster'.classes = cluster.classes \cup {c}

LEMMA LifeStep ==
    ASSUME Inv, LifeFits, [Next]_vars
    PROVE  ClusterGoes \/ ClusterStays \/ UNCHANGED cluster
<1>0. /\ cluster \in Clusters /\ (cluster.foreground => cluster.deleting)
      /\ cluster.deleting => cluster.fin
      /\ pc = "finalizer" => inst.alive
  BY DEF Inv, TypeOK, ClusterTypeOK, LifeFits, ClusterFits
<1>1. CASE DeleteCluster
  <2>1. CASE ~cluster.fin
    BY <1>1, <2>1 DEF DeleteCluster, ClusterGoes
  <2>2. CASE cluster.fin
    BY <1>0, <1>1, <2>2 DEF DeleteCluster, ClusterStays, Clusters
  <2> QED
    BY <2>1, <2>2
<1>2. ASSUME NEW c \in Classes, DropClass(c) PROVE ClusterStays
  <2>1. cluster'.classes = cluster.classes \ {c}
    BY <1>0, <1>2 DEF DropClass, Clusters
  <2> QED
    BY <1>0, <1>2, <2>1 DEF DropClass, ClusterStays, Clusters
<1>3. ASSUME NEW c \in Classes, AddClass(c) PROVE ClusterStays
  <2>1. cluster'.classes = cluster.classes \cup {c}
    BY <1>0, <1>3 DEF AddClass, Clusters
  <2> QED
    BY <1>0, <1>3, <2>1 DEF AddClass, ClusterStays, Clusters
<1>4. CASE AddFinalizer
  BY <1>0, <1>4 DEF AddFinalizer, ClusterStays, Clusters
<1>5. CASE ReleaseCluster
  BY <1>5 DEF ReleaseCluster, ClusterGoes
<1> QED
  BY <1>1, <1>2, <1>3, <1>4, <1>5, ClusterStep

-----------------------------------------------------------------------------
(***************************************************************************)
(* The life of the LVMCluster.                                             *)
(***************************************************************************)

LEMMA LifeInit == Init => LifeInv
<1> SUFFICES ASSUME Init PROVE LifeInv
  OBVIOUS
<1>1. LifeFits
  BY DEF Init, ClusterInit, WorkerInit, LifeFits, DeleteSteps, NoDaemonSet, NoVG
<1>2. HostMatches
  BY DEF Init, ClusterInit, HostMatches
<1> QED
  BY <1>1, <1>2, InvInit DEF LifeInv

\* Only an LVMCluster that exists has classes.
LEMMA ClassesNeedCluster ==
    ASSUME LifeInv, NEW c \in cluster.classes
    PROVE  cluster.alive
<1>1. cluster.alive \/ cluster = NoCluster
  BY DEF LifeInv, LifeFits
<1>2. NoCluster.classes = {}
  BY DEF NoCluster
<1> QED
  BY <1>1, <1>2

LEMMA LifeFitsStep ==
    ASSUME LifeInv, [Next]_vars
    PROVE  LifeFits'
<1>0. /\ cluster \in Clusters /\ (cluster.fin => cluster.alive)
      /\ pc = "finalizer" => inst.alive
  BY DEF LifeInv, Inv, TypeOK, ClusterTypeOK, ClusterFits
<1> USE DEF NoCluster
<1>1. /\ cluster'.alive \/ cluster' = NoCluster
      /\ cluster'.foreground => cluster'.deleting
      /\ cluster'.deleting => cluster'.fin
  <2>1. CASE ClusterGoes
    BY <2>1 DEF ClusterGoes
  <2>2. CASE ClusterStays \/ UNCHANGED cluster
    BY <2>2 DEF LifeInv, LifeFits, ClusterStays
  <2> QED
    BY <2>1, <2>2, LifeStep DEF LifeInv
<1>2. pc' \in DeleteSteps => cluster'.deleting
  <2> SUFFICES ASSUME pc' \in DeleteSteps PROVE cluster'.deleting
    OBVIOUS
  <2>1. pc' # "idle" /\ pc' # "ensure" /\ pc' # "finalizer" /\ pc' # "drop"
    BY DEF DeleteSteps
  <2>2. CASE Reconcile
    BY <2>1, <2>2 DEF Reconcile, clusterVars, objects
  <2>3. CASE pc \in DeleteSteps
    <3>1. cluster.deleting /\ cluster.fin
      BY <2>3 DEF LifeInv, LifeFits
    <3>2. ~ReleaseCluster
      BY <2>1 DEF ReleaseCluster, Rest
    <3> QED
      BY <3>1, <3>2, LifeStep DEF LifeInv, ClusterGoes, ClusterStays
  <2>4. ~(AddFinalizer /\ cluster = inst)
    BY <2>1 DEF AddFinalizer
  <2> QED
    BY <2>1, <2>2, <2>3, <2>4, PcStep DEF Proceeds
<1>3. pc' \in {"ensure", "drop"} => cluster'.fin
  <2> SUFFICES ASSUME pc' \in {"ensure", "drop"} PROVE cluster'.fin
    OBVIOUS
  <2>1. CASE Reconcile
    BY <2>1 DEF Reconcile, clusterVars, objects
  <2>2. CASE AddFinalizer /\ cluster = inst
    BY <1>0, <2>2 DEF AddFinalizer, Clusters
  <2>3. CASE pc \in {"ensure", "drop"}
    <3>1. cluster.fin /\ ~ReleaseCluster
      BY <2>3 DEF LifeInv, LifeFits, ReleaseCluster
    <3> QED
      BY <3>1, LifeStep DEF LifeInv, ClusterGoes, ClusterStays
  <2> QED
    BY <2>1, <2>2, <2>3, PcStep DEF Proceeds, DeleteSteps
<1>4. pc' = "finalizer" => ~inst'.deleting
  <2> SUFFICES ASSUME pc' = "finalizer" PROVE ~inst'.deleting
    OBVIOUS
  <2>1. CASE Reconcile
    BY <2>1 DEF Reconcile
  <2>2. CASE UNCHANGED workerVars
    BY <2>2 DEF LifeInv, LifeFits, workerVars
  <2> QED
    BY <2>1, <2>2, FinalizerStep
<1>5. pc' = "ensure" => \A c \in Classes : <<"group", c>> \in todo' => c \in inst'.classes
  <2> SUFFICES ASSUME pc' = "ensure", NEW c \in Classes, <<"group", c>> \in todo'
               PROVE  c \in inst'.classes
    OBVIOUS
  <2>1. CASE Reconcile
    BY <2>1 DEF Reconcile, Units
  <2>2. CASE AddFinalizer /\ cluster = inst
    BY <1>0, <2>2 DEF AddFinalizer, Units, Clusters
  <2>3. CASE pc = "ensure" /\ UNCHANGED inst
    BY <2>3, GroupTodo DEF LifeInv, LifeFits
  <2> QED
    BY <2>1, <2>2, <2>3, PcStep DEF Proceeds, DeleteSteps
<1>6. cluster'.alive /\ ~cluster'.fin =>
        ~ds'.alive /\ pods' = {} /\ host' = {} /\ \A c \in Classes : ~vg'[c].alive
  <2> SUFFICES ASSUME cluster'.alive, ~cluster'.fin
               PROVE  ~ds'.alive /\ pods' = {} /\ host' = {} /\ \A c \in Classes : ~vg'[c].alive
    OBVIOUS
  <2>1. cluster.alive /\ ~cluster.fin
    BY LifeStep DEF LifeInv, ClusterGoes, ClusterStays
  <2>2. /\ ~ds.alive /\ pods = {} /\ host = {} /\ \A c \in Classes : ~vg[c].alive
        /\ pc # "ensure"
    BY <2>1 DEF LifeInv, LifeFits
  <2>3. ~ds'.alive /\ pods' = {}
    <3>1. ~EnsureDaemonSet
      BY <2>2 DEF EnsureDaemonSet, Ensures
    <3>2. ASSUME NEW n \in Nodes PROVE ~StartPod(n)
      BY <2>2 DEF StartPod
    <3> QED
      BY <2>2, <3>1, <3>2, DaemonGoes, DaemonStep
  <2>4. host' = {}
    BY <2>2, HostStep DEF Build, Reconciles
  <2>5. ASSUME NEW c \in Classes PROVE ~vg'[c].alive
    BY <2>2, GroupBorn DEF LifeInv, EnsureGroup, Ensures
  <2> QED
    BY <2>3, <2>4, <2>5
<1> QED
  BY <1>1, <1>2, <1>3, <1>4, <1>5, <1>6 DEF LifeFits

LEMMA HostMatchesStep ==
    ASSUME LifeInv, [Next]_vars
    PROVE  HostMatches'
<1>1. ASSUME NEW n \in Nodes, NEW c \in Classes, Build(n, c) PROVE HostMatches'
  <2>1. host' = host \cup {<<n, c>>} /\ n \in Matches[c]
    BY <1>1 DEF Build, Reconciles
  <2> QED
    BY <2>1 DEF LifeInv, HostMatches
<1> QED
  BY <1>1, HostStep DEF LifeInv, HostMatches

LEMMA LifeInvStep ==
    ASSUME LifeInv, [Next]_vars
    PROVE  LifeInv'
<1>1. Inv'
  BY InvStep DEF LifeInv
<1>2. LifeFits' /\ HostMatches'
  BY LifeFitsStep, HostMatchesStep
<1> QED
  BY <1>1, <1>2 DEF LifeInv

\* A node with a volume group of a class holds the LVMVolumeGroup of the class.
LEMMA HostHasGroup ==
    ASSUME Inv, NEW v \in host, v[1] \in Present
    PROVE  v[2] \in Classes /\ v[1] \in Nodes /\ vg[v[2]].alive
<1>1. v[2] \in Classes /\ v[1] \in Nodes
  BY DEF Inv, TypeOK, ClusterTypeOK
<1>2. v[1] \in vg[v[2]].fins
  BY DEF Inv, HostGuarded
<1> QED
  BY <1>1, <1>2 DEF Inv, GroupsFit, NoVG

-----------------------------------------------------------------------------
(***************************************************************************)
(* The DaemonSet.                                                          *)
(***************************************************************************)

\* What the worker has seen to be gone covers the spec, and a class that is
\* added to the spec has no LVMVolumeGroup left from earlier.
GatesCoverSpec == pc \in AfterGroups => \A c \in cluster.classes : ~vg[c].alive
AddedIsNew == \A c \in Classes : AddClass(c) => ~vg[c].alive

LEMMA DaemonFitsStep ==
    ASSUME LifeInv, DaemonFits, GatesCoverSpec, AddedIsNew, [Next]_vars
    PROVE  DaemonFits'
<1> SUFFICES ASSUME ~cluster'.foreground, ~ds'.alive
             PROVE  \/ pods' = {} /\ host' = {}
                    \/ /\ cluster'.alive => cluster'.deleting
                       /\ pc' # "ensure"
                       /\ \A c \in cluster'.classes : ~vg'[c].alive
  BY DEF DaemonFits
<1>0. cluster \in Clusters /\ cluster' \in Clusters /\ (cluster.fin => cluster.alive)
  BY TypeStep DEF LifeInv, Inv, TypeOK, ClusterTypeOK, ClusterFits
<1>1. ~EnsureDaemonSet
  BY DEF EnsureDaemonSet, EnsuredDaemonSet
<1>2. CASE CollectDaemonSet
  <2>1. ~cluster.alive /\ cluster = NoCluster /\ cluster' = cluster /\ pc # "ensure"
    BY <1>0, <1>2 DEF CollectDaemonSet, OwnerGone, LifeInv, LifeFits
  <2>2. pc' # "ensure"
    <3>1. ~Reconcile /\ ~(AddFinalizer /\ cluster = inst)
      BY <2>1 DEF Reconcile, AddFinalizer, LifeInv, Inv, ClusterFits
    <3> QED
      BY <2>1, <3>1, PcStep DEF Proceeds, DeleteSteps
  <2> QED
    BY <2>1, <2>2 DEF NoCluster
<1>3. CASE DeleteDaemonSet
  <2>1. cluster' = cluster /\ vg' = vg /\ cluster.deleting /\ pc' # "ensure"
    BY <1>3 DEF DeleteDaemonSet, LifeInv, LifeFits, DeleteSteps, Goto, Rest
  <2>2. \A c \in cluster.classes : ~vg[c].alive
    BY <1>3 DEF DeleteDaemonSet, GatesCoverSpec, AfterGroups
  <2> QED
    BY <2>1, <2>2
<1>4. CASE UNCHANGED ds /\ cluster.foreground
  <2>1. ReleaseCluster /\ cluster' = NoCluster
    BY <1>4, LifeStep DEF LifeInv, LifeFits, ClusterGoes, ClusterStays
  <2> QED
    BY <2>1 DEF ReleaseCluster, Rest, NoCluster
<1>5. CASE UNCHANGED ds /\ pods = {} /\ host = {}
  <2>1. pods' = {}
    BY <1>5, DaemonStep DEF StartPod
  <2>2. host' = {}
    BY <1>5, HostStep DEF Build, Reconciles
  <2> QED
    BY <2>1, <2>2
<1>6. CASE /\ UNCHANGED ds
           /\ cluster.alive => cluster.deleting
           /\ pc # "ensure"
           /\ \A c \in cluster.classes : ~vg[c].alive
  <2>1. cluster'.alive => cluster'.deleting
    BY <1>6, LifeStep DEF LifeInv, ClusterGoes, ClusterStays, NoCluster
  <2>2. pc' # "ensure"
    <3>1. ~(Reconcile /\ pc' = "ensure")
      BY <1>6 DEF Reconcile
    <3>2. ~(AddFinalizer /\ cluster = inst)
      BY <1>6 DEF AddFinalizer, LifeInv, LifeFits, Inv, ClusterFits
    <3> QED
      BY <1>6, <3>1, <3>2, PcStep DEF Proceeds, DeleteSteps
  <2>3. ASSUME NEW c \in cluster'.classes PROVE ~vg[c].alive
    <3>1. c \in Classes
      BY <1>0 DEF Clusters
    <3>2. c \in cluster.classes \/ AddClass(c)
      BY LifeStep DEF LifeInv, ClusterGoes, ClusterStays, NoCluster
    <3> QED
      BY <1>6, <3>1, <3>2 DEF AddedIsNew
  <2>4. ASSUME NEW c \in cluster'.classes PROVE ~vg'[c].alive
    <3>1. c \in Classes
      BY <1>0 DEF Clusters
    <3> QED
      BY <1>6, <2>3, <3>1, GroupBorn DEF LifeInv, EnsureGroup, Ensures
  <2> QED
    BY <2>1, <2>2, <2>4
<1> QED
  BY <1>1, <1>2, <1>3, <1>4, <1>5, <1>6, DaemonStep DEF DaemonFits

\* A node that has the volume group of a class of the spec has a DaemonSet.
LEMMA DaemonThere ==
    ASSUME LifeInv, DaemonFits, NEW v \in host, v[1] \in Present, v[2] \in cluster.classes,
           ~cluster.foreground
    PROVE  ds.alive
BY HostHasGroup DEF LifeInv, DaemonFits

\* The affinity of the DaemonSet after it was ensured.
LEMMA EnsuredOn ==
    ASSUME Inv, EnsureDaemonSet
    PROVE  /\ ds'.alive /\ pc = "ensure"
           /\ \/ ds' = ds
              \/ /\ ds'.on = Selected(inst.classes)
                 /\ ds.alive => inst.classes \cap NoSelector = {}
           /\ UNCHANGED <<cluster, vg, ns, pods, host>>
BY DEF EnsureDaemonSet, EnsuredDaemonSet, Ensures, machines

LEMMA SelectedGrows ==
    ASSUME NEW T \in SUBSET Classes, NEW S \in SUBSET T
    PROVE  Selected(S) \subseteq Selected(T) /\ \A c \in T : Matches[c] \subseteq Selected(T)
BY ClusterAssumption DEF Selected

-----------------------------------------------------------------------------
(***************************************************************************)
(* Classes are only added to the spec.                                     *)
(***************************************************************************)

LEMMA ClassesGrow ==
    ASSUME DropsNothing, LifeInv, [Next]_vars
    PROVE  ClusterGoes \/ cluster.classes \subseteq cluster'.classes
<1>1. ASSUME NEW c PROVE ~DropClass(c)
  BY DEF DropsNothing, DropClass
<1> QED
  BY <1>1, LifeStep DEF LifeInv, ClusterStays

\* When the LVMCluster goes away nothing of it is left.
LEMMA GoesEmpty ==
    ASSUME LifeInv, SpecGrows, ClusterGoes
    PROVE  ~ds'.alive /\ \A c \in Classes : ~vg'[c].alive
<1>1. CASE DeleteCluster /\ cluster.alive /\ ~cluster.fin
  BY <1>1 DEF LifeInv, LifeFits, DeleteCluster
<1>2. CASE ReleaseCluster /\ cluster = inst
  <2>1. ~ds.alive /\ \A c \in inst.classes : ~vg[c].alive
    BY <1>2 DEF LifeInv, Inv, GatesFit, ReleaseCluster, AfterGroups, AfterDaemon
  <2>2. \A c \in Classes : ~vg[c].alive
    BY <1>2, <2>1 DEF SpecGrows
  <2> QED
    BY <1>2, <2>1, <2>2 DEF ReleaseCluster
<1> QED
  BY <1>1, <1>2 DEF ClusterGoes

LEMMA SpecGrowsStep ==
    ASSUME DropsNothing, LifeInv, SpecGrows, [Next]_vars
    PROVE  SpecGrows'
<1>0. /\ cluster \in Clusters /\ cluster' \in Clusters
      /\ inst \in Clusters /\ inst' \in Clusters
      /\ \A c \in Clusters : c.classes \subseteq Classes
  BY TypeStep DEF LifeInv, Inv, TypeOK, ClusterTypeOK, WorkerTypeOK, Clusters
<1>1. pc' = "ensure" => inst'.classes \subseteq cluster'.classes
  <2> SUFFICES ASSUME pc' = "ensure" PROVE inst'.classes \subseteq cluster'.classes
    OBVIOUS
  <2>1. CASE Reconcile
    BY <2>1 DEF Reconcile, clusterVars, objects
  <2>2. CASE AddFinalizer /\ cluster = inst
    BY <2>2 DEF AddFinalizer
  <2>3. CASE pc = "ensure" /\ UNCHANGED inst
    <3>1. ~ClusterGoes
      BY <2>3 DEF ClusterGoes, ReleaseCluster, LifeInv, LifeFits
    <3> QED
      BY <2>3, <3>1, ClassesGrow DEF SpecGrows
  <2> QED
    BY <2>1, <2>2, <2>3, PcStep DEF Proceeds, DeleteSteps
<1>2. ASSUME NEW c \in Classes, vg'[c].alive PROVE c \in cluster'.classes
  <2>1. ~ClusterGoes
    BY <1>2, GoesEmpty
  <2>2. CASE vg[c].alive
    BY <2>1, <2>2, ClassesGrow DEF SpecGrows
  <2>3. CASE ~vg[c].alive
    <3>1. pc = "ensure" /\ <<"group", c>> \in todo
      BY <1>2, <2>3, GroupBorn DEF LifeInv, EnsureGroup, Ensures
    <3>2. c \in cluster.classes
      BY <3>1 DEF LifeInv, LifeFits, SpecGrows
    <3> QED
      BY <2>1, <3>2, ClassesGrow
  <2> QED
    BY <2>2, <2>3
<1>3. ASSUME pc' \in DeleteSteps, NEW c \in Classes, vg'[c].alive PROVE c \in inst'.classes
  <2>1. pc' # "idle" /\ pc' # "ensure" /\ pc' # "finalizer" /\ pc' # "drop"
    BY <1>3 DEF DeleteSteps
  <2>2. CASE Reconcile
    BY <1>3, <2>2 DEF Reconcile, clusterVars, objects, SpecGrows
  <2>3. CASE pc \in DeleteSteps /\ UNCHANGED inst
    <3>1. vg[c].alive
      BY <1>3, <2>3, GroupBorn DEF LifeInv, EnsureGroup, Ensures, DeleteSteps
    <3> QED
      BY <2>3, <3>1 DEF SpecGrows
  <2>4. ~(AddFinalizer /\ cluster = inst)
    BY <2>1 DEF AddFinalizer
  <2> QED
    BY <1>3, <2>1, <2>2, <2>3, <2>4, PcStep DEF Proceeds
<1>4. ASSUME ds'.alive PROVE ds'.on \subseteq Selected(cluster'.classes)
  <2>1. cluster.classes \subseteq cluster'.classes
    BY <1>4, GoesEmpty, ClassesGrow
  <2>2. Selected(cluster.classes) \subseteq Selected(cluster'.classes)
    BY <1>0, <2>1, SelectedGrows
  <2>3. CASE UNCHANGED ds
    BY <1>4, <2>2, <2>3 DEF SpecGrows
  <2>4. CASE EnsureDaemonSet /\ ds' # ds
    <3>1. ds'.on = Selected(inst.classes) /\ inst.classes \subseteq cluster.classes
      BY <2>4, EnsuredOn DEF LifeInv, SpecGrows
    <3>2. Selected(inst.classes) \subseteq Selected(cluster.classes)
      BY <1>0, <3>1, SelectedGrows
    <3> QED
      BY <2>2, <3>1, <3>2
  <2>5. ~CollectDaemonSet /\ ~DeleteDaemonSet
    BY <1>4, DaemonGoes
  <2> QED
    BY <2>3, <2>4, <2>5, DaemonStep
<1>5. ASSUME ds'.alive, pc' = "ensure" PROVE ds'.on \subseteq Selected(inst'.classes)
  <2>1. CASE Reconcile
    BY <1>5, <2>1 DEF Reconcile, clusterVars, objects, SpecGrows
  <2>2. CASE AddFinalizer /\ cluster = inst
    BY <1>0, <1>5, <2>2 DEF AddFinalizer, SpecGrows, Clusters
  <2>3. CASE pc = "ensure" /\ UNCHANGED inst
    <3>1. CASE UNCHANGED ds
      BY <1>5, <2>3, <3>1 DEF SpecGrows
    <3>2. CASE EnsureDaemonSet /\ ds' # ds
      BY <2>3, <3>2, EnsuredOn DEF LifeInv
    <3>3. ~CollectDaemonSet /\ ~DeleteDaemonSet
      BY <1>5, DaemonGoes
    <3> QED
      BY <3>1, <3>2, <3>3, DaemonStep
  <2> QED
    BY <1>5, <2>1, <2>2, <2>3, PcStep DEF Proceeds, DeleteSteps
<1> QED
  BY <1>1, <1>2, <1>3, <1>4, <1>5 DEF SpecGrows

LEMMA OnFitsStep ==
    ASSUME LifeInv, SpecGrows, DaemonFits, OnFits, [Next]_vars
    PROVE  OnFits'
<1> SUFFICES ASSUME cluster'.alive, ~cluster'.foreground, ds'.alive
             PROVE  pods' \subseteq ds'.on /\ \A v \in host' : v[1] \in ds'.on
  BY DEF OnFits
<1>0. cluster.alive /\ ~cluster.foreground
  BY LifeStep DEF LifeInv, ClusterGoes, ClusterStays, NoCluster
<1>1. UNCHANGED ds \/ EnsureDaemonSet
  BY DaemonGoes, DaemonStep
<1>2. CASE ~ds.alive
  <2>1. EnsureDaemonSet
    BY <1>1, <1>2
  <2>2. pods = {} /\ host = {}
    BY <1>0, <1>2, <2>1, EnsuredOn DEF LifeInv, DaemonFits
  <2> QED
    BY <2>1, <2>2, EnsuredOn DEF LifeInv
<1>3. CASE ds.alive
  <2>1. ds.on \subseteq ds'.on
    BY <1>1, <1>3, EnsuredOn DEF LifeInv, SpecGrows
  <2>2. pods \subseteq ds.on /\ \A v \in host : v[1] \in ds.on
    BY <1>0, <1>3 DEF OnFits
  <2>3. pods' \subseteq ds'.on
    BY <2>1, <2>2, DaemonStep DEF StartPod, objects
  <2>4. ASSUME NEW n \in Nodes, NEW c \in Classes, Build(n, c)
        PROVE  host' = host \cup {<<n, c>>} /\ n \in pods
    BY <2>4 DEF Build, Reconciles
  <2>5. \A v \in host' : v[1] \in ds'.on
    BY <2>1, <2>2, <2>4, HostStep
  <2> QED
    BY <2>3, <2>5
<1> QED
  BY <1>2, <1>3

LEMMA StatusGrowStep ==
    ASSUME LifeInv, SpecGrows, StatusOutlivesStorage, [Next]_vars
    PROVE  StatusOutlivesStorage'
<1> SUFFICES ASSUME NEW v \in host', v[1] \in Present', ~ns'[v[1]].alive PROVE FALSE
  BY DEF StatusOutlivesStorage
<1>1. CASE v \in host
  <2>0. v[1] \in Nodes /\ v[2] \in Classes /\ v = <<v[1], v[2]>>
    BY <1>1 DEF LifeInv, Inv, TypeOK, ClusterTypeOK
  <2>1. v[1] \in Nodes /\ v[1] \in Present
    BY <1>1, <2>0, NodesStep DEF LifeInv, Inv, NodesFit
  <2>2. vg[v[2]].alive /\ v[2] \in Classes
    BY <1>1, <2>1, HostHasGroup DEF LifeInv
  <2>3. ns[v[1]].alive
    BY <1>1, <2>1 DEF StatusOutlivesStorage
  <2>4. v[1] \notin left
    BY <2>1 DEF Present
  <2>5. pc = "statuses"
    BY <2>1, <2>3, <2>4, StatusGone DEF LifeInv
  <2> QED
    BY <2>2, <2>5 DEF LifeInv, Inv, GatesFit, AfterGroups, SpecGrows, DeleteSteps
<1>2. ASSUME NEW n \in Nodes, NEW c \in Classes, Build(n, c), v \notin host PROVE FALSE
  <2>1. v = <<n, c>> /\ ns[n].alive /\ ns' = ns
    BY <1>2 DEF Build, Reconciles, objects
  <2> QED
    BY <2>1
<1> QED
  BY <1>1, <1>2, HostStep

LEMMA GrowStep ==
    ASSUME DropsNothing, GrowInv, [Next]_vars
    PROVE  GrowInv'
<1>1. GatesCoverSpec
  BY DEF GatesCoverSpec, GrowInv, LifeInv, Inv, GatesFit, SpecGrows, AfterGroups, DeleteSteps,
     TypeOK, ClusterTypeOK, Clusters
<1>2. AddedIsNew
  BY DEF AddedIsNew, GrowInv, SpecGrows, AddClass
<1> QED
  BY <1>1, <1>2, LifeInvStep, SpecGrowsStep, DaemonFitsStep, OnFitsStep, StatusGrowStep
  DEF GrowInv

LEMMA GrowInit == Init => GrowInv
<1> SUFFICES ASSUME Init PROVE GrowInv
  OBVIOUS
<1>1. SpecGrows /\ DaemonFits /\ OnFits /\ StatusOutlivesStorage
  BY DEF Init, ClusterInit, WorkerInit, SpecGrows, DaemonFits, OnFits, StatusOutlivesStorage,
     NoDaemonSet, NoVG, DeleteSteps
<1> QED
  BY <1>1, LifeInit DEF GrowInv

\* If users only add classes to the spec: what exists belongs to the spec, the
\* DaemonSet never gives up a node, and the statuses outlive the storage.
THEOREM GrowInvariant == DropsNothing => (Spec => []GrowInv)
<1> SUFFICES ASSUME DropsNothing PROVE Spec => []GrowInv
  OBVIOUS
<1>1. GrowInv /\ [Next]_vars => GrowInv'
  BY GrowStep
<1> QED
  BY <1>1, GrowInit, PTL DEF Spec

-----------------------------------------------------------------------------
(***************************************************************************)
(* Classes are only removed from the spec.                                 *)
(***************************************************************************)

LEMMA ClassesShrink ==
    ASSUME AddsNothing, LifeInv, [Next]_vars
    PROVE  cluster'.classes \subseteq cluster.classes
<1>1. ASSUME NEW c PROVE ~AddClass(c)
  BY DEF AddsNothing, AddClass
<1> QED
  BY <1>1, LifeStep DEF LifeInv, ClusterStays, ClusterGoes, NoCluster

LEMMA SpecShrinksStep ==
    ASSUME AddsNothing, LifeInv, SpecShrinks, [Next]_vars
    PROVE  SpecShrinks'
<1>0. inst.classes \subseteq Classes
  BY DEF LifeInv, Inv, TypeOK, WorkerTypeOK, Clusters
<1>1. ASSUME pc' # "idle" PROVE cluster'.classes \subseteq inst'.classes
  <2>1. CASE Reconcile
    BY <2>1 DEF Reconcile, clusterVars, objects
  <2>2. CASE AddFinalizer /\ cluster = inst
    BY <2>2 DEF AddFinalizer
  <2>3. CASE pc # "idle" /\ UNCHANGED inst
    BY <2>3, ClassesShrink DEF SpecShrinks
  <2> QED
    BY <1>1, <2>1, <2>2, <2>3, PcStep DEF Proceeds, DeleteSteps
<1>2. ASSUME ds'.alive, NEW c \in cluster'.classes PROVE Matches[c] \subseteq ds'.on
  <2>0. c \in cluster.classes
    BY <1>2, ClassesShrink
  <2>1. CASE UNCHANGED ds
    BY <1>2, <2>0, <2>1 DEF SpecShrinks
  <2>2. CASE EnsureDaemonSet /\ ds' # ds
    <3>1. ds'.on = Selected(inst.classes) /\ c \in inst.classes
      BY <2>0, <2>2, EnsuredOn DEF LifeInv, SpecShrinks
    <3> QED
      BY <1>0, <3>1, SelectedGrows
  <2>3. ~CollectDaemonSet /\ ~DeleteDaemonSet
    BY <1>2, DaemonGoes
  <2> QED
    BY <2>1, <2>2, <2>3, DaemonStep
<1> QED
  BY <1>1, <1>2 DEF SpecShrinks

LEMMA StatusShrinkStep ==
    ASSUME AddsNothing, LifeInv, SpecShrinks, StatusOutlivesSpec, [Next]_vars
    PROVE  StatusOutlivesSpec'
<1> SUFFICES ASSUME NEW v \in host', v[1] \in Present', v[2] \in cluster'.classes,
                    ~ns'[v[1]].alive
             PROVE  FALSE
  BY DEF StatusOutlivesSpec
<1>0. v[2] \in cluster.classes
  BY ClassesShrink
<1>1. CASE v \in host
  <2>a. host \subseteq Nodes \X Classes
    BY DEF LifeInv, Inv, TypeOK, ClusterTypeOK
  <2>0. v[1] \in Nodes /\ v[2] \in Classes /\ v = <<v[1], v[2]>>
    BY <1>1, <2>a, SMTT(20)
  <2>1. v[1] \in Nodes /\ v[1] \in Present
    BY <1>1, <2>0, NodesStep DEF LifeInv, Inv, NodesFit
  <2>2. vg[v[2]].alive /\ v[2] \in Classes
    BY <1>1, <2>1, HostHasGroup DEF LifeInv
  <2>3. ns[v[1]].alive
    BY <1>0, <1>1, <2>1 DEF StatusOutlivesSpec
  <2>4. v[1] \notin left
    BY <2>1 DEF Present
  <2>5. pc = "statuses"
    BY <2>1, <2>3, <2>4, StatusGone DEF LifeInv
  <2> QED
    BY <1>0, <2>2, <2>5 DEF LifeInv, Inv, GatesFit, AfterGroups, SpecShrinks
<1>2. ASSUME NEW n \in Nodes, NEW c \in Classes, Build(n, c), v \notin host PROVE FALSE
  <2>1. v = <<n, c>> /\ ns[n].alive /\ ns' = ns
    BY <1>2 DEF Build, Reconciles, objects
  <2> QED
    BY <2>1
<1> QED
  BY <1>1, <1>2, HostStep

LEMMA ShrinkStep ==
    ASSUME AddsNothing, ShrinkInv, [Next]_vars
    PROVE  ShrinkInv'
<1>1. GatesCoverSpec
  BY DEF GatesCoverSpec, ShrinkInv, LifeInv, Inv, GatesFit, SpecShrinks, AfterGroups
<1>2. AddedIsNew
  BY DEF AddedIsNew, AddsNothing, AddClass
<1> QED
  BY <1>1, <1>2, LifeInvStep, SpecShrinksStep, DaemonFitsStep, StatusShrinkStep
  DEF ShrinkInv

LEMMA ShrinkInit == Init => ShrinkInv
<1> SUFFICES ASSUME Init PROVE ShrinkInv
  OBVIOUS
<1>1. SpecShrinks /\ DaemonFits /\ StatusOutlivesSpec
  BY DEF Init, ClusterInit, WorkerInit, SpecShrinks, DaemonFits, StatusOutlivesSpec,
     NoDaemonSet
<1> QED
  BY <1>1, LifeInit DEF ShrinkInv

\* If users only remove classes from the spec: the DaemonSet selects the nodes of
\* the classes that are left, and the statuses outlive their storage.
THEOREM ShrinkInvariant == AddsNothing => (Spec => []ShrinkInv)
<1> SUFFICES ASSUME AddsNothing PROVE Spec => []ShrinkInv
  OBVIOUS
<1>1. ShrinkInv /\ [Next]_vars => ShrinkInv'
  BY ShrinkStep
<1> QED
  BY <1>1, ShrinkInit, PTL DEF Spec

-----------------------------------------------------------------------------
(***************************************************************************)
(* The results.                                                            *)
(***************************************************************************)

\* A node with the volume group of a class of the spec keeps its vgmanager: the
\* DaemonSet is deleted only after the LVMVolumeGroups that processDelete has
\* waited for, no update of its affinity from a copy of the spec that is out of
\* date excludes the node, and it is never created anew around one. Users only
\* add or only remove classes: a class that is removed and added again while its
\* volume group is still there may find the DaemonSet gone from the node, or
\* deleted by a worker that read the spec in between.
THEOREM ManagersOutliveStorage ==
    DropsNothing \/ AddsNothing => (Spec => []ManagerOutlivesStorage)
<1>1. GrowInv => ManagerOutlivesStorage
  <2> SUFFICES ASSUME GrowInv, NEW v \in host, v[1] \in Present, v[2] \in cluster.classes,
                      ~cluster.foreground
               PROVE  ds.alive /\ v[1] \in ds.on
    BY DEF ManagerOutlivesStorage
  <2>1. ds.alive
    BY DaemonThere DEF GrowInv
  <2>2. cluster.alive
    BY ClassesNeedCluster DEF GrowInv
  <2> QED
    BY <2>1, <2>2 DEF GrowInv, OnFits
<1>2. ShrinkInv => ManagerOutlivesStorage
  <2> SUFFICES ASSUME ShrinkInv, NEW v \in host, v[1] \in Present, v[2] \in cluster.classes,
                      ~cluster.foreground
               PROVE  ds.alive /\ v[1] \in ds.on
    BY DEF ManagerOutlivesStorage
  <2>1. ds.alive
    BY DaemonThere DEF ShrinkInv
  <2> QED
    BY <2>1 DEF ShrinkInv, LifeInv, HostMatches, SpecShrinks
<1> QED
  BY <1>1, <1>2, GrowInvariant, ShrinkInvariant, PTL

\* The status of a node outlives its volume groups, so that its vgmanager can
\* still remove them: processDelete deletes the statuses after every
\* LVMVolumeGroup is gone, and node removal only those of nodes that left. Users
\* remove no class: the worker does not wait for one that is not in the spec.
THEOREM StatusesOutliveStorage == DropsNothing => (Spec => []StatusOutlivesStorage)
<1>1. GrowInv => StatusOutlivesStorage
  BY DEF GrowInv
<1> QED
  BY <1>1, GrowInvariant, PTL

\* ... and if users do remove classes, it outlives those of the classes that are
\* left in the spec.
THEOREM StatusesOutliveSpec ==
    DropsNothing \/ AddsNothing => (Spec => []StatusOutlivesSpec)
<1>1. GrowInv => StatusOutlivesSpec
  BY DEF GrowInv, StatusOutlivesStorage, StatusOutlivesSpec
<1>2. ShrinkInv => StatusOutlivesSpec
  BY DEF ShrinkInv
<1> QED
  BY <1>1, <1>2, GrowInvariant, ShrinkInvariant, PTL

\* What docs/architecture.md says of the hierarchy of finalizers, that storage is
\* never orphaned, is so as long as users remove no class from the spec: the
\* LVMCluster is gone only when no node of the cluster has a volume group.
THEOREM NeverOrphaned == DropsNothing => (Spec => []StorageNeverOrphaned)
<1>1. GrowInv => StorageNeverOrphaned
  <2> SUFFICES ASSUME GrowInv, ~cluster.alive, NEW v \in host, v[1] \in Present PROVE FALSE
    BY DEF StorageNeverOrphaned
  <2>1. v[2] \in Classes /\ vg[v[2]].alive
    BY HostHasGroup DEF GrowInv, LifeInv
  <2>2. v[2] \in cluster.classes
    BY <2>1 DEF GrowInv, SpecGrows
  <2> QED
    BY <2>2, ClassesNeedCluster DEF GrowInv
<1> QED
  BY <1>1, GrowInvariant, PTL

\* A deletion only takes away, whatever users do to the spec meanwhile: after the
\* reconcile that was under way, no object of the LVMCluster is created again and
\* no reconcile takes the create path. What processDelete has seen gone, in this
\* reconcile or an earlier one, stays gone.
THEOREM DeletionsOnlyRemove == Spec => DeletionOnlyRemoves
<1>1. ASSUME LifeInv, [Next]_vars PROVE OnlyRemoved
  <2> SUFFICES ASSUME cluster.deleting, pc # "ensure"
               PROVE  /\ cluster'.deleting \/ ~cluster'.alive
                      /\ pc' # "ensure"
                      /\ sc' \subseteq sc /\ extra' \subseteq extra
                      /\ ds'.alive => ds.alive /\ ds'.on \subseteq ds.on
                      /\ \A c \in Classes : vg'[c].alive => vg[c].alive
                      /\ \A n \in Nodes : ns'[n].alive => ns[n].alive
    BY DEF OnlyRemoved
  <2>0. Inv /\ LifeFits /\ cluster \in Clusters
    BY <1>1 DEF LifeInv, Inv, TypeOK, ClusterTypeOK
  <2>1. cluster'.deleting \/ ~cluster'.alive
    <3>1. CASE ClusterGoes
      BY <3>1 DEF ClusterGoes, NoCluster
    <3>2. CASE ClusterStays
      BY <2>0, <3>2 DEF ClusterStays
    <3> QED
      BY <1>1, <2>0, <3>1, <3>2, LifeStep
  <2>2. pc' # "ensure"
    <3>1. ~(AddFinalizer /\ cluster = inst)
      BY <2>0 DEF AddFinalizer, LifeFits
    <3>2. Reconcile => pc' = "nodes"
      BY DEF Reconcile
    <3>3. Proceeds => pc' # "ensure"
      BY DEF Proceeds, DeleteSteps
    <3> QED
      BY <1>1, <3>1, <3>2, <3>3, PcStep
  <2>3. sc' \subseteq sc /\ extra' \subseteq extra /\ (UNCHANGED ds \/ ds' = NoDaemonSet)
    BY <1>1, NothingNew
  <2>4. ds'.alive => ds.alive /\ ds'.on \subseteq ds.on
    BY <2>3 DEF NoDaemonSet
  <2>5. \A c \in Classes : vg'[c].alive => vg[c].alive
    BY <1>1, <2>0, GroupBorn DEF EnsureGroup, Ensures
  <2>6. \A n \in Nodes : ns'[n].alive => ns[n].alive
    BY <1>1, <2>0, StatusStep
  <2> QED
    BY <2>1, <2>2, <2>3, <2>4, <2>5, <2>6
<1>2. LifeInv /\ [Next]_vars => LifeInv'
  BY LifeInvStep
<1>3. LifeInv /\ [Next]_vars => [OnlyRemoved]_vars
  BY <1>1
<1>4. Spec => [][OnlyRemoved]_vars
  BY <1>2, <1>3, LifeInit, PTL DEF Spec
<1> QED
  BY <1>4 DEF DeletionOnlyRemoves

=============================================================================
