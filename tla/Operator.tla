------------------------------- MODULE Operator -------------------------------
(***************************************************************************)
(* The operator process, with the LVMCluster controller and the node       *)
(* removal controller as two concurrent workers, in its cluster.           *)
(***************************************************************************)
EXTENDS LVMCluster, NodeRemoval

vars == <<clusterVars, workerVars, removalVars>>

Init == ClusterInit /\ WorkerInit /\ RemovalInit

\* The operator process dies and is started again: both workers are idle, and
\* the informers deliver every object that exists.
Crash ==
  /\ pc # "idle" \/ remPc # "idle"
  /\ Fault("crash")
  /\ Rest /\ RemovalRest
  /\ UNCHANGED <<objects, machines, storage>>

Next ==
  \/ WorkerNext /\ UNCHANGED removalVars
  \/ RemovalNext /\ UNCHANGED workerVars
  \/ Surroundings /\ UNCHANGED <<workerVars, removalVars>>
  \/ Crash

Spec == Init /\ [][Next]_vars
FairSpec == Spec /\ WorkerFair /\ RemovalFair /\ SurroundingsFair

TypeOK == ClusterTypeOK /\ WorkerTypeOK /\ RemovalTypeOK

-----------------------------------------------------------------------------
\* The nodes that have been in the cluster without interruption: what is on
\* the others is given up when their Node object is deleted.
Present == nodes \ left

\* A volume group on a node of the cluster is guarded by the finalizer of that
\* node on its LVMVolumeGroup, whatever the stale finalizer cleanup of the
\* LVMCluster controller (checkStaleNodeFinalizers) and the cleanup of the node
\* removal controller (cleanupVolumeGroupsForNode) take away.
HostGuarded ==
  \A v \in host : v[1] \in Present => v[1] \in vg[v[2]].fins

\* A node with the volume group of a class of the spec keeps its vgmanager:
\* processDelete deletes the DaemonSet only after every LVMVolumeGroup is gone,
\* and no update of its affinity excludes the node. Otherwise nobody could
\* remove the volume group and release the finalizer. Foreground propagation is
\* excepted: the garbage collector deletes the DaemonSet at once. A class that
\* users remove and add again is another case, see OperatorStorage_proofs.
ManagerOutlivesStorage ==
  \A v \in host :
    v[1] \in Present /\ v[2] \in cluster.classes /\ ~cluster.foreground
      => ds.alive /\ v[1] \in ds.on

\* Its node status exists as long: vgmanager refuses to reconcile without one.
\* That includes classes outside of the spec, as long as users remove none.
StatusOutlivesStorage ==
  \A v \in host : v[1] \in Present => ns[v[1]].alive

\* The LVMCluster goes away only when what the spec asked for is gone: the
\* volume groups on the nodes, the LVMVolumeGroups, the StorageClasses, the
\* DaemonSet and its pods, and the objects without an owner except for the
\* SecurityContextConstraints, which EnsureDeleted looks up under a wrong name
\* (processDelete releases the finalizer last, with an Update that conflicts if
\* the spec changed in between).
ReleasedIsClean ==
  cluster.fin /\ ~cluster'.alive =>
    /\ \A v \in host : v[1] \in Present => v[2] \notin cluster.classes
    /\ sc \cap cluster.classes = {}
    /\ ~ds.alive /\ pods = {}
    /\ \A c \in cluster.classes : ~vg[c].alive
    /\ extra \subseteq {"scc"}
ReleaseClean == [][ReleasedIsClean]_vars

\* A deletion only takes away: once the reconcile that had read the LVMCluster
\* before is through, no object comes back until the LVMCluster is gone, whatever
\* users add to the spec, and no later reconcile begins to create (Reconcile
\* takes the deletion path). What a gate has found gone therefore stays gone.
OnlyRemoved ==
  cluster.deleting /\ pc # "ensure" =>
    /\ cluster'.deleting \/ ~cluster'.alive
    /\ pc' # "ensure"
    /\ sc' \subseteq sc /\ extra' \subseteq extra
    /\ ds'.alive => ds.alive /\ ds'.on \subseteq ds.on
    /\ \A c \in Classes : vg'[c].alive => vg[c].alive
    /\ \A n \in Nodes : ns'[n].alive => ns[n].alive
DeletionOnlyRemoves == [][OnlyRemoved]_vars

-----------------------------------------------------------------------------
\* The storage of node n, in the terms of what its vgmanager promises.
VGPhase(o) == IF ~o.alive THEN "none" ELSE IF o.deleting THEN "deleting" ELSE "live"

StorageOf(n) == INSTANCE NodeStorage WITH
  object <- [c \in Classes |-> VGPhase(vg[c])],
  held   <- {c \in Classes : n \in vg[c].fins},
  built  <- {c \in Classes : <<n, c>> \in host},
  used   <- {c \in Classes : <<n, c>> \in vols}

\* The controllers keep out of what a vgmanager promises: as long as a node stays
\* in the cluster nobody else takes its finalizer away, and its LVMVolumeGroups
\* come and go only as NodeStorage, which VGManager implements, allows.
StoragePromiseKept ==
  [][\/ UNCHANGED <<vg, host, vols>>
     \/ \A n \in Present : UNCHANGED StorageOf(n)!vars \/ StorageOf(n)!Next]_vars

-----------------------------------------------------------------------------
\* What the gates of Reconcile wait for.
InUse == claims # {} \/ \E v \in vols : v[2] \in Retain

\* A deletion completes unless users keep claims or retained volumes: no node
\* that left, no crash, conflict or failed request leaves it stuck. Two cases
\* are excepted, where nobody is left to release a finalizer. Foreground
\* propagation takes the vgmanagers away. The vgmanager of a node that comes
\* back refuses to work if node removal has deleted its status meanwhile: no
\* reconcile creates it again during a deletion.
DeletionCompletes ==
  []<>(\/ ~cluster.deleting \/ InUse
       \/ cluster.foreground \/ nodes \cap left # {})

\* The status of a node that left goes away, also when reconcile creates it
\* again from a list of nodes that is out of date: the node removal controller
\* gets there although its first Update always conflicts with its own Delete.
StatusesFollowNodes == \A n \in Nodes : []<>(ns[n].alive => n \in nodes)

\* A class that was taken out of the spec goes away, the LVMVolumeGroup and the
\* volume groups on the nodes, unless users keep its volumes
\* (checkForDeletedDeviceClasses), also when a reconcile that read the old spec
\* creates the LVMVolumeGroup again.
RemovedClassGone ==
  \A c \in Classes :
    []<>(\/ c \in cluster.classes \/ cluster.deleting \/ ~cluster.alive
         \/ \E n \in Nodes : <<n, c>> \in vols
         \/ ~vg[c].alive /\ \A n \in Present : <<n, c>> \notin host)

\* Once users leave the spec alone, every class in it gets its volume group on
\* every node it matches and keeps it, also when it was added later
\* (EnsureCreated of the DaemonSet follows the selectors).
ClassServed ==
  \A classes \in SUBSET Classes :
    <>[](cluster.classes = classes /\ ~cluster.deleting)
      => <>[](\A c \in classes, n \in Nodes :
                n \in nodes \cap Matches[c] => <<n, c>> \in host)

-----------------------------------------------------------------------------
\* docs/architecture.md on the hierarchy of finalizers: "storage is never
\* orphaned: the cluster-level resource cannot be deleted until every node has
\* completed its local cleanup". The code does not keep it: processDelete waits
\* for the LVMVolumeGroups of the classes that are still in the spec.
StorageNeverOrphaned ==
  ~cluster.alive => \A v \in host : v[1] \notin Present
=============================================================================
