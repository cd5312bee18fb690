------------------------------- MODULE Cluster -------------------------------
(***************************************************************************)
(* The part of the Kubernetes cluster that the operator's controllers      *)
(* share: the LVMCluster, the LVMVolumeGroups, the node statuses, the      *)
(* StorageClasses, the vgmanager DaemonSet with its pods, the Nodes, the   *)
(* claims of users, and the volume groups on the hosts.                    *)
(*                                                                         *)
(* The actions of this module are those of everybody but the two           *)
(* controllers of the operator: users, the vgmanager of each node          *)
(* (abstracted to what module VGManager shows of it: it holds its          *)
(* finalizer before it creates a volume group and releases it after it     *)
(* removed it), TopoLVM, the DaemonSet controller and the garbage          *)
(* collector.                                                              *)
(***************************************************************************)
EXTENDS Integers, FiniteSets

CONSTANTS
  Nodes,       \* names of nodes that may be in the cluster
  Classes,     \* names of device classes
  NoSelector,  \* the classes without a nodeSelector: they match every node
  Matches,     \* [Classes -> SUBSET Nodes], the nodes the selector matches
  Default,     \* the classes marked as default
  Retain,      \* the classes with reclaim policy Retain
  Initial,     \* the classes of the LVMCluster when it is created
  Propagation, \* may users delete the LVMCluster in the foreground (TRUE), or not
  UserOps,     \* what users do: "delete", "drop", "add", "claim"
  FaultKinds,  \* "api", "crash", "leave", "join", "unready", "stale"
  MaxFaults    \* how many of them may happen

ASSUME ClusterAssumption ==
  /\ Nodes # {}
  /\ NoSelector \subseteq Classes
  /\ Matches \in [Classes -> SUBSET Nodes]
  /\ \A c \in NoSelector : Matches[c] = Nodes
  /\ Default \subseteq Classes
  /\ Retain \subseteq Classes
  /\ Initial \subseteq Classes /\ Initial # {}
  /\ Propagation \subseteq BOOLEAN
  /\ MaxFaults \in Nat

VARIABLES
  cluster,  \* the LVMCluster: [alive, deleting, foreground, fin, classes]
  vg,       \* per class the LVMVolumeGroup: [alive, deleting, fins]
  ns,       \* per node the LVMVolumeGroupNodeStatus: [alive, deleting]
  sc,       \* the classes whose StorageClass exists
  extra,    \* the other objects of the operator that exist
  ds,       \* the vgmanager DaemonSet: [alive, on]
  pods,     \* the nodes where a vgmanager pod runs
  nodes,    \* the Node objects
  unready,  \* the nodes with the not-ready taint
  left,     \* the nodes whose Node object has been deleted at some time
  host,     \* <<n, c>>: the volume group of class c exists on node n
  claims,   \* the classes that a PersistentVolumeClaim asks for
  vols,     \* <<n, c>>: a PersistentVolume of class c on node n
  freed,    \* the volumes whose LogicalVolume lost its finalizer
  faults    \* how many faults have happened

objects == <<cluster, vg, ns, sc, extra, ds>>
machines == <<pods, nodes, unready, left, host>>
storage == <<claims, vols, freed>>
clusterVars == <<objects, machines, storage, faults>>

Clusters == [alive : BOOLEAN, deleting : BOOLEAN, foreground : BOOLEAN,
             fin : BOOLEAN, classes : SUBSET Classes]
VolumeGroups == [alive : BOOLEAN, deleting : BOOLEAN, fins : SUBSET Nodes]
NodeStatuses == [alive : BOOLEAN, deleting : BOOLEAN]
DaemonSets == [alive : BOOLEAN, on : SUBSET Nodes]
Extras == {"policies", "csidriver", "monitor", "scc", "snapshots"}

NoCluster == [alive |-> FALSE, deleting |-> FALSE, foreground |-> FALSE,
              fin |-> FALSE, classes |-> {}]
NoVG == [alive |-> FALSE, deleting |-> FALSE, fins |-> {}]
NoStatus == [alive |-> FALSE, deleting |-> FALSE]
NoDaemonSet == [alive |-> FALSE, on |-> {}]

ClusterTypeOK ==
  /\ cluster \in Clusters
  /\ vg \in [Classes -> VolumeGroups]
  /\ ns \in [Nodes -> NodeStatuses]
  /\ sc \subseteq Classes
  /\ extra \subseteq Extras
  /\ ds \in DaemonSets
  /\ pods \subseteq Nodes /\ nodes \subseteq Nodes
  /\ unready \subseteq Nodes /\ left \subseteq Nodes
  /\ host \subseteq Nodes \X Classes
  /\ claims \subseteq Classes
  /\ vols \subseteq Nodes \X Classes
  /\ freed \subseteq vols
  /\ faults \in 0 .. MaxFaults

ClusterInit ==
  /\ cluster = [alive |-> TRUE, deleting |-> FALSE, foreground |-> FALSE,
                fin |-> FALSE, classes |-> Initial]
  /\ vg = [c \in Classes |-> NoVG]
  /\ ns = [n \in Nodes |-> NoStatus]
  /\ sc = {} /\ extra = {}
  /\ ds = NoDaemonSet
  /\ pods = {}
  /\ nodes \in IF "join" \in FaultKinds THEN SUBSET Nodes ELSE {Nodes}
  /\ unready = {} /\ left = {}
  /\ host = {}
  /\ claims = {} /\ vols = {} /\ freed = {}
  /\ faults = 0

Fault(kind) ==
  /\ kind \in FaultKinds
  /\ faults < MaxFaults
  /\ faults' = faults + 1

-----------------------------------------------------------------------------
(* The API server.                                                          *)

\* An object that is being deleted disappears with its last finalizer.
Settled(o) == IF o.deleting /\ o.fins = {} THEN NoVG ELSE o

\* Delete of an LVMVolumeGroup, and an Update that removes finalizers.
Deleted(o) == IF o.alive THEN Settled([o EXCEPT !.deleting = TRUE]) ELSE o
Stripped(o, fins) == Settled([o EXCEPT !.fins = @ \ fins])

\* The nodes that a spec with these classes selects, before taints.
Selected(classes) ==
  IF classes \cap NoSelector # {} THEN Nodes
  ELSE UNION {Matches[c] : c \in classes}

\* selector.ValidNodes: the nodes, and whether it also returns an error. A
\* not-ready node is left out and reported, whether or not it is selected.
ValidNodes(classes) == (nodes \ unready) \cap Selected(classes)
ValidNodesFails == nodes \cap unready # {}

\* The CSINode of a node lists the driver once the pod has found a class in
\* lvmd.yaml and started the CSI servers.
Registered(n) == n \in pods /\ \E c \in Classes : <<n, c>> \in host

-----------------------------------------------------------------------------
(* Users, and the webhook that admits what they do.                         *)

DeleteCluster ==
  /\ "delete" \in UserOps
  /\ cluster.alive /\ ~cluster.deleting
  /\ \E fg \in Propagation :
       cluster' = IF cluster.fin
                  THEN [cluster EXCEPT !.deleting = TRUE, !.foreground = fg]
                  ELSE NoCluster
  /\ UNCHANGED <<vg, ns, sc, extra, ds, machines, storage, faults>>

\* validateDeviceClassRemoval: neither the last nor the default class.
RemovalAdmitted(c) == c \notin Default /\ cluster.classes # {c}

DropClass(c) ==
  /\ "drop" \in UserOps
  /\ cluster.alive /\ c \in cluster.classes
  /\ RemovalAdmitted(c)
  /\ cluster' = [cluster EXCEPT !.classes = @ \ {c}]
  /\ UNCHANGED <<vg, ns, sc, extra, ds, machines, storage, faults>>

AddClass(c) ==
  /\ "add" \in UserOps
  /\ cluster.alive /\ c \notin cluster.classes
  /\ cluster' = [cluster EXCEPT !.classes = @ \cup {c}]
  /\ UNCHANGED <<vg, ns, sc, extra, ds, machines, storage, faults>>

Claim(c) ==
  /\ "claim" \in UserOps
  /\ c \in sc \ claims
  /\ claims' = claims \cup {c}
  /\ UNCHANGED <<objects, machines, vols, freed, faults>>

Unclaim(c) ==
  /\ c \in claims
  /\ claims' = claims \ {c}
  /\ UNCHANGED <<objects, machines, vols, freed, faults>>

\* A retained volume is removed by hand, with its LogicalVolume.
DeleteRetained(n, c) ==
  /\ <<n, c>> \in vols /\ c \in Retain \ claims
  /\ vols' = vols \ {<<n, c>>}
  /\ freed' = freed \ {<<n, c>>}
  /\ UNCHANGED <<objects, machines, claims, faults>>

-----------------------------------------------------------------------------
(* Nodes, the DaemonSet controller, TopoLVM and the garbage collector.      *)

Leave(n) ==
  /\ n \in nodes
  /\ Fault("leave")
  /\ nodes' = nodes \ {n}
  /\ left' = left \cup {n}
  /\ unready' = unready \ {n}
  /\ UNCHANGED <<objects, pods, host, storage>>

Join(n) ==
  /\ n \in Nodes \ nodes
  /\ Fault("join")
  /\ nodes' = nodes \cup {n}
  /\ UNCHANGED <<objects, pods, unready, left, host, storage>>

BecomeUnready(n) ==
  /\ n \in nodes \ unready
  /\ Fault("unready")
  /\ unready' = unready \cup {n}
  /\ UNCHANGED <<objects, pods, nodes, left, host, storage>>

BecomeReady(n) ==
  /\ n \in unready
  /\ unready' = unready \ {n}
  /\ UNCHANGED <<objects, pods, nodes, left, host, storage, faults>>

StartPod(n) ==
  /\ ds.alive /\ n \in (nodes \cap ds.on) \ pods
  /\ pods' = pods \cup {n}
  /\ UNCHANGED <<objects, nodes, unready, left, host, storage, faults>>

StopPod(n) ==
  /\ n \in pods
  /\ ~ds.alive \/ n \notin nodes \/ n \notin ds.on
  /\ pods' = pods \ {n}
  /\ UNCHANGED <<objects, nodes, unready, left, host, storage, faults>>

Provision(n, c) ==
  /\ c \in claims /\ \A m \in Nodes : <<m, c>> \notin vols
  /\ n \in pods /\ <<n, c>> \in host
  /\ vols' = vols \cup {<<n, c>>}
  /\ UNCHANGED <<objects, machines, claims, freed, faults>>

\* The provisioner deletes a released volume: topolvm-node removes the
\* LogicalVolume, or the finalizer that it would remove is gone already.
Reclaim(n, c) ==
  /\ <<n, c>> \in vols /\ c \notin claims \cup Retain
  /\ n \in pods \/ <<n, c>> \in freed
  /\ vols' = vols \ {<<n, c>>}
  /\ freed' = freed \ {<<n, c>>}
  /\ UNCHANGED <<objects, machines, claims, faults>>

\* The owner of LVMVolumeGroups, node statuses and the DaemonSet is gone, or
\* is being deleted with foreground propagation.
OwnerGone == ~cluster.alive \/ cluster.foreground

CollectVG(c) ==
  /\ OwnerGone
  /\ vg[c].alive /\ ~vg[c].deleting
  /\ vg' = [vg EXCEPT ![c] = Deleted(@)]
  /\ UNCHANGED <<cluster, ns, sc, extra, ds, machines, storage, faults>>

CollectStatus(n) ==
  /\ OwnerGone
  /\ ns[n].alive /\ ~ns[n].deleting
  /\ ns' = [ns EXCEPT ![n].deleting = TRUE]
  /\ UNCHANGED <<cluster, vg, sc, extra, ds, machines, storage, faults>>

CollectDaemonSet ==
  /\ OwnerGone
  /\ ds.alive
  /\ ds' = NoDaemonSet
  /\ UNCHANGED <<cluster, vg, ns, sc, extra, machines, storage, faults>>

-----------------------------------------------------------------------------
(* The vgmanager of node n: Reconcile of the LVMVolumeGroup of class c.     *)

Reconciles(n, c) ==
  /\ n \in pods /\ n \in nodes
  /\ vg[c].alive /\ n \in Matches[c]
  /\ ns[n].alive

Hold(n, c) ==
  /\ Reconciles(n, c) /\ ~vg[c].deleting
  /\ n \notin vg[c].fins
  /\ vg' = [vg EXCEPT ![c].fins = @ \cup {n}]
  /\ UNCHANGED <<cluster, ns, sc, extra, ds, machines, storage, faults>>

\* A vgmanager whose cache is out of date builds during the deletion as well.
Build(n, c) ==
  /\ Reconciles(n, c)
  /\ IF vg[c].deleting THEN Fault("stale") ELSE UNCHANGED faults
  /\ n \in vg[c].fins /\ <<n, c>> \notin host
  /\ host' = host \cup {<<n, c>>}
  /\ UNCHANGED <<objects, pods, nodes, unready, left, storage>>

\* processDelete removes the volume group unless it has logical volumes.
Tear(n, c) ==
  /\ Reconciles(n, c) /\ vg[c].deleting
  /\ <<n, c>> \in host \ vols
  /\ host' = host \ {<<n, c>>}
  /\ UNCHANGED <<objects, pods, nodes, unready, left, storage, faults>>

Release(n, c) ==
  /\ Reconciles(n, c) /\ vg[c].deleting
  /\ n \in vg[c].fins /\ <<n, c>> \notin host
  /\ vg' = [vg EXCEPT ![c] = Stripped(@, {n})]
  /\ UNCHANGED <<cluster, ns, sc, extra, ds, machines, storage, faults>>

-----------------------------------------------------------------------------
Users ==
  \/ DeleteCluster
  \/ \E c \in Classes : DropClass(c) \/ AddClass(c) \/ Claim(c) \/ Unclaim(c)
  \/ \E n \in Nodes, c \in Classes : DeleteRetained(n, c)

VGManagers ==
  \E n \in Nodes, c \in Classes :
    Hold(n, c) \/ Build(n, c) \/ Tear(n, c) \/ Release(n, c)

Platform ==
  \/ \E n \in Nodes : \/ Leave(n) \/ Join(n) \/ BecomeUnready(n)
                      \/ BecomeReady(n) \/ StartPod(n) \/ StopPod(n)
                      \/ CollectStatus(n)
  \/ \E c \in Classes : CollectVG(c)
  \/ CollectDaemonSet
  \/ \E n \in Nodes, c \in Classes : Provision(n, c) \/ Reclaim(n, c)

Surroundings == Users \/ VGManagers \/ Platform

\* The vgmanagers, kubelets and the cluster's own controllers keep working, each
\* as a whole; a not-ready node recovers. Nothing is assumed of users.
SurroundingsFair ==
  /\ \A n \in Nodes, c \in Classes :
       /\ WF_clusterVars(Hold(n, c) \/ Build(n, c) \/ Tear(n, c) \/ Release(n, c))
       /\ WF_clusterVars(Reclaim(n, c))
  /\ \A n \in Nodes :
       /\ WF_clusterVars(StartPod(n) \/ StopPod(n))
       /\ WF_clusterVars(BecomeReady(n))
  /\ WF_clusterVars(\/ \E n \in Nodes : CollectStatus(n)
                    \/ \E c \in Classes : CollectVG(c)
                    \/ CollectDaemonSet)
=============================================================================
