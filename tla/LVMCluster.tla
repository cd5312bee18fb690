------------------------------ MODULE LVMCluster ------------------------------
(***************************************************************************)
(* The LVMCluster controller (internal/controllers/lvmcluster): reconcile  *)
(* creates the objects of the operator concurrently and deletes what       *)
(* belongs to device classes that left the spec; the deletion path frees   *)
(* the finalizers of nodes that are gone, waits for claims and retained    *)
(* volumes, deletes the objects in order and releases the LVMCluster.      *)
(* One action per API request that reads or changes shared state; pc names *)
(* the request the worker makes next. A request reads the current state,   *)
(* the copies inst, known and seen grow stale afterwards.                  *)
(***************************************************************************)
EXTENDS Cluster

VARIABLES
  pc,      \* the next request of the worker
  inst,    \* the LVMCluster as it was read
  known,   \* the node names as they were listed
  seen,    \* the LVMVolumeGroups as they were listed
  todo,    \* what is left to do at this step
  failed   \* a resource unit returned an error

workerVars == <<pc, inst, known, seen, todo, failed>>

CreateSteps == {"finalizer", "ensure", "drop"}
DeleteSteps == {"nodes", "stale", "strip", "volumes", "claims", "retain",
                "groups", "daemon", "statuses", "classes", "csinode", "release"}

\* The parts of EnsureCreated that are separate requests, <<unit, item>>.
Items == {<<"group", c>> : c \in Classes} \cup {<<"class", c>> : c \in Classes}
           \cup {<<"status", n>> : n \in Nodes}
           \cup {<<u, "all">> : u \in {"daemon", "nodes", "csinode", "rest"}}

WorkerTypeOK ==
  /\ pc \in {"idle"} \cup CreateSteps \cup DeleteSteps
  /\ inst \in Clusters
  /\ known \subseteq Nodes
  /\ seen \in [Classes -> VolumeGroups]
  /\ todo \subseteq Items
  /\ failed \in BOOLEAN

WorkerInit ==
  /\ pc = "idle"
  /\ inst = NoCluster
  /\ known = {}
  /\ seen = [c \in Classes |-> NoVG]
  /\ todo = {}
  /\ failed = FALSE

\* The reconcile ends, with or without an error: it is queued again after an
\* error, after ten seconds or a minute, and when a watched object changes.
Rest ==
  /\ pc' = "idle"
  /\ inst' = NoCluster
  /\ known' = {}
  /\ seen' = [c \in Classes |-> NoVG]
  /\ todo' = {}
  /\ failed' = FALSE

Goto(step) ==
  /\ pc' = step
  /\ UNCHANGED <<inst, known, seen, todo, failed>>

\* The units that reconcile starts, each in a goroutine of its own.
Units(classes) ==
  {<<"group", c>> : c \in classes} \cup {<<"class", c>> : c \in classes}
    \cup {<<u, "all">> : u \in {"daemon", "nodes", "csinode", "rest"}}

\* Variant with a bug: a deletion that has to wait for claims is reconciled as usual.
ReconcileWhileClaimed ==
  /\ pc = "idle" /\ cluster.alive
  /\ inst' = cluster
  /\ IF cluster.deleting /\ claims \cap cluster.classes = {}
     THEN pc' = "nodes" /\ UNCHANGED todo
     ELSE IF cluster.fin THEN pc' = "ensure" /\ todo' = Units(cluster.classes)
     ELSE pc' = "finalizer" /\ UNCHANGED todo
  /\ UNCHANGED <<clusterVars, known, seen, failed>>

Reconcile ==
  /\ pc = "idle" /\ cluster.alive
  /\ inst' = cluster
  /\ IF cluster.deleting THEN pc' = "nodes" /\ UNCHANGED todo
     ELSE IF cluster.fin THEN pc' = "ensure" /\ todo' = Units(cluster.classes)
     ELSE pc' = "finalizer" /\ UNCHANGED todo
  /\ UNCHANGED <<clusterVars, known, seen, failed>>

-----------------------------------------------------------------------------
(* reconcile                                                                *)

\* An Update of the LVMCluster conflicts when it is not the one in hand.
AddFinalizer ==
  /\ pc = "finalizer"
  /\ IF cluster = inst
     THEN /\ cluster' = [cluster EXCEPT !.fin = TRUE]
          /\ inst' = cluster'
          /\ pc' = "ensure" /\ todo' = Units(inst.classes)
          /\ UNCHANGED <<known, seen, failed>>
     ELSE Rest /\ UNCHANGED cluster
  /\ UNCHANGED <<vg, ns, sc, extra, ds, machines, storage, faults>>

\* A request of a unit is done; an error ends the unit, not the others.
ItemDone(item, more) ==
  /\ todo' = (todo \ {item}) \cup more
  /\ UNCHANGED <<pc, inst, known, seen, failed>>

UnitFails(item) ==
  /\ todo' = {i \in todo : i[1] # item[1]}
  /\ failed' = TRUE
  /\ UNCHANGED <<pc, inst, known, seen>>

Ensures(item) == pc = "ensure" /\ item \in todo

\* CreateOrUpdate of an LVMVolumeGroup; one that is being deleted stays so.
EnsureGroup(c) ==
  /\ Ensures(<<"group", c>>)
  /\ vg' = [vg EXCEPT ![c].alive = TRUE]
  /\ ItemDone(<<"group", c>>, {})
  /\ UNCHANGED <<cluster, ns, sc, extra, ds, machines, storage, faults>>

EnsureStorageClass(c) ==
  /\ Ensures(<<"class", c>>)
  /\ sc' = sc \cup {c}
  /\ ItemDone(<<"class", c>>, {})
  /\ UNCHANGED <<cluster, vg, ns, extra, ds, machines, storage, faults>>

\* Variant with a bug: a spec without a node selector selects no node.
EnsuredDaemonSetNone(classes) ==
  [alive |-> TRUE, on |-> UNION {Matches[c] : c \in classes \ NoSelector}]

\* The DaemonSet after CreateOrUpdate: without a node selector in the template
\* the affinity of an existing DaemonSet is left as it is.
EnsuredDaemonSet(classes) ==
  IF ds.alive /\ classes \cap NoSelector # {} THEN ds
  ELSE [alive |-> TRUE, on |-> Selected(classes)]

\* VerifyDaemonSetReadiness reads a status that lags behind the spec, because
\* the observed generation is not compared: it may pass too early, and fails
\* only while pods are missing or left over.
EnsureDaemonSet ==
  /\ Ensures(<<"daemon", "all">>)
  /\ ds' = EnsuredDaemonSet(inst.classes)
  /\ \/ ItemDone(<<"daemon", "all">>, {})
     \/ /\ ds.alive /\ pods # nodes \cap ds'.on
        /\ UnitFails(<<"daemon", "all">>)
  /\ UNCHANGED <<cluster, vg, ns, sc, extra, machines, storage, faults>>

\* The node status unit lists the nodes; the error about nodes that are not
\* ready is returned after the statuses of the others were created.
ListValidNodes ==
  /\ Ensures(<<"nodes", "all">>)
  /\ todo' = (todo \ {<<"nodes", "all">>})
               \cup {<<"status", n>> : n \in ValidNodes(inst.classes)}
  /\ failed' = (failed \/ ValidNodesFails)
  /\ UNCHANGED <<clusterVars, pc, inst, known, seen>>

EnsureStatus(n) ==
  /\ Ensures(<<"status", n>>)
  /\ ns' = [ns EXCEPT ![n].alive = TRUE]
  /\ ItemDone(<<"status", n>>, {})
  /\ UNCHANGED <<cluster, vg, sc, extra, ds, machines, storage, faults>>

\* The kubelet must have registered the CSI driver on every valid node.
CSINodesReady(classes) ==
  ~ValidNodesFails /\ \A n \in ValidNodes(classes) : Registered(n)

EnsureCSINode ==
  /\ Ensures(<<"csinode", "all">>)
  /\ IF CSINodesReady(inst.classes) THEN ItemDone(<<"csinode", "all">>, {})
     ELSE UnitFails(<<"csinode", "all">>)
  /\ UNCHANGED clusterVars

\* EnsureCreated of the other units, each on the set of the objects that exist.
\* Nothing in the model reacts to them.
CreatePolicies(e) == e \cup {"policies"}
CreateCSIDriver(e) == e \cup {"csidriver"}
CreateServiceMonitor(e) == e \cup {"monitor"}
CreateSCCs(e) == e \cup {"scc"}
CreateSnapshotClasses(e) == e \cup {"snapshots"}

EnsureRest ==
  /\ Ensures(<<"rest", "all">>)
  /\ extra' = CreateSnapshotClasses(CreateSCCs(CreateServiceMonitor(
                CreateCSIDriver(CreatePolicies(extra)))))
  /\ ItemDone(<<"rest", "all">>, {})
  /\ UNCHANGED <<cluster, vg, ns, sc, ds, machines, storage, faults>>

ItemFails(item) ==
  /\ Ensures(item)
  /\ Fault("api")
  /\ UnitFails(item)
  /\ UNCHANGED <<objects, machines, storage>>

\* Variant with a bug: the answer of a unit that failed is awaited forever.
UnitsDoneAllAnswer ==
  /\ pc = "ensure" /\ todo = {} /\ ~failed
  /\ LET old == {c \in Classes : vg[c].alive /\ c \notin inst.classes} IN
     IF old = {} THEN Rest
     ELSE /\ pc' = "drop" /\ seen' = vg
          /\ todo' = {<<"class", c>> : c \in old}
          /\ UNCHANGED <<inst, known, failed>>
  /\ UNCHANGED clusterVars

\* All units have answered. After an error only the status is updated;
\* otherwise checkForDeletedDeviceClasses lists the LVMVolumeGroups. All of
\* them are controlled by this LVMCluster.
UnitsDone ==
  /\ pc = "ensure" /\ todo = {}
  /\ LET old == {c \in Classes : vg[c].alive /\ c \notin inst.classes} IN
     IF failed \/ old = {} THEN Rest
     ELSE /\ pc' = "drop" /\ seen' = vg
          /\ todo' = {<<"class", c>> : c \in old}
          /\ UNCHANGED <<inst, known, failed>>
  /\ UNCHANGED clusterVars

\* ... and deletes the StorageClass of a class that is no longer wanted,
DropStorageClass(c) ==
  /\ pc = "drop" /\ <<"class", c>> \in todo
  /\ \A d \in Classes : <<"group", d>> \notin todo
  /\ sc' = sc \ {c}
  /\ IF seen[c].deleting /\ todo = {<<"class", c>>} THEN Rest
     ELSE ItemDone(<<"class", c>>, IF seen[c].deleting THEN {} ELSE {<<"group", c>>})
  /\ UNCHANGED <<cluster, vg, ns, extra, ds, machines, storage, faults>>

\* then its LVMVolumeGroup. One that is gone by now is an error.
DropGroup(c) ==
  /\ pc = "drop" /\ <<"group", c>> \in todo
  /\ vg' = [vg EXCEPT ![c] = Deleted(@)]
  /\ IF todo = {<<"group", c>>} \/ ~vg[c].alive THEN Rest
     ELSE ItemDone(<<"group", c>>, {})
  /\ UNCHANGED <<cluster, ns, sc, extra, ds, machines, storage, faults>>

-----------------------------------------------------------------------------
(* The deletion path                                                        *)

\* Variant with a bug: no node is listed.
ListNodesEmpty ==
  /\ pc = "nodes"
  /\ known' = {}
  /\ pc' = "stale"
  /\ UNCHANGED <<clusterVars, inst, seen, todo, failed>>

\* clusterNodes
ListNodes ==
  /\ pc = "nodes"
  /\ known' = nodes
  /\ pc' = "stale"
  /\ UNCHANGED <<clusterVars, inst, seen, todo, failed>>

\* checkStaleNodeFinalizers: the LVMVolumeGroups are listed,
ListGroups ==
  /\ pc = "stale"
  /\ LET stale == {c \in Classes : vg[c].fins \ known # {}} IN
     IF stale = {} THEN Goto("volumes")
     ELSE /\ pc' = "strip" /\ seen' = vg
          /\ todo' = {<<"group", c>> : c \in stale}
          /\ UNCHANGED <<inst, known, failed>>
  /\ UNCHANGED clusterVars

\* What one pass over the finalizers of an object removes. The loop ranges
\* over the slice that RemoveFinalizer shifts, so it may skip elements when
\* there are more than two.
StalePicks(fins, listed) ==
  LET stale == fins \ listed IN
  IF Cardinality(fins) <= 2 THEN {stale} ELSE (SUBSET stale) \ {{}}

\* and the finalizers of nodes that were not listed are removed.
StripGroup(c) ==
  /\ pc = "strip" /\ <<"group", c>> \in todo
  /\ \/ /\ vg[c] = seen[c]
        /\ \E fins \in StalePicks(seen[c].fins, known) :
             vg' = [vg EXCEPT ![c] = Stripped(@, fins)]
        /\ todo' = todo \ {<<"group", c>>}
        /\ pc' = IF todo' = {} THEN "volumes" ELSE "strip"
        /\ UNCHANGED <<inst, known, seen, failed>>
     \/ vg[c] # seen[c] /\ Rest /\ UNCHANGED vg
  /\ UNCHANGED <<cluster, ns, sc, extra, ds, machines, storage, faults>>

\* Variant with a bug: marks what the list does not contain.
FreeVolumesUnlisted ==
  /\ pc = "volumes"
  /\ freed' = freed \cup ((Nodes \ known) \X Classes)
  /\ Goto("claims")
  /\ UNCHANGED <<objects, machines, claims, vols, faults>>

\* logicalVolumesExist removes the finalizers of LogicalVolumes on nodes that
\* were not listed, up to the first LogicalVolume on one that was.
FreeVolumes ==
  /\ pc = "volumes"
  /\ LET stale == {v \in vols : v[1] \notin known} IN
     \E some \in IF stale = vols THEN {stale} ELSE SUBSET stale :
       freed' = freed \cup some
  /\ Goto("claims")
  /\ UNCHANGED <<objects, machines, claims, vols, faults>>

\* Gate 1 and gate 2 look at the classes of the spec.
CheckClaims ==
  /\ pc = "claims"
  /\ IF claims \cap inst.classes # {} THEN Rest ELSE Goto("retain")
  /\ UNCHANGED clusterVars

CheckRetained ==
  /\ pc = "retain"
  /\ IF \E v \in vols : v[2] \in inst.classes \cap Retain THEN Rest ELSE Goto("groups")
  /\ UNCHANGED clusterVars

\* Variant with a bug: goes on without waiting for the LVMVolumeGroups.
DeleteGroupsNoWait ==
  /\ pc = "groups"
  /\ vg' = [c \in Classes |-> IF c \in inst.classes THEN Deleted(vg[c]) ELSE vg[c]]
  /\ Goto("daemon")
  /\ UNCHANGED <<cluster, ns, sc, extra, ds, machines, storage, faults>>

\* Variant with a bug: an LVMVolumeGroup that is not found is an error as well.
DeleteGroupsUnfound ==
  /\ pc = "groups"
  /\ vg' = [c \in Classes |-> IF c \in inst.classes THEN Deleted(vg[c]) ELSE vg[c]]
  /\ Rest
  /\ UNCHANGED <<cluster, ns, sc, extra, ds, machines, storage, faults>>

\* processDelete: the LVMVolumeGroups of the spec are deleted and must be gone.
DeleteGroups ==
  /\ pc = "groups"
  /\ vg' = [c \in Classes |-> IF c \in inst.classes THEN Deleted(vg[c]) ELSE vg[c]]
  /\ IF \E c \in inst.classes : vg[c].alive THEN Rest ELSE Goto("daemon")
  /\ UNCHANGED <<cluster, ns, sc, extra, ds, machines, storage, faults>>

\* Variant with a bug: goes on while pods run.
DeleteDaemonSetNoWait ==
  /\ pc = "daemon"
  /\ ds' = NoDaemonSet
  /\ Goto("statuses")
  /\ UNCHANGED <<cluster, vg, ns, sc, extra, machines, storage, faults>>

\* The DaemonSet is deleted, and no pod may be left.
DeleteDaemonSet ==
  /\ pc = "daemon"
  /\ ds' = NoDaemonSet
  /\ IF pods # {} THEN Rest ELSE Goto("statuses")
  /\ UNCHANGED <<cluster, vg, ns, sc, extra, machines, storage, faults>>

\* The statuses of valid nodes are deleted. The first one that is not being
\* deleted yet ends the loop: its version is outdated by the Delete, and the
\* Update that removes the finalizer conflicts.
DeleteStatuses ==
  /\ pc = "statuses"
  /\ LET valid == {n \in ValidNodes(inst.classes) : ns[n].alive}
         fresh == {n \in valid : ~ns[n].deleting} IN
     \/ /\ fresh = {}
        /\ ns' = [n \in Nodes |-> IF n \in valid THEN NoStatus ELSE ns[n]]
        /\ IF ValidNodesFails THEN Rest ELSE Goto("classes")
     \/ \E first \in fresh, gone \in SUBSET (valid \ fresh) :
          /\ ns' = [n \in Nodes |->
                      IF n \in gone THEN NoStatus
                      ELSE IF n = first THEN [ns[n] EXCEPT !.deleting = TRUE]
                      ELSE ns[n]]
          /\ Rest
  /\ UNCHANGED <<cluster, vg, sc, extra, ds, machines, storage, faults>>

\* EnsureDeleted of the other units. The SecurityContextConstraints are looked
\* up under scName, the name of the StorageClass unit, and never found.
DeleteCSIDriver(e) == e \ {"csidriver"}
DeleteServiceMonitor(e) == e \ {"monitor"}
DeletePolicies(e) == e \ {"policies"}
DeleteSCCs(e) == e \ {"topolvm-storageclass"}
DeleteSnapshotClasses(e) == e \ {"snapshots"}

\* The StorageClasses of the spec, then the CSIDriver.
DeleteStorageClasses ==
  /\ pc = "classes"
  /\ sc' = sc \ inst.classes
  /\ extra' = DeleteCSIDriver(extra)
  /\ Goto("csinode")
  /\ UNCHANGED <<cluster, vg, ns, ds, machines, storage, faults>>

\* No valid node may have the driver registered. The rest follows.
CheckCSINodes ==
  /\ pc = "csinode"
  /\ IF ValidNodesFails \/ \E n \in ValidNodes(inst.classes) : Registered(n)
     THEN Rest /\ UNCHANGED extra
     ELSE /\ extra' = DeleteSnapshotClasses(DeleteSCCs(DeletePolicies(
                        DeleteServiceMonitor(extra))))
          /\ Goto("release")
  /\ UNCHANGED <<cluster, vg, ns, sc, ds, machines, storage, faults>>

\* The finalizer is removed last; the Update conflicts if the spec changed.
ReleaseCluster ==
  /\ pc = "release"
  /\ cluster' = IF cluster = inst THEN NoCluster ELSE cluster
  /\ Rest
  /\ UNCHANGED <<vg, ns, sc, extra, ds, machines, storage, faults>>

-----------------------------------------------------------------------------
\* A request outside of the units fails.
RequestFails ==
  /\ pc \notin {"idle", "ensure"}
  /\ Fault("api")
  /\ Rest
  /\ UNCHANGED <<objects, machines, storage>>

CreatePath ==
  \/ AddFinalizer \/ EnsureDaemonSet \/ ListValidNodes \/ EnsureCSINode
  \/ EnsureRest \/ UnitsDone
  \/ \E c \in Classes : \/ EnsureGroup(c) \/ EnsureStorageClass(c)
                        \/ DropStorageClass(c) \/ DropGroup(c)
  \/ \E n \in Nodes : EnsureStatus(n)

DeletePath ==
  \/ ListNodes \/ ListGroups \/ FreeVolumes \/ CheckClaims \/ CheckRetained
  \/ DeleteGroups \/ DeleteDaemonSet \/ DeleteStatuses
  \/ DeleteStorageClasses \/ CheckCSINodes \/ ReleaseCluster
  \/ \E c \in Classes : StripGroup(c)

WorkerNext ==
  \/ Reconcile \/ CreatePath \/ DeletePath
  \/ RequestFails
  \/ \E item \in Items : ItemFails(item)

\* The worker goroutine runs and the LVMCluster is always queued again.
WorkerFair ==
  LET v == <<clusterVars, workerVars>> IN
  WF_v(Reconcile) /\ WF_v(CreatePath \/ DeletePath)
=============================================================================
