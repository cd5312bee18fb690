---------------------------- MODULE ClusterStatus ----------------------------
(***************************************************************************)
(* The status of the LVMCluster: what reconcile of the LVMCluster          *)
(* controller reports about the resources it created and about the volume  *)
(* groups that the vgmanagers report (status.go, updateLVMClusterStatus).  *)
(*                                                                         *)
(* One worker; pc names its next request.  It reads the LVMCluster first,  *)
(* the node statuses and the Nodes one after the other much later, and     *)
(* writes last.  Vgmanagers, nodes and users go on in between.  What       *)
(* reconcile does to the objects it creates is module LVMCluster's; here   *)
(* it only matters whether all of it succeeded.                            *)
(***************************************************************************)
EXTENDS Naturals, Sequences

CONSTANTS
  Nodes,       \* names of nodes
  Classes,     \* names of device classes
  Matches,     \* [Classes -> SUBSET Nodes], all nodes without a nodeSelector
  TaintLists,  \* lists of untolerated taints a Node may have
  EventKinds,  \* what may happen besides reports of the vgmanagers: "edit",
               \* "node", "taint", "roll", "api" (a request fails), "crash"
  MaxEvents    \* how many of these

NotReady == "not-ready"

ASSUME StatusAssumption ==
  /\ Matches \in [Classes -> SUBSET Nodes]
  /\ TaintLists \subseteq Seq({NotReady, "other"}) /\ <<>> \in TaintLists
  /\ MaxEvents \in Nat

VARIABLES
  spec,     \* the classes of the LVMCluster
  stale,    \* the LVMCluster has changed since the worker read it
  nodes,    \* the Node objects
  taints,   \* the untolerated taints of each node
  rolled,   \* the DaemonSet is rolled out and the CSI driver registered
  ns,       \* the nodes whose LVMVolumeGroupNodeStatus exists
  vgs,      \* the VGStatus entries of each node status
  pc,       \* the next request of the worker
  inst,     \* the classes it read
  mem,      \* the reasons of the two conditions in its copy
  seen,     \* the entries of the node statuses it listed
  status,   \* the status of the LVMCluster
  trouble,  \* history: classes that were not ready on a node all the time
            \* since the reconcile began
  events    \* how many events there were

world == <<spec, nodes, taints, rolled, ns, vgs>>
worker == <<pc, inst, mem, seen>>
vars == <<world, stale, worker, status, trouble, events>>

VGStates == {"none", "Progressing", "Ready", "Failed", "Degraded"}
Entries == [Nodes -> [Classes -> VGStates]]
NoEntries == [n \in Nodes |-> [c \in Classes |-> "none"]]

ResourceReasons == {"ReconciliationInProgress", "ResourcesSyncIncomplete", "ResourcesAvailable"}
GroupReasons == {"VGReadinessInProgress", "VGsFailed", "VGsDegraded", "VGsReady", "VGsUnmanaged"}
Conditions == [resources : ResourceReasons, groups : GroupReasons]
LVMStates == {"Unknown", "Progressing", "Ready", "Failed", "Degraded"}

\* Variant with a bug: each condition is reset with the reason of the other.
InProgressSwapped == [resources |-> "VGReadinessInProgress", groups |-> "ReconciliationInProgress"]

\* Both conditions are reset in memory when a reconcile begins.
InProgress == [resources |-> "ReconciliationInProgress", groups |-> "VGReadinessInProgress"]

TypeOK ==
  /\ spec \subseteq Classes /\ inst \subseteq Classes
  /\ stale \in BOOLEAN /\ rolled \in BOOLEAN
  /\ nodes \subseteq Nodes /\ ns \subseteq Nodes
  /\ taints \in [Nodes -> TaintLists]
  /\ vgs \in Entries /\ seen \in Entries
  /\ pc \in {"idle", "sync", "check", "list", "nodes", "write"}
  /\ mem \in Conditions
  /\ status \in [state : LVMStates, ready : BOOLEAN, conditions : Conditions]
  /\ trouble \subseteq Nodes \X Classes
  /\ events \in 0 .. MaxEvents

-----------------------------------------------------------------------------
(* Which nodes count.                                                       *)

\* ToleratesAllTaints looks at the taints in order and answers at the first
\* one that is not tolerated: with an error if it is the not-ready taint.
Tolerates(n) == taints[n] = <<>>
TaintError(n) == taints[n] # <<>> /\ Head(taints[n]) = NotReady

\* isNodeValid
IsNodeValid(n, c) == Tolerates(n) /\ n \in Matches[c]

\* ValidNodes, for the union of the selectors of the spec (all nodes without a
\* class), and its error.
ValidNodes(classes) ==
  {n \in nodes : Tolerates(n) /\ (classes = {} \/ \E c \in classes : n \in Matches[c])}
NodeErrors == \E n \in nodes : TaintError(n)

-----------------------------------------------------------------------------
(* status.go                                                                *)

\* Variant with a bug: a node status without an entry for the class is no error.
SetupValidUnreported(classes, entries) ==
  /\ classes # {} => ~NodeErrors
  /\ \A c \in classes : \E n \in nodes : IsNodeValid(n, c)
  /\ \A c \in classes, n \in nodes : IsNodeValid(n, c) => entries[n][c] \in {"none", "Ready"}

\* Variant with a bug: the entries of removed classes count as well.
SetupValidEverything(classes, entries) ==
  /\ classes # {} => ~NodeErrors
  /\ \A c \in classes : \E n \in nodes : IsNodeValid(n, c)
  /\ \A c \in classes, n \in nodes : IsNodeValid(n, c) => entries[n][c] = "Ready"
  /\ \A n \in Nodes, c \in Classes : entries[n][c] \in {"none", "Ready"}

\* validateDeviceClassSetup: a node status that does not exist, or has no entry
\* for the class, has entry "none" here.
ValidateDeviceClassSetup(classes, entries) ==
  /\ classes # {} => ~NodeErrors
  /\ \A c \in classes : \E n \in nodes : IsNodeValid(n, c)
  /\ \A c \in classes, n \in nodes : IsNodeValid(n, c) => entries[n][c] = "Ready"

Reported(entries, s) == \E n \in Nodes, c \in Classes : entries[n][c] = s

\* Variant with a bug: a degraded volume group is looked for first.
GroupsReasonDegradedFirst(classes, entries) ==
  IF ValidateDeviceClassSetup(classes, entries) THEN "VGsReady"
  ELSE IF Reported(entries, "Degraded") THEN "VGsDegraded"
  ELSE IF Reported(entries, "Failed") THEN "VGsFailed"
  ELSE "VGReadinessInProgress"

\* setVolumeGroupsReadyCondition: the condition stays in progress when nothing
\* is ready and nothing is reported as failed or degraded.
GroupsReason(classes, entries) ==
  IF ValidateDeviceClassSetup(classes, entries) THEN "VGsReady"
  ELSE IF Reported(entries, "Failed") THEN "VGsFailed"
  ELSE IF Reported(entries, "Degraded") THEN "VGsDegraded"
  ELSE "VGReadinessInProgress"

\* Variant with a bug: the reason that comes last wins.
TranslateLastWins(reason, state) ==
  CASE reason = "VGsFailed" -> "Failed"
    [] reason = "VGsDegraded" -> "Degraded"
    [] reason \in {"ReconciliationInProgress", "VGReadinessInProgress",
                   "ResourcesSyncIncomplete"} -> "Progressing"
    [] reason \in {"ResourcesAvailable", "VGsReady", "VGsUnmanaged"} -> "Ready"
    [] OTHER -> "Unknown"

TranslateReasonToState(reason, state) ==
  CASE reason = "VGsFailed" -> "Failed"
    [] reason = "VGsDegraded" ->
         IF state = "Failed" THEN state ELSE "Degraded"
    [] reason \in {"ReconciliationInProgress", "VGReadinessInProgress",
                   "ResourcesSyncIncomplete"} ->
         IF state \in {"Failed", "Degraded"} THEN state ELSE "Progressing"
    [] reason \in {"ResourcesAvailable", "VGsReady", "VGsUnmanaged"} ->
         IF state \in {"Failed", "Degraded", "Progressing"} THEN state ELSE "Ready"
    [] OTHER -> "Unknown"

\* computeLVMClusterReadiness goes through the conditions in the order in which
\* they were added.
Readiness(first, second) ==
  TranslateReasonToState(second, TranslateReasonToState(first, "Unknown"))

-----------------------------------------------------------------------------
(* The worker.                                                              *)

Event(kind) == kind \in EventKinds /\ events < MaxEvents /\ events' = events + 1

\* The reconcile is over; it is queued again after an error, after a minute,
\* and when a node status or the LVMCluster changes.
Rest == pc' = "idle" /\ inst' = {} /\ mem' = InProgress /\ seen' = NoEntries

Reconcile ==
  /\ pc = "idle"
  /\ pc' = "sync" /\ inst' = spec /\ stale' = FALSE
  /\ UNCHANGED <<world, mem, seen, status, events>>

\* Variant with a bug: the status is not updated after an error.
SyncResourcesGivesUp ==
  /\ pc = "sync"
  /\ ns' = ns \cup ValidNodes(inst)
  /\ IF rolled /\ ~NodeErrors
     THEN pc' = "check" /\ UNCHANGED <<inst, mem, seen>>
     ELSE Rest
  /\ UNCHANGED <<spec, nodes, taints, rolled, vgs, stale, status, events>>

\* All resource units have answered.  The node status unit has created the
\* missing node statuses.  After an error the status is updated at once.
SyncResources ==
  /\ pc = "sync"
  /\ ns' = ns \cup ValidNodes(inst)
  /\ IF rolled /\ ~NodeErrors
     THEN pc' = "check" /\ UNCHANGED mem
     ELSE /\ pc' = "list"
          /\ mem' = [mem EXCEPT !.resources = "ResourcesSyncIncomplete"]
  /\ UNCHANGED <<spec, nodes, taints, rolled, vgs, stale, inst, seen, status, events>>

\* checkForDeletedDeviceClasses; an error ends the reconcile without an update.
CheckClasses ==
  /\ pc = "check"
  /\ pc' = "list"
  /\ mem' = [mem EXCEPT !.resources = "ResourcesAvailable"]
  /\ UNCHANGED <<world, stale, inst, seen, status, events>>

\* updateLVMClusterStatus: the node statuses are listed, ...
ListStatuses ==
  /\ pc = "list"
  /\ IF inst = {}
     THEN /\ mem' = [mem EXCEPT !.groups = "VGsUnmanaged"]
          /\ pc' = "write" /\ UNCHANGED seen
     ELSE /\ seen' = [n \in Nodes |-> IF n \in ns THEN vgs[n] ELSE NoEntries[n]]
          /\ pc' = "nodes" /\ UNCHANGED mem
  /\ UNCHANGED <<world, stale, inst, status, events>>

\* ... then the Nodes, ...
ListNodes ==
  /\ pc = "nodes"
  /\ mem' = [mem EXCEPT !.groups = GroupsReason(inst, seen)]
  /\ pc' = "write" /\ seen' = NoEntries
  /\ UNCHANGED <<world, stale, inst, status, events>>

\* The copy of the entries in the status (computeDeviceClassStatuses) is left out.
Written ==
  LET state == Readiness(mem.resources, mem.groups) IN
  [state |-> state, ready |-> state = "Ready", conditions |-> mem]

\* Variant with a bug: a patch instead of an Update, which never conflicts.
WriteStatusPatch ==
  /\ pc = "write"
  /\ status' = Written
  /\ Rest /\ UNCHANGED <<world, stale, events>>

\* ... and the status is written with the version the reconcile began with: the
\* Update conflicts when the LVMCluster has changed since.
WriteStatus ==
  /\ pc = "write"
  /\ status' = IF stale THEN status ELSE Written
  /\ Rest /\ UNCHANGED <<world, stale, events>>

RequestFails ==
  /\ pc \in {"check", "list", "nodes", "write"}
  /\ Event("api")
  /\ Rest /\ UNCHANGED <<world, stale, status>>

Crash ==
  /\ pc # "idle"
  /\ Event("crash")
  /\ Rest /\ UNCHANGED <<world, stale, status>>

-----------------------------------------------------------------------------
(* Everybody else.                                                          *)

\* The vgmanager of node n reports on class c (setVolumeGroupStatus), or removes
\* the entry of a class that was removed.
Report(n, c, s) ==
  /\ n \in nodes \cap ns /\ n \in Matches[c]
  /\ s # vgs[n][c]
  /\ IF s = "none" THEN c \notin spec ELSE c \in spec \/ vgs[n][c] # "none"
  /\ vgs' = [vgs EXCEPT ![n][c] = s]
  /\ UNCHANGED <<spec, nodes, taints, rolled, ns, stale, worker, status, events>>

\* The webhook keeps users from removing the last class.
EditSpec(classes) ==
  /\ Event("edit")
  /\ classes # spec /\ classes # {}
  /\ spec' = classes
  /\ stale' = (pc # "idle")
  /\ UNCHANGED <<nodes, taints, rolled, ns, vgs, worker, status>>

Leave(n) ==
  /\ Event("node")
  /\ n \in nodes
  /\ nodes' = nodes \ {n} /\ taints' = [taints EXCEPT ![n] = <<>>]
  /\ UNCHANGED <<spec, rolled, ns, vgs, stale, worker, status>>

\* The node removal controller.
RemoveNodeStatus(n) ==
  /\ n \in ns \ nodes
  /\ ns' = ns \ {n} /\ vgs' = [vgs EXCEPT ![n] = NoEntries[n]]
  /\ UNCHANGED <<spec, nodes, taints, rolled, stale, worker, status, events>>

Join(n) ==
  /\ Event("node")
  /\ n \in Nodes \ nodes
  /\ nodes' = nodes \cup {n}
  /\ UNCHANGED <<spec, taints, rolled, ns, vgs, stale, worker, status>>

ChangeTaints(n, list) ==
  /\ Event("taint")
  /\ n \in nodes /\ list # taints[n]
  /\ taints' = [taints EXCEPT ![n] = list]
  /\ UNCHANGED <<spec, nodes, rolled, ns, vgs, stale, worker, status>>

\* Pods of the DaemonSet stop or are ready again.
Roll ==
  /\ Event("roll")
  /\ rolled' = ~rolled
  /\ UNCHANGED <<spec, nodes, taints, ns, vgs, stale, worker, status>>

-----------------------------------------------------------------------------
\* A class of the spec that is not ready on a node where it should be.
Troubles ==
  {p \in nodes \X spec :
     IsNodeValid(p[1], p[2]) /\ (p[1] \in ns => vgs[p[1]][p[2]] # "Ready")}

Init ==
  /\ spec \in SUBSET Classes /\ stale = FALSE
  /\ nodes \in SUBSET Nodes /\ taints = [n \in Nodes |-> <<>>]
  /\ rolled \in BOOLEAN
  /\ ns = {} /\ vgs = NoEntries
  /\ pc = "idle" /\ inst = {} /\ mem = InProgress /\ seen = NoEntries
  /\ status = [state |-> "Unknown", ready |-> FALSE, conditions |-> InProgress]
  /\ trouble = {}
  /\ events = 0

Work == SyncResources \/ CheckClasses \/ ListStatuses \/ ListNodes \/ WriteStatus

Environment ==
  \/ \E n \in Nodes, c \in Classes, s \in VGStates : Report(n, c, s)
  \/ \E classes \in SUBSET Classes : EditSpec(classes)
  \/ \E n \in Nodes : Leave(n) \/ RemoveNodeStatus(n) \/ Join(n)
  \/ \E n \in Nodes, list \in TaintLists : ChangeTaints(n, list)
  \/ Roll

Track == trouble' = Troubles' \cap (IF pc = "idle" THEN Nodes \X Classes ELSE trouble)

Next == (Reconcile \/ Work \/ RequestFails \/ Crash \/ Environment) /\ Track

Spec == Init /\ [][Next]_vars

\* The worker takes its steps, and the LVMCluster is always queued again.
FairSpec == Spec /\ WF_vars((Reconcile \/ Work) /\ Track)

-----------------------------------------------------------------------------
(* Properties.                                                              *)

\* computeLVMClusterReadiness goes through the conditions in the order of the
\* list: with every pair of reasons the worker writes, the other order gives the
\* same state, and the cluster is ready only if both conditions are.
ConditionOrderIrrelevant ==
  LET c == status.conditions IN
  /\ Readiness(c.groups, c.resources) = Readiness(c.resources, c.groups)
  /\ status.ready => c.resources = "ResourcesAvailable" /\ c.groups \in {"VGsReady", "VGsUnmanaged"}

\* The step writes the status: the Update does not conflict, or it is changed.
Writes ==
  /\ pc = "write" /\ pc' = "idle" /\ events' = events
  /\ ~stale \/ status' # status

\* No status update says Ready while some class of the spec has been not ready,
\* on a node it belongs to, ever since the reconcile began, although the spec,
\* the node statuses and the Nodes are read at different times.
NoFalseReady == [][Writes /\ status'.ready => trouble = {}]_vars

\* A status update describes the classes the spec has at that moment: what was
\* computed for an older spec is refused as a conflict.
WritesFollowSpec == [][Writes => inst = spec]_vars

Settled == <>[][FALSE]_spec

\* Everything the readiness of the cluster depends on is as it should be.
AllGood ==
  /\ rolled /\ ~NodeErrors
  /\ \A c \in spec : \E n \in nodes : IsNodeValid(n, c)
  /\ \A c \in spec, n \in nodes : IsNodeValid(n, c) => n \in ns /\ vgs[n][c] = "Ready"

\* When users leave the spec alone and everything is ready for good, whatever
\* removed classes and nodes left behind, the cluster becomes and stays ready.
ReadyShown == Settled /\ <>[]AllGood => <>[]status.ready

\* When a class of the spec stays not ready on a node it belongs to, the cluster
\* stops being reported as ready, even if other things go on changing.
TroubleShown ==
  Settled => \A n \in Nodes, c \in Classes :
    <>[](<<n, c>> \in Troubles) => <>[]~status.ready

\* When a class of the spec stays failed on a node it belongs to, the state of
\* the cluster becomes and stays Failed, whatever the resource units return.
FailureShown ==
  Settled => \A n \in Nodes, c \in Classes :
    <>[](<<n, c>> \in Troubles /\ n \in ns /\ vgs[n][c] = "Failed") => <>[](status.state = "Failed")

=============================================================================
