------------------------- MODULE ClusterStatus_proofs -------------------------
(***************************************************************************)
(* What the status of the LVMCluster says, for every number of nodes and   *)
(* classes and every list of taints.                                       *)
(***************************************************************************)
EXTENDS ClusterStatus, TLAPS

\* The provers a leaf is given to when it names none: most are first-order and
\* go to Zenon, the rest (arithmetic, records, sequences) to the SMT solver.
USE Zenon, SMTT(30)

\* The worker has read the spec that the LVMCluster still has, or its Update
\* conflicts.
SpecFits == pc # "idle" => stale \/ inst = spec

\* What was in trouble all the time was so when the node statuses were listed.
SeenFits == pc = "nodes" => \A p \in trouble : seen[p[1]][p[2]] # "Ready"

\* The groups are taken to be ready only if nothing was in trouble all the time.
GoodReasons == {"VGsReady", "VGsUnmanaged"}
MemFits == pc = "write" /\ ~stale /\ mem.groups \in GoodReasons => trouble = {}

Inv == TypeOK /\ SpecFits /\ SeenFits /\ MemFits /\ ConditionOrderIrrelevant

-----------------------------------------------------------------------------
\* The state that is computed from the conditions.
LEMMA ReadinessOfConditions ==
    ASSUME NEW c \in Conditions
    PROVE  /\ Readiness(c.resources, c.groups) \in LVMStates
           /\ Readiness(c.groups, c.resources) = Readiness(c.resources, c.groups)
           /\ Readiness(c.resources, c.groups) = "Ready" =>
                c.resources = "ResourcesAvailable" /\ c.groups \in GoodReasons
<1>1. c.resources \in ResourceReasons /\ c.groups \in GroupReasons
  BY DEF Conditions
<1>2. CASE c.resources = "ResourcesAvailable"
  BY <1>1, <1>2 DEF Readiness, TranslateReasonToState, GroupReasons, LVMStates, GoodReasons
<1>3. CASE c.resources = "ReconciliationInProgress"
  BY <1>1, <1>3 DEF Readiness, TranslateReasonToState, GroupReasons, LVMStates, GoodReasons
<1>4. CASE c.resources = "ResourcesSyncIncomplete"
  BY <1>1, <1>4 DEF Readiness, TranslateReasonToState, GroupReasons, LVMStates, GoodReasons
<1> QED
  BY <1>1, <1>2, <1>3, <1>4 DEF ResourceReasons

LEMMA WrittenType ==
    ASSUME TypeOK
    PROVE  Written \in [state : LVMStates, ready : BOOLEAN, conditions : Conditions]
BY ReadinessOfConditions DEF TypeOK, Written

LEMMA InProgressType == InProgress \in Conditions /\ NoEntries \in Entries
BY DEF InProgress, Conditions, ResourceReasons, GroupReasons, NoEntries, Entries, VGStates

LEMMA RestType ==
    ASSUME Rest
    PROVE  /\ inst' \subseteq Classes /\ seen' \in Entries /\ mem' \in Conditions
           /\ pc' = "idle"
BY InProgressType DEF Rest

LEMMA GroupsReasonType ==
    ASSUME NEW classes, NEW entries
    PROVE  GroupsReason(classes, entries) \in GroupReasons
BY DEF GroupsReason, GroupReasons

LEMMA TypeInit == Init => TypeOK
<1> SUFFICES ASSUME Init PROVE TypeOK
  OBVIOUS
<1>1. taints \in [Nodes -> TaintLists]
  BY StatusAssumption DEF Init
<1>2. status \in [state : LVMStates, ready : BOOLEAN, conditions : Conditions]
  BY InProgressType DEF Init, LVMStates
<1>3. events \in 0 .. MaxEvents
  BY StatusAssumption DEF Init
<1> QED
  BY <1>1, <1>2, <1>3, InProgressType DEF Init, TypeOK

LEMMA TroubleType ==
    ASSUME TypeOK, [Next]_vars
    PROVE  trouble' \subseteq Nodes \X Classes
BY DEF TypeOK, Next, Track, vars

\* The steps of the worker.
LEMMA WorkTypes ==
    ASSUME TypeOK, Reconcile \/ Work \/ RequestFails \/ Crash, trouble' \subseteq Nodes \X Classes
    PROVE  TypeOK'
<1>1. CASE Reconcile
  BY <1>1 DEF Reconcile, TypeOK, world
<1>2. CASE SyncResources
  BY <1>2 DEF SyncResources, TypeOK, ValidNodes, Conditions, ResourceReasons
<1>3. CASE CheckClasses
  BY <1>3 DEF CheckClasses, TypeOK, Conditions, ResourceReasons, world
<1>4. CASE ListStatuses
  <2>1. [n \in Nodes |-> IF n \in ns THEN vgs[n] ELSE NoEntries[n]] \in Entries
    BY InProgressType DEF TypeOK, Entries
  <2>2. seen' \in Entries /\ mem' \in Conditions
    BY <1>4, <2>1 DEF ListStatuses, TypeOK, Conditions, GroupReasons
  <2> QED
    BY <1>4, <2>2 DEF ListStatuses, TypeOK, world
<1>5. CASE ListNodes
  <2>1. mem' \in Conditions
    BY <1>5, GroupsReasonType DEF ListNodes, TypeOK, Conditions
  <2> QED
    BY <1>5, <2>1, InProgressType DEF ListNodes, TypeOK, world
<1>6. CASE WriteStatus
  BY <1>6, WrittenType, RestType DEF WriteStatus, TypeOK, world
<1>7. CASE RequestFails \/ Crash
  BY <1>7, RestType, StatusAssumption DEF RequestFails, Crash, Event, TypeOK, world
<1> QED
  BY <1>1, <1>2, <1>3, <1>4, <1>5, <1>6, <1>7 DEF Work

LEMMA EnvironmentTypes ==
    ASSUME TypeOK, Environment, trouble' \subseteq Nodes \X Classes
    PROVE  TypeOK'
<1>1. ASSUME NEW n \in Nodes, NEW c \in Classes, NEW s \in VGStates, Report(n, c, s) PROVE TypeOK'
  <2>1. vgs' \in Entries
    BY <1>1 DEF Report, TypeOK, Entries
  <2> QED
    BY <1>1, <2>1 DEF Report, TypeOK, worker
<1>2. ASSUME NEW classes \in SUBSET Classes, EditSpec(classes) PROVE TypeOK'
  BY <1>2, StatusAssumption DEF EditSpec, Event, TypeOK, worker
<1>3. ASSUME NEW n \in Nodes, Leave(n) \/ Join(n) PROVE TypeOK'
  <2>1. events' \in 0 .. MaxEvents
    BY <1>3, StatusAssumption DEF Leave, Join, Event, TypeOK
  <2>2. taints' \in [Nodes -> TaintLists]
    BY <1>3, StatusAssumption DEF Leave, Join, TypeOK
  <2> QED
    BY <1>3, <2>1, <2>2 DEF Leave, Join, TypeOK, worker
<1>4. ASSUME NEW n \in Nodes, RemoveNodeStatus(n) PROVE TypeOK'
  <2>1. vgs' \in Entries
    BY <1>4, InProgressType DEF RemoveNodeStatus, TypeOK, Entries
  <2> QED
    BY <1>4, <2>1 DEF RemoveNodeStatus, TypeOK, worker
<1>5. ASSUME NEW n \in Nodes, NEW list \in TaintLists, ChangeTaints(n, list) PROVE TypeOK'
  BY <1>5, StatusAssumption DEF ChangeTaints, Event, TypeOK, worker
<1>6. CASE Roll
  BY <1>6, StatusAssumption DEF Roll, Event, TypeOK, worker
<1> QED
  BY <1>1, <1>2, <1>3, <1>4, <1>5, <1>6 DEF Environment

LEMMA TypeStep ==
    ASSUME TypeOK, [Next]_vars
    PROVE  TypeOK'
<1>1. CASE UNCHANGED vars
  BY <1>1 DEF vars, world, worker, TypeOK
<1> QED
  BY <1>1, TroubleType, WorkTypes, EnvironmentTypes DEF Next

-----------------------------------------------------------------------------
\* The environment leaves the worker alone; only users change the spec.
LEMMA EnvironmentLeaves ==
    ASSUME Environment
    PROVE  /\ UNCHANGED <<pc, inst, mem, seen, status>>
           /\ UNCHANGED <<spec, stale>> \/ stale' = (pc # "idle")
BY DEF Environment, Report, EditSpec, Leave, RemoveNodeStatus, Join, ChangeTaints, Roll, worker

\* Trouble that has lasted shrinks during a reconcile.
LEMMA TroubleShrinks ==
    ASSUME [Next]_vars, pc # "idle"
    PROVE  trouble' \subseteq trouble
BY DEF Next, Track, vars

LEMMA SpecFitsStep ==
    ASSUME Inv, [Next]_vars
    PROVE  SpecFits'
<1>1. CASE Reconcile
  BY <1>1 DEF Reconcile, world, SpecFits
<1>2. CASE Work \/ RequestFails \/ Crash
  BY <1>2 DEF Work, SyncResources, CheckClasses, ListStatuses, ListNodes, WriteStatus,
     RequestFails, Crash, Rest, world, Inv, SpecFits
<1>3. CASE Environment
  BY <1>3, EnvironmentLeaves DEF Inv, SpecFits
<1>4. CASE UNCHANGED vars
  BY <1>4 DEF vars, world, worker, Inv, SpecFits
<1> QED
  BY <1>1, <1>2, <1>3, <1>4 DEF Next

LEMMA SeenFitsStep ==
    ASSUME Inv, [Next]_vars
    PROVE  SeenFits'
<1> SUFFICES ASSUME pc' = "nodes" PROVE \A p \in trouble' : seen'[p[1]][p[2]] # "Ready"
  BY DEF SeenFits
<1>1. CASE UNCHANGED <<pc, seen>>
  BY <1>1, TroubleShrinks DEF Inv, SeenFits
<1>2. CASE ListStatuses /\ Track
  <2>1. seen' = [n \in Nodes |-> IF n \in ns THEN vgs[n] ELSE NoEntries[n]]
    BY <1>2 DEF ListStatuses
  <2>2. trouble' \subseteq Troubles
    BY <1>2 DEF ListStatuses, Track, Troubles, IsNodeValid, Tolerates, world
  <2>3. ASSUME NEW p \in Troubles PROVE seen'[p[1]][p[2]] # "Ready"
    <3>1. p[1] \in Nodes /\ p[2] \in Classes /\ (p[1] \in ns => vgs[p[1]][p[2]] # "Ready")
      BY <2>3 DEF Troubles, Inv, TypeOK
    <3> QED
      BY <2>1, <3>1 DEF NoEntries
  <2> QED
    BY <2>2, <2>3
<1>3. ~(Reconcile \/ SyncResources \/ CheckClasses \/ ListNodes \/ WriteStatus \/ RequestFails \/ Crash)
  BY DEF Reconcile, SyncResources, CheckClasses, ListNodes, WriteStatus, RequestFails, Crash, Rest
<1> QED
  BY <1>1, <1>2, <1>3, EnvironmentLeaves DEF Next, Work, vars, worker

LEMMA MemFitsStep ==
    ASSUME Inv, [Next]_vars
    PROVE  MemFits'
<1> SUFFICES ASSUME pc' = "write", ~stale', mem'.groups \in GoodReasons PROVE trouble' = {}
  BY DEF MemFits
<1>1. CASE UNCHANGED <<pc, mem, stale>>
  BY <1>1, TroubleShrinks DEF Inv, MemFits
<1>2. CASE Environment
  BY <1>1, <1>2, EnvironmentLeaves, TroubleShrinks DEF Inv, MemFits
<1>3. CASE (ListStatuses \/ ListNodes) /\ Track
  <2>1. inst = spec /\ trouble' \subseteq trouble /\ trouble' \subseteq Troubles
    BY <1>3 DEF ListStatuses, ListNodes, Inv, SpecFits, Track, Troubles, IsNodeValid,
       Tolerates, world
  <2>2. CASE ListStatuses
    BY <2>1, <2>2 DEF ListStatuses, Troubles
  <2>3. CASE ListNodes
    <3>1. mem'.groups = GroupsReason(inst, seen)
      BY <2>3 DEF ListNodes, Inv, TypeOK, Conditions
    <3>2. ValidateDeviceClassSetup(inst, seen)
      BY <3>1 DEF GroupsReason, GoodReasons
    <3>3. ASSUME NEW p \in trouble' PROVE FALSE
      <4>1. p[1] \in nodes /\ p[2] \in spec /\ IsNodeValid(p[1], p[2])
        BY <2>1, <3>3 DEF Troubles
      <4>2. seen[p[1]][p[2]] # "Ready"
        BY <2>1, <2>3, <3>3 DEF ListNodes, Inv, SeenFits
      <4> QED
        BY <2>1, <3>2, <4>1, <4>2 DEF ValidateDeviceClassSetup
    <3> QED
      BY <3>3
  <2> QED
    BY <1>3, <2>2, <2>3
<1>4. ~(Reconcile \/ SyncResources \/ CheckClasses \/ WriteStatus \/ RequestFails \/ Crash)
  BY DEF Reconcile, SyncResources, CheckClasses, WriteStatus, RequestFails, Crash, Rest
<1> QED
  BY <1>1, <1>2, <1>3, <1>4 DEF Next, Work, vars, worker

LEMMA WrittenConditions ==
    ASSUME Inv, WriteStatus
    PROVE  /\ status' = status \/ (~stale /\ status' = Written)
           /\ Written.conditions = mem
           /\ Written.ready => /\ mem.resources = "ResourcesAvailable"
                               /\ mem.groups \in GoodReasons
           /\ Readiness(mem.groups, mem.resources) = Readiness(mem.resources, mem.groups)
BY ReadinessOfConditions DEF WriteStatus, Written, Inv, TypeOK

LEMMA OrderStep ==
    ASSUME Inv, [Next]_vars
    PROVE  ConditionOrderIrrelevant'
<1>1. CASE UNCHANGED status
  BY <1>1 DEF Inv, ConditionOrderIrrelevant
<1>2. CASE WriteStatus
  BY <1>1, <1>2, WrittenConditions DEF ConditionOrderIrrelevant, GoodReasons
<1>3. CASE Environment
  BY <1>1, <1>3, EnvironmentLeaves
<1> QED
  BY <1>1, <1>2, <1>3 DEF Next, Work, Reconcile, SyncResources, CheckClasses, ListStatuses,
     ListNodes, RequestFails, Crash, vars

LEMMA InvInit == Init => Inv
<1> SUFFICES ASSUME Init PROVE Inv
  OBVIOUS
<1>1. TypeOK
  BY TypeInit
<1>2. ConditionOrderIrrelevant
  BY ReadinessOfConditions, InProgressType DEF Init, ConditionOrderIrrelevant
<1> QED
  BY <1>1, <1>2 DEF Init, Inv, SpecFits, SeenFits, MemFits

LEMMA InvStep == Inv /\ [Next]_vars => Inv'
<1> SUFFICES ASSUME Inv, [Next]_vars PROVE Inv'
  OBVIOUS
<1>1. TypeOK'
  BY TypeStep DEF Inv
<1> QED
  BY <1>1, SpecFitsStep, SeenFitsStep, MemFitsStep, OrderStep DEF Inv

LEMMA Invariant == Spec => []Inv
BY InvInit, InvStep, PTL DEF Spec

LEMMA WriteStep ==
    ASSUME Inv, [Next]_vars, Writes
    PROVE  inst = spec /\ (status'.ready => trouble = {})
<1>1. ~stale
  BY DEF Next, Work, Reconcile, SyncResources, CheckClasses, ListStatuses, ListNodes, WriteStatus,
     RequestFails, Crash, Environment, Report, EditSpec, Leave, RemoveNodeStatus, Join,
     ChangeTaints, Roll, vars, Writes
<1>2. inst = spec
  BY <1>1 DEF Inv, SpecFits, Writes
<1>3. WriteStatus
  <2>1. ~(RequestFails \/ Crash)
    BY StatusAssumption DEF RequestFails, Crash, Event, Writes, Inv, TypeOK
  <2>2. ~Environment /\ ~UNCHANGED vars
    BY EnvironmentLeaves DEF Writes, vars, worker
  <2> QED
    BY <2>1, <2>2 DEF Next, Work, Reconcile, SyncResources, CheckClasses, ListStatuses,
       ListNodes, Writes
<1>4. status' = Written
  BY <1>1, <1>3 DEF WriteStatus
<1>5. status'.ready => mem.groups \in GoodReasons
  BY <1>3, <1>4, WrittenConditions
<1> QED
  BY <1>1, <1>2, <1>5 DEF Inv, MemFits, Writes

-----------------------------------------------------------------------------
\* Every reason the worker puts into a condition, and every state it computes
\* from them, is one of those of the API (api/v1alpha1), and the history of
\* troubles is about nodes and classes.
THEOREM TypeCorrect == Spec => []TypeOK
<1>1. Inv => TypeOK
  BY DEF Inv
<1> QED
  BY <1>1, Invariant, PTL

\* The order of the conditions never matters (computeLVMClusterReadiness), and
\* the cluster is ready only with both conditions.
THEOREM OrderIrrelevant == Spec => []ConditionOrderIrrelevant
<1>1. Inv => ConditionOrderIrrelevant
  BY DEF Inv
<1> QED
  BY <1>1, Invariant, PTL

\* updateLVMClusterStatus never writes Ready while a class of the spec has been
\* not ready, on a node it belongs to, ever since the reconcile began, although
\* the spec, the node statuses and the Nodes were read at different times.
THEOREM ReadyIsTrue == Spec => NoFalseReady
<1>1. Inv /\ [Next]_vars => [Writes /\ status'.ready => trouble = {}]_vars
  BY WriteStep
<1> QED
  BY <1>1, Invariant, PTL DEF Spec, NoFalseReady

\* A status that is written was computed for the spec the LVMCluster has: the
\* version check of the Update refuses every other.
THEOREM WritesAreCurrent == Spec => WritesFollowSpec
<1>1. Inv /\ [Next]_vars => [Writes => inst = spec]_vars
  BY WriteStep
<1> QED
  BY <1>1, Invariant, PTL DEF Spec, WritesFollowSpec
=============================================================================
