----------------------------- MODULE NodeRemoval -----------------------------
(***************************************************************************)
(* The node removal controller (internal/controllers/node/removal): for a  *)
(* node status whose Node is gone it deletes the status and then removes   *)
(* the finalizers that the node left on LVMVolumeGroups. One action per    *)
(* API request; remPc names the request the worker makes next.             *)
(***************************************************************************)
EXTENDS Cluster

VARIABLES
  remPc,    \* the next request of the worker
  remNode,  \* the node it works on
  remCopy,  \* the node status as it was read
  remSeen,  \* the LVMVolumeGroups as they were listed
  remTodo   \* the classes whose LVMVolumeGroup has to be updated

removalVars == <<remPc, remNode, remCopy, remSeen, remTodo>>

RemovalPcs == {"idle", "node", "delete", "update", "list", "clean"}

RemovalTypeOK ==
  /\ remPc \in RemovalPcs
  /\ remNode \in Nodes
  /\ remCopy \in NodeStatuses
  /\ remSeen \in [Classes -> VolumeGroups]
  /\ remTodo \subseteq Classes

\* The value of remNode between requests.
AnyNode == CHOOSE n \in Nodes : TRUE

\* The worker forgets what it read: it is idle again.
RemovalRest ==
  /\ remPc' = "idle"
  /\ remCopy' = NoStatus
  /\ remSeen' = [c \in Classes |-> NoVG]
  /\ remTodo' = {}
  /\ remNode' = AnyNode

RemovalInit ==
  /\ remPc = "idle"
  /\ remNode = AnyNode
  /\ remCopy = NoStatus
  /\ remSeen = [c \in Classes |-> NoVG]
  /\ remTodo = {}

\* A request is delivered for a node status that still exists.
RemGet(n) ==
  /\ remPc = "idle"
  /\ ns[n].alive
  /\ remPc' = "node" /\ remNode' = n /\ remCopy' = ns[n]
  /\ UNCHANGED <<clusterVars, remSeen, remTodo>>

\* Variant with a bug: a node that is not ready is taken for removed.
RemGetNodeReady ==
  /\ remPc = "node"
  /\ IF remNode \in nodes \ unready THEN RemovalRest
     ELSE remPc' = "delete" /\ UNCHANGED <<remNode, remCopy, remSeen, remTodo>>
  /\ UNCHANGED clusterVars

RemGetNode ==
  /\ remPc = "node"
  /\ IF remNode \in nodes THEN RemovalRest
     ELSE remPc' = "delete" /\ UNCHANGED <<remNode, remCopy, remSeen, remTodo>>
  /\ UNCHANGED clusterVars

RemDelete ==
  /\ remPc = "delete"
  /\ IF ns[remNode].alive
     THEN /\ ns' = [ns EXCEPT ![remNode].deleting = TRUE]
          /\ remPc' = "update"
          /\ UNCHANGED <<remNode, remCopy, remSeen, remTodo>>
     ELSE RemovalRest /\ UNCHANGED ns
  /\ UNCHANGED <<cluster, vg, sc, extra, ds, machines, storage, faults>>

\* Variant with a bug: the finalizer is not removed.
RemUpdateKeeps ==
  /\ remPc = "update"
  /\ IF ns[remNode] = remCopy
     THEN remPc' = "list" /\ UNCHANGED <<remNode, remCopy, remSeen, remTodo>>
     ELSE RemovalRest
  /\ UNCHANGED clusterVars

\* The Update carries the version that was read before the Delete: it
\* conflicts unless the status was being deleted already.
RemUpdate ==
  /\ remPc = "update"
  /\ IF ns[remNode] = remCopy
     THEN /\ ns' = [ns EXCEPT ![remNode] = NoStatus]
          /\ remPc' = "list"
          /\ UNCHANGED <<remNode, remCopy, remSeen, remTodo>>
     ELSE RemovalRest /\ UNCHANGED ns
  /\ UNCHANGED <<cluster, vg, sc, extra, ds, machines, storage, faults>>

RemList ==
  /\ remPc = "list"
  /\ LET todo == {c \in Classes : remNode \in vg[c].fins} IN
     IF todo = {} THEN RemovalRest
     ELSE /\ remPc' = "clean"
          /\ remSeen' = vg /\ remTodo' = todo
          /\ UNCHANGED <<remNode, remCopy>>
  /\ UNCHANGED clusterVars

\* Variant with a bug: the finalizers of all nodes are removed.
RemCleanAll(c) ==
  /\ remPc = "clean" /\ c \in remTodo
  /\ vg' = [vg EXCEPT ![c] = Stripped(@, Nodes)]
  /\ RemovalRest
  /\ UNCHANGED <<cluster, ns, sc, extra, ds, machines, storage, faults>>

\* A conflict ends the reconcile with an error.
RemClean(c) ==
  /\ remPc = "clean" /\ c \in remTodo
  /\ IF vg[c] = remSeen[c]
     THEN /\ vg' = [vg EXCEPT ![c] = Stripped(@, {remNode})]
          /\ IF remTodo = {c} THEN RemovalRest
             ELSE /\ remTodo' = remTodo \ {c}
                  /\ UNCHANGED <<remPc, remNode, remCopy, remSeen>>
     ELSE RemovalRest /\ UNCHANGED vg
  /\ UNCHANGED <<cluster, ns, sc, extra, ds, machines, storage, faults>>

\* A request fails: the reconcile returns the error and is retried.
RemFails ==
  /\ remPc # "idle"
  /\ Fault("api")
  /\ RemovalRest
  /\ UNCHANGED <<objects, machines, storage>>

RemovalNext ==
  \/ \E n \in Nodes : RemGet(n)
  \/ RemGetNode \/ RemDelete \/ RemUpdate \/ RemList
  \/ \E c \in Classes : RemClean(c)
  \/ RemFails

\* The worker runs, and the queue delivers every request: a status whose Node
\* is gone has one, from the event of the Node or of the status.
RemovalFair ==
  LET v == <<clusterVars, removalVars>> IN
  /\ \A n \in Nodes : SF_v(n \notin nodes /\ RemGet(n))
  /\ WF_v(RemGetNode \/ RemDelete \/ RemUpdate \/ RemList \/ \E c \in Classes : RemClean(c))
=============================================================================
