\* A class is removed and the LVMCluster deleted.
SPECIFICATION Spec
CONSTANTS
  n1 = n1
  n2 = n2
  c1 = c1
  c2 = c2
  Nodes <- OneNode
  Classes <- TwoClasses
  NoSelector <- TwoClasses
  Matches <- Everywhere
  Default <- OneClass
  Retain <- None
  Initial <- TwoClasses
  Propagation = {FALSE}
  UserOps <- DropDelete
  FaultKinds <- NoFaults
  MaxFaults = 0
INVARIANTS
  StorageNeverOrphaned
CHECK_DEADLOCK FALSE
