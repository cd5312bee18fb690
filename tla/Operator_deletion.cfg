\* One class on one node, with claims and retained volumes, under fairness, with
\* a fault of any kind; the LVMCluster is deleted in the background or the
\* foreground.
SPECIFICATION FairSpec
CONSTANTS
  n1 = n1
  n2 = n2
  c1 = c1
  c2 = c2
  Nodes <- OneNode
  Classes <- OneClass
  NoSelector <- OneClass
  Matches <- Everywhere
  Default <- None
  Retain <- OneClass
  Initial <- OneClass
  Propagation = {TRUE, FALSE}
  UserOps <- Claiming
  FaultKinds <- AllFaults
  MaxFaults = 1
INVARIANTS
  TypeOK
  ManagerOutlivesStorage
PROPERTIES
  ReleaseClean
  
  StoragePromiseKept
  DeletionCompletes
CHECK_DEADLOCK FALSE
