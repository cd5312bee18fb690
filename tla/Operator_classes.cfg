\* Two classes on one node, of which one is removed and added at any time, under
\* fairness, with a crash or a failed request.
SPECIFICATION FairSpec
CONSTANTS
  n1 = n1
  n2 = n2
  c1 = c1
  c2 = c2
  Nodes <- OneNode
  Classes <- TwoClasses
  NoSelector <- OneClass
  Matches <- Everywhere
  Default <- OneClass
  Retain <- None
  Initial <- OneClass
  Propagation = {FALSE}
  UserOps <- Editing
  FaultKinds <- ProcessFaults
  MaxFaults = 1
PROPERTIES
  RemovedClassGone
  
CHECK_DEADLOCK FALSE
