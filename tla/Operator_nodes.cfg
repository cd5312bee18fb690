\* One class on two nodes, of which one leaves, joins or is not ready, under
\* fairness.
SPECIFICATION FairSpec
CONSTANTS
  n1 = n1
  n2 = n2
  c1 = c1
  c2 = c2
  Nodes <- TwoNodes
  Classes <- OneClass
  NoSelector <- OneClass
  Matches <- Everywhere
  Default <- None
  Retain <- None
  Initial <- OneClass
  Propagation = {FALSE}
  UserOps <- Deleting
  FaultKinds <- NodeFaults
  MaxFaults = 1
INVARIANTS
  HostGuarded
  StatusOutlivesStorage
PROPERTIES
  StatusesFollowNodes
CHECK_DEADLOCK FALSE
