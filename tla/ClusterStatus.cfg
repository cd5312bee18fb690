SPECIFICATION FairSpec
CONSTANTS
  n1 = n1
  n2 = n2
  c1 = c1
  c2 = c2
  Nodes = {n1}
  Classes = {c1, c2}
  Matches <- OneForAll
  TaintLists <- AllTaints
  EventKinds = {"edit", "node", "taint", "roll", "api", "crash"}
  MaxEvents = 2
INVARIANTS
  TypeOK
  ConditionOrderIrrelevant
PROPERTIES
  
  WritesFollowSpec
  ReadyShown
  TroubleShown
  FailureShown
