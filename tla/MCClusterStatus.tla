--------------------------- MODULE MCClusterStatus ---------------------------
(* Instances of ClusterStatus for TLC.                                      *)
EXTENDS ClusterStatus

CONSTANTS n1, n2, c1, c2

\* c1 is for every node, c2 for n1 only.
OneForAll == [c \in Classes |-> IF c = c1 THEN Nodes ELSE Nodes \cap {n1}]

\* The order of the taints decides between an error and a node that is left out.
AllTaints == {<<>>, <<NotReady>>, <<"other", NotReady>>}

=============================================================================
