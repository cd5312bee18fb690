----------------------------- MODULE MCOperator -----------------------------
(***************************************************************************)
(* Instances of module Operator for TLC.                                   *)
(***************************************************************************)
EXTENDS Operator, Sequences

CONSTANTS n1, n2, c1, c2

OneNode == {n1}
TwoNodes == {n1, n2}
OneClass == {c1}
TwoClasses == {c1, c2}
None == {}

\* Every class on every node.
Everywhere == [c \in Classes |-> Nodes]

Deleting == {"delete"}
Claiming == {"delete", "claim"}
Editing == {"drop", "add"}
DropDelete == {"drop", "delete"}

NoFaults == {}
NodeFaults == {"leave", "join", "unready"}
ProcessFaults == {"api", "crash"}
AllFaults == NodeFaults \cup ProcessFaults \cup {"stale"}

-----------------------------------------------------------------------------
(* The loop of checkStaleNodeFinalizers over a slice of finalizers.         *)

\* RemoveFinalizer moves what stays to the front of the backing array.
RemoveFinalizer(slice, f) ==
  LET stays == SelectSeq(SubSeq(slice.array, 1, slice.len), LAMBDA g : g # f) IN
  [array |-> stays \o SubSeq(slice.array, Len(stays) + 1, Len(slice.array)),
   len |-> Len(stays)]

\* The range loop reads the array that RemoveFinalizer shifts, to its first length.
RECURSIVE RangeOver(_, _, _)
RangeOver(slice, i, listed) ==
  IF i > Len(slice.array) THEN slice
  ELSE LET f == slice.array[i] IN
       RangeOver(IF f \in listed THEN slice ELSE RemoveFinalizer(slice, f), i + 1, listed)

Removed(fins, listed) ==
  LET rest == RangeOver([array |-> fins, len |-> Len(fins)], 1, listed) IN
  {fins[i] : i \in DOMAIN fins} \ {rest.array[i] : i \in 1 .. rest.len}

\* For lists of up to five finalizers what the loop removes is among what
\* StalePicks allows: never the finalizer of a listed node, all stale ones of a
\* list of two, and at least one if there is one.
ASSUME StaleLoop ==
  \A k \in 0 .. 5, listed \in SUBSET (1 .. 5) :
    LET fins == [i \in 1 .. k |-> i] IN
    (1 .. k) \ listed # {} => Removed(fins, listed) \in StalePicks(1 .. k, listed)
=============================================================================
