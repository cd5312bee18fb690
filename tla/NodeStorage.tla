---------------------------- MODULE NodeStorage ----------------------------
(***************************************************************************)
(* What the vgmanager of one node promises about the storage of its device *)
(* classes, without its steps: a volume group is on the host only while    *)
(* the node's finalizer holds the LVMVolumeGroup, it leaves the host only  *)
(* when the LVMVolumeGroup is being deleted and no volume uses it, and the *)
(* finalizer is given back only when nothing is left on the host.          *)
(***************************************************************************)
CONSTANT Classes

VARIABLES
  object,   \* the LVMVolumeGroup of each class: "none", "live" or "deleting"
  held,     \* the classes whose LVMVolumeGroup has this node's finalizer
  built,    \* the classes with a volume group on the host
  used      \* the classes with a user's logical volume

vars == <<object, held, built, used>>

TypeOK ==
  /\ object \in [Classes -> {"none", "live", "deleting"}]
  /\ held \subseteq Classes
  /\ built \subseteq Classes
  /\ used \subseteq Classes

Init ==
  /\ object = [c \in Classes |-> "none"]
  /\ held = {} /\ built = {} /\ used = {}

\* The operator creates the LVMVolumeGroup.
Create(c) ==
  /\ object[c] = "none"
  /\ object' = [object EXCEPT ![c] = "live"]
  /\ UNCHANGED <<held, built, used>>

\* The vgmanager puts the node's finalizer on a live LVMVolumeGroup.
Hold(c) ==
  /\ object[c] = "live" /\ c \notin held
  /\ held' = held \cup {c}
  /\ UNCHANGED <<object, built, used>>

\* The volume group is created; the deletion may have been requested meanwhile.
Build(c) ==
  /\ c \in held \ built
  /\ built' = built \cup {c}
  /\ UNCHANGED <<object, held, used>>

Use(c) ==
  /\ c \in built
  /\ used' \in {used \cup {c}, used \ {c}}
  /\ UNCHANGED <<object, held, built>>

\* The operator deletes LVMVolumeGroups: one stays if a finalizer, of this node
\* or of another, is on it.
RequestDeletion(cs) ==
  /\ \A c \in cs : object[c] = "live"
  /\ object' \in [Classes -> {"none", "live", "deleting"}]
  /\ \A c \in Classes : IF c \in cs
                         THEN object'[c] \in {"deleting", "none"}
                                /\ (c \in held => object'[c] = "deleting")
                         ELSE object'[c] = object[c]
  /\ UNCHANGED <<held, built, used>>

\* The volume group is removed from the host.
Tear(c) ==
  /\ object[c] = "deleting" /\ c \in built \ used
  /\ built' = built \ {c}
  /\ UNCHANGED <<object, held, used>>

\* The finalizer is removed; it may have been the last one.
Release(c) ==
  /\ object[c] = "deleting" /\ c \in held \ built
  /\ held' = held \ {c}
  /\ \E o \in {"deleting", "none"} : object' = [object EXCEPT ![c] = o]
  /\ UNCHANGED <<built, used>>

\* The last finalizer, of another node, is removed.
Vanish(c) ==
  /\ object[c] = "deleting" /\ c \notin held
  /\ object' = [object EXCEPT ![c] = "none"]
  /\ UNCHANGED <<held, built, used>>

Next ==
  \/ \E c \in Classes : \/ Create(c) \/ Hold(c) \/ Build(c) \/ Use(c)
                        \/ Tear(c) \/ Release(c) \/ Vanish(c)
  \/ \E cs \in SUBSET Classes : RequestDeletion(cs)

Spec == Init /\ [][Next]_vars
=============================================================================
