---------------------------- MODULE DeviceClasses ----------------------------
(***************************************************************************)
(* What becomes of the configuration of a device class: users create and   *)
(* update the LVMCluster through the webhooks (Admission), the operator    *)
(* copies each class to its LVMVolumeGroup and StorageClass, and the       *)
(* vgmanager of a node builds a volume group from the LVMVolumeGroup and   *)
(* compares it with the configuration later on.                            *)
(*                                                                         *)
(* A reconcile of the operator is one step: the order of its requests is   *)
(* module LVMCluster's.  The volume group is the one of one node that all  *)
(* node selectors of the instance match.                                   *)
(***************************************************************************)
EXTENDS Admission

CONSTANTS
  Classes,     \* names of device classes
  Candidates,  \* Candidates[c]: configurations users try for class c
  HostChunk, HostMeta,  \* sizes LVM chooses under the policy Host
  MaxUpdates,  \* how often users change the LVMCluster
  MaxErrors    \* how many reconciles of the operator meet a failed request

ASSUME CandidatesAssumption ==
  /\ HostChunk \in Nat /\ HostMeta \in Nat
  /\ \A c \in Classes : Candidates[c] \subseteq
       {dc \in Configs : ~dc.selector => dc.paths = <<>> /\ dc.optional = <<>>}

Absent == [default |-> "absent"]
NoGroup == [chunk |-> Unset]

VARIABLES
  spec,     \* the device classes of the LVMCluster
  exists,   \* there is an LVMCluster
  group,    \* the spec of the LVMVolumeGroup of each class, or Absent
  dying,    \* LVMVolumeGroups that are being deleted
  sc,       \* the StorageClass of each class, or Absent
  foreign,  \* there is a default StorageClass of somebody else
  host,     \* the volume group of each class on the node, or NoGroup
  updates,  \* how often users have changed it
  errors,   \* how many reconciles met a failed request
  kept      \* history: classes that were added to the spec when nothing was
            \* left of an earlier class of that name

vars == <<spec, exists, group, dying, sc, foreign, host, updates, errors, kept>>

Specs == UNION {[S -> UNION {Candidates[c] : c \in S}] : S \in SUBSET Classes}
\* The specs in which every class has a configuration of its own.
UserSpecs == {s \in Specs : \A c \in DOMAIN s : s[c] \in Candidates[c]}

Init ==
  /\ spec = <<>> /\ exists = FALSE
  /\ group = [c \in Classes |-> Absent] /\ dying = {}
  /\ sc = [c \in Classes |-> Absent] /\ foreign = FALSE
  /\ host = [c \in Classes |-> NoGroup]
  /\ updates = 0 /\ errors = 0 /\ kept = {}

-----------------------------------------------------------------------------
(* Users.                                                                   *)

Unused(c) == group[c] = Absent /\ sc[c] = Absent /\ host[c] = NoGroup

Create(s) ==
  /\ ~exists /\ ValidateCreate(Default(s))
  /\ exists' = TRUE /\ spec' = Default(s) /\ kept' = DOMAIN s
  /\ UNCHANGED <<group, dying, sc, foreign, host, updates, errors>>

Update(s) ==
  /\ exists /\ s # spec
  /\ updates < MaxUpdates /\ updates' = updates + 1
  /\ ValidateUpdate(spec, s)
  /\ \A c \in DOMAIN spec \cap DOMAIN s : TransitionRules(spec[c], s[c])
  /\ spec' = s
  /\ kept' = {c \in DOMAIN s : IF c \in DOMAIN spec THEN c \in kept ELSE Unused(c)}
  /\ UNCHANGED <<exists, group, dying, sc, foreign, host, errors>>

\* Some other StorageClass becomes the default one, or stops being it.
OtherDefault ==
  /\ foreign' = ~foreign
  /\ UNCHANGED <<spec, exists, group, dying, sc, host, updates, errors, kept>>

-----------------------------------------------------------------------------
(* The operator.                                                            *)

Binding(dc) == IF dc.options = NoOptions THEN "WaitForFirstConsumer" ELSE dc.options.binding
Reclaim(dc) == IF dc.options = NoOptions THEN "Delete" ELSE dc.options.reclaim
Params(dc) == (IF dc.options = NoOptions THEN {} ELSE dc.options.params) \cup OwnedKeys

\* getTopolvmStorageClasses: name is the default StorageClass that was listed
\* first, or "none".
StorageClassOf(c, name) ==
  [reclaim |-> Reclaim(spec[c]), binding |-> Binding(spec[c]),
   params |-> Params(spec[c]), fstype |-> spec[c].fstype,
   default |-> spec[c].default /\ name \in {"none", c}]

\* Variant with a bug: a default of the operator itself counts as foreign.
ListedDefaultsAll ==
  LET all == {c \in Classes : sc[c] # Absent /\ sc[c].default} IN
  IF foreign \/ all # {} THEN {"foreign"} ELSE {"none"}

ListedDefaults ==
  LET own == {c \in Classes : sc[c] # Absent /\ sc[c].default} IN
  IF foreign \/ own # {} THEN own \cup (IF foreign THEN {"foreign"} ELSE {}) ELSE {"none"}

\* The API server refuses to change anything of a StorageClass but its metadata.
Patchable(c) ==
  sc[c] = Absent \/ [sc[c] EXCEPT !.default = FALSE] = [StorageClassOf(c, "none") EXCEPT !.default = FALSE]

\* lvmVolumeGroups: the only class is the default one as well.
VolumeGroupOf(c) == [spec[c] EXCEPT !.default = spec[c].default \/ DOMAIN spec = {c}]

\* The units run concurrently. The StorageClass unit stops at the first class
\* it cannot patch, because of what it would change or of a failed request; then
\* the objects of removed classes are not deleted. Without a list of
\* StorageClasses ("unlisted") no class becomes the default one.
Reconcile ==
  /\ exists
  /\ \E name \in ListedDefaults \cup {"unlisted"}, patched \in SUBSET DOMAIN spec, failed \in BOOLEAN :
       LET done == ~failed /\ \A c \in DOMAIN spec : Patchable(c)
           removed == {c \in Classes \ DOMAIN spec : group[c] # Absent} IN
       /\ errors' = IF failed \/ name = "unlisted" THEN errors + 1 ELSE errors
       /\ errors' <= MaxErrors
       /\ \A c \in patched : Patchable(c)
       /\ done => patched = DOMAIN spec
       /\ sc' = [c \in Classes |->
                   IF c \in patched THEN StorageClassOf(c, name)
                   ELSE IF done /\ c \in removed THEN Absent ELSE sc[c]]
       /\ group' = [c \in Classes |-> IF c \in DOMAIN spec THEN VolumeGroupOf(c) ELSE group[c]]
       /\ dying' = dying \cup (IF done THEN removed ELSE {})
  /\ UNCHANGED <<spec, exists, foreign, host, updates, kept>>

-----------------------------------------------------------------------------
(* The vgmanager.                                                           *)

ConvertChunkSize(p) == IF p.chunkPolicy = "Host" THEN HostChunk ELSE Deref(p.chunk, ChunkDefault)
ConvertMetadataSize(p) == IF p.metaPolicy = "Host" THEN HostMeta ELSE Deref(p.meta, MetaDefault)

VerifyChunkSizeForPolicy(p, built) ==
  p.chunkPolicy = "Host" \/ built.chunk = ConvertChunkSize(p)

\* addThinPoolToVG
Build(c) ==
  /\ group[c] # Absent /\ host[c] = NoGroup /\ c \notin dying
  /\ LET p == group[c].pool IN
     host' = [host EXCEPT ![c] =
       [chunk |-> IF p = NoPool THEN 0 ELSE ConvertChunkSize(p),
        meta |-> IF p = NoPool THEN 0 ELSE ConvertMetadataSize(p),
        raid |-> group[c].raid]]
  /\ UNCHANGED <<spec, exists, group, dying, sc, foreign, updates, errors, kept>>

\* Variant with a bug: the metadata is resized to the configured size.
ResizeMetadata(c) ==
  /\ group[c] # Absent /\ host[c] # NoGroup /\ group[c].pool # NoPool
  /\ LET p == group[c].pool IN
     /\ VerifyChunkSizeForPolicy(p, host[c]) /\ p.metaPolicy = "Static"
     /\ host[c].meta # ConvertMetadataSize(p)
     /\ host' = [host EXCEPT ![c].meta = ConvertMetadataSize(p)]
  /\ UNCHANGED <<spec, exists, group, dying, sc, foreign, updates, errors, kept>>

\* verifyMetadataSize, once the chunk size was verified.
ExtendMetadata(c) ==
  /\ group[c] # Absent /\ host[c] # NoGroup /\ group[c].pool # NoPool
  /\ LET p == group[c].pool IN
     /\ VerifyChunkSizeForPolicy(p, host[c]) /\ p.metaPolicy = "Static"
     /\ host[c].meta < ConvertMetadataSize(p)
     /\ host' = [host EXCEPT ![c].meta = ConvertMetadataSize(p)]
  /\ UNCHANGED <<spec, exists, group, dying, sc, foreign, updates, errors, kept>>

\* The volume group is removed and the LVMVolumeGroup released.
Release(c) ==
  /\ c \in dying
  /\ host' = [host EXCEPT ![c] = NoGroup]
  /\ group' = [group EXCEPT ![c] = Absent] /\ dying' = dying \ {c}
  /\ UNCHANGED <<spec, exists, sc, foreign, updates, errors, kept>>

-----------------------------------------------------------------------------
Next ==
  \/ \E s \in UserSpecs : Create(s) \/ Update(s)
  \/ OtherDefault \/ Reconcile
  \/ \E c \in Classes : Build(c) \/ ExtendMetadata(c) \/ Release(c)

Spec == Init /\ [][Next]_vars

\* The operator is queued again every minute, or sooner after an error, and the
\* vgmanager finishes what is being deleted.
FairSpec == Spec /\ WF_vars(Reconcile) /\ \A c \in Classes : WF_vars(Release(c))

-----------------------------------------------------------------------------
(* Properties.                                                              *)

\* What the other modules take for granted of a spec holds after any sequence
\* of admitted updates: a RAID class lists enough devices and has no thin pool,
\* only a single class goes without device paths, and no two classes with the
\* same node selector, or two entries of one class, name the same device.
AdmittedAsAssumed ==
  /\ \A c \in DOMAIN spec :
       /\ spec[c].raid # NoRaid =>
            spec[c].pool = NoPool /\ Cardinality(Elements(Listed(spec[c]))) >= MinDeviceCount(spec[c].raid)
       /\ HasExplicitPaths(spec[c]) \/ DOMAIN spec = {c}
       /\ Elements(spec[c].paths) \cap Elements(spec[c].optional) = {}
  /\ \A c, d \in DOMAIN spec : c # d /\ spec[c].node = spec[d].node =>
       Elements(Listed(spec[c])) \cap Elements(Listed(spec[d])) = {}

\* Whatever updates were admitted since the volume group of a class was built,
\* the vgmanager never finds that it contradicts the configuration: the chunk
\* size passes verifyChunkSizeForPolicy and the RAID configuration is the same.
\* (A class that was removed and added again too soon is not covered.)
BuiltFitsConfig ==
  \A c \in kept : group[c] # Absent /\ host[c] # NoGroup =>
    /\ group[c].pool # NoPool => VerifyChunkSizeForPolicy(group[c].pool, host[c])
    /\ group[c].raid = host[c].raid

\* The StorageClass of a class that stayed in the spec can always be patched to
\* the options of the spec: no admitted update changes what is immutable.
StorageClassPatchable == \A c \in kept \cap DOMAIN spec : Patchable(c)

\* The metadata of a thin pool never shrinks, although admitted updates may
\* lower its configured size (by way of the policy Host).
MetadataNeverShrinks ==
  [][\A c \in Classes : host[c] # NoGroup /\ host'[c] # NoGroup => host'[c].meta >= host[c].meta]_vars

\* When a class stays the default class and no default StorageClass stands in
\* its way (of somebody else, or of a class that is in the spec no more), its
\* StorageClass becomes and stays the default one, as long as the StorageClasses
\* of the spec can be patched.
DefaultServed ==
  \A c \in Classes :
    <>[](/\ c \in DOMAIN spec /\ spec[c].default
         /\ ~foreign /\ \A d \in Classes \ DOMAIN spec : sc[d] # Absent => ~sc[d].default
         /\ \A d \in DOMAIN spec : Patchable(d))
      => <>[](sc[c] # Absent /\ sc[c].default)
=============================================================================
