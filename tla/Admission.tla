------------------------------ MODULE Admission ------------------------------
(***************************************************************************)
(* Which specs of an LVMCluster are admitted (lvmcluster_webhook.go and    *)
(* the markers of lvmcluster_types.go).  A spec is a function from the     *)
(* names of its device classes to their configurations:                    *)
(*   default   BOOLEAN                                                     *)
(*   selector  BOOLEAN, there is a deviceSelector, with the lists          *)
(*   paths, optional   of devices, and                                     *)
(*   wipe      "unset", "no" or "yes"                                      *)
(*   node      the nodeSelector, or "all" without one                      *)
(*   pool      NoPool or [name, percent, chunkPolicy, chunk, metaPolicy,   *)
(*             meta], sizes in units or Unset                              *)
(*   raid      NoRaid or [type, mirrors, stripes, stripeSize], or Unset    *)
(*   fstype    a name                                                      *)
(*   policy    "unset", "Static" or "Dynamic"                              *)
(*   options   NoOptions or [reclaim, binding, params, labels]             *)
(* Warnings are left out.                                                  *)
(***************************************************************************)
EXTENDS Integers, Sequences, FiniteSets

CONSTANTS
  Devices,        \* device paths
  Relative,       \* those that do not start with /dev/
  OwnedKeys,      \* parameters and ...
  ReservedLabels, \* ... labels of a StorageClass that the operator sets
  ChunkLimits, MetaLimits,   \* <<least, greatest>> size
  ChunkDefault, MetaDefault  \* sizes used when none is set

Unset == -1
NoPool == [name |-> "none"]
NoRaid == [type |-> "none"]
NoOptions == [reclaim |-> "none"]

Sizes == Nat \cup {Unset}
Pools == {NoPool} \cup
  [name : STRING, percent : Nat, chunkPolicy : {"Host", "Static"}, chunk : Sizes,
   metaPolicy : {"Host", "Static"}, meta : Sizes]
Raids == {NoRaid} \cup
  [type : {"raid1", "raid4", "raid5", "raid6", "raid10"},
   mirrors : Sizes, stripes : Sizes, stripeSize : Sizes]
Options == {NoOptions} \cup
  [reclaim : {"Delete", "Retain"}, binding : {"WaitForFirstConsumer", "Immediate"},
   params : SUBSET STRING, labels : SUBSET STRING]
Configs ==
  [default : BOOLEAN, selector : BOOLEAN, paths : Seq(Devices), optional : Seq(Devices),
   wipe : {"unset", "no", "yes"}, node : STRING, pool : Pools, raid : Raids,
   fstype : STRING, policy : {"unset", "Static", "Dynamic"}, options : Options]

ASSUME LimitsAssumption ==
  /\ \A l \in {ChunkLimits, MetaLimits} : l \in Nat \X Nat /\ l[1] <= l[2]
  /\ ChunkDefault \in ChunkLimits[1] .. ChunkLimits[2]
  /\ MetaDefault \in MetaLimits[1] .. MetaLimits[2]

Elements(s) == {s[i] : i \in DOMAIN s}
Listed(dc) == dc.paths \o dc.optional
HasExplicitPaths(dc) == dc.selector /\ Listed(dc) # <<>>

-----------------------------------------------------------------------------
(* RAID                                                                     *)

Deref(x, default) == IF x = Unset THEN default ELSE x
EffectiveMirrors(rc) == Deref(rc.mirrors, 1)

MinDeviceCount(rc) ==
  CASE rc.type = "raid1" -> EffectiveMirrors(rc) + 1
    [] rc.type \in {"raid4", "raid5"} -> Deref(rc.stripes, 2) + 1
    [] rc.type = "raid6" -> Deref(rc.stripes, 3) + 2
    [] rc.type = "raid10" -> 2 * (EffectiveMirrors(rc) + 1)

PowerOf2(n) == n > 0 /\ \E k \in 0 .. n : 2 ^ k = n

RAIDAllowed(dc) ==
  LET rc == dc.raid
      total == Len(Listed(dc)) IN
  /\ dc.pool = NoPool
  /\ rc.mirrors # Unset => rc.type \in {"raid1", "raid10"}
  /\ rc.stripes # Unset => rc.type # "raid1"
  /\ rc.stripeSize # Unset => rc.type # "raid1" /\ PowerOf2(rc.stripeSize)
  /\ HasExplicitPaths(dc)
  /\ total >= MinDeviceCount(rc)
  /\ rc.type = "raid10" /\ dc.optional = <<>> => total % (EffectiveMirrors(rc) + 1) = 0

VerifyRAIDConfig(spec) == \A c \in DOMAIN spec : spec[c].raid # NoRaid => RAIDAllowed(spec[c])

-----------------------------------------------------------------------------
(* Checks of one spec.                                                      *)

VerifyDeviceClass(spec) == Cardinality({c \in DOMAIN spec : spec[c].default}) <= 1

VerifyPathsAreNotEmpty(spec) ==
  \A c \in DOMAIN spec :
    IF spec[c].selector THEN Listed(spec[c]) # <<>> ELSE DOMAIN spec = {c}

VerifyAbsolutePath(spec) ==
  \A c \in DOMAIN spec : spec[c].selector => Elements(Listed(spec[c])) \cap Relative = {}

\* Variant with a bug: only required paths are compared.
VerifyNoOverlapRequired(spec) ==
  \A c, d \in DOMAIN spec :
    spec[c].node = spec[d].node /\ spec[c].selector /\ spec[d].selector =>
      \A i \in DOMAIN spec[c].paths, j \in DOMAIN spec[d].paths :
        spec[c].paths[i] = spec[d].paths[j] => c = d /\ i = j

\* Among the classes with the same node selector a path is listed once.
VerifyNoDeviceOverlap(spec) ==
  \A c, d \in DOMAIN spec :
    spec[c].node = spec[d].node /\ spec[c].selector /\ spec[d].selector =>
      \A i \in DOMAIN Listed(spec[c]), j \in DOMAIN Listed(spec[d]) :
        Listed(spec[c])[i] = Listed(spec[d])[j] => c = d /\ i = j

VerifyFstype(spec) == \A c \in DOMAIN spec : spec[c].fstype \in {"ext4", "xfs"}

Within(size, limits) == limits[1] <= size /\ size <= limits[2]

VerifyChunkSize(spec) ==
  \A c \in DOMAIN spec : LET p == spec[c].pool IN
    p # NoPool /\ p.chunk # Unset => p.chunkPolicy # "Host" /\ Within(p.chunk, ChunkLimits)

\* An unset size is replaced in the copy under validation only.
VerifyMetadataSize(spec) ==
  \A c \in DOMAIN spec : LET p == spec[c].pool IN
    p # NoPool /\ p.meta # Unset => p.metaPolicy # "Host" /\ Within(p.meta, MetaLimits)

ValidateAdditionalParamsAndLabels(spec) ==
  \A c \in DOMAIN spec : spec[c].options # NoOptions =>
    /\ spec[c].options.params \cap OwnedKeys = {}
    /\ spec[c].options.labels \cap ReservedLabels = {}

ChecksOfSpec(spec) ==
  /\ VerifyDeviceClass(spec) /\ VerifyRAIDConfig(spec)
  /\ VerifyPathsAreNotEmpty(spec) /\ VerifyAbsolutePath(spec)
  /\ VerifyNoDeviceOverlap(spec) /\ VerifyFstype(spec)
  /\ ValidateAdditionalParamsAndLabels(spec)

-----------------------------------------------------------------------------
(* Checks of an update, for a class that the old spec has as well.          *)

PlainOptions(o) == o.reclaim = "Delete" /\ o.binding = "WaitForFirstConsumer" /\ o.params = {}

\* Variant with a bug: only the parameters are compared.
OptionsUpgradeParamsOnly(old, new) ==
  old.options = NoOptions /\ new.options # NoOptions => new.options.params = {}

ValidateStorageClassOptionsUpgrade(old, new) ==
  old.options = NoOptions /\ new.options # NoOptions => PlainOptions(new.options)

\* The transition rules of the CRD, for fields that both versions have. The API
\* server fills in options that are left out.
TransitionRules(old, new) ==
  /\ old.raid # NoRaid /\ new.raid # NoRaid => new.raid = old.raid
  /\ new.fstype = old.fstype
  /\ old.options # NoOptions =>
       /\ new.options # NoOptions
       /\ new.options.reclaim = old.options.reclaim
       /\ new.options.binding = old.options.binding
       /\ new.options.params = old.options.params

\* Variant with a bug: the policy is compared, the chunk size is not.
ThinPoolConfigKeptNoChunk(old, new) ==
  /\ (new.pool = NoPool) = (old.pool = NoPool)
  /\ new.pool # NoPool =>
       new.pool.name = old.pool.name /\ new.pool.percent = old.pool.percent

ThinPoolConfigKept(old, new) ==
  LET p == new.pool
      q == old.pool IN
  /\ (p = NoPool) = (q = NoPool)
  /\ p # NoPool =>
       /\ p.name = q.name /\ p.percent = q.percent
       /\ p.chunkPolicy = q.chunkPolicy /\ p.chunk = q.chunk
       /\ p.metaPolicy = "Static" /\ q.metaPolicy = "Static" =>
            Deref(p.meta, MetaDefault) >= Deref(q.meta, MetaDefault)

RAIDConfigKept(old, new) == new.raid = old.raid
NodeSelectorKept(old, new) == new.node = old.node
ForceWipeKept(old, new) == new.wipe = old.wipe

\* Paths are neither added to a class without, nor all removed.
PathsKept(old, new) == (Listed(old) = <<>>) = (Listed(new) = <<>>)

\* Neither the last nor the default class may be removed.
ValidateDeviceClassRemoval(old, new) ==
  /\ DOMAIN new # {}
  /\ \A c \in DOMAIN old \ DOMAIN new : ~old[c].default

-----------------------------------------------------------------------------
(* The webhooks. Default is registered for create only.                     *)

Default(spec) ==
  [c \in DOMAIN spec |->
     IF spec[c].policy = "unset" /\ ~HasExplicitPaths(spec[c])
     THEN [spec[c] EXCEPT !.policy = "Static"] ELSE spec[c]]

ValidateCreate(spec) ==
  ChecksOfSpec(spec) /\ VerifyChunkSize(spec) /\ VerifyMetadataSize(spec)

ValidateUpdate(old, new) ==
  /\ ChecksOfSpec(new)
  /\ ValidateDeviceClassRemoval(old, new)
  /\ \A c \in DOMAIN old \cap DOMAIN new :
       /\ ValidateStorageClassOptionsUpgrade(old[c], new[c])
       /\ ThinPoolConfigKept(old[c], new[c])
       /\ RAIDConfigKept(old[c], new[c])
       /\ NodeSelectorKept(old[c], new[c])
       /\ ForceWipeKept(old[c], new[c])
       /\ PathsKept(old[c], new[c])

=============================================================================
