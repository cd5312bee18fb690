------------------------ MODULE DeviceClasses_proofs ------------------------
(***************************************************************************)
(* Theorems about DeviceClasses, for all classes, candidates and bounds:   *)
(* admitted updates never contradict what was built before.                *)
(***************************************************************************)
EXTENDS DeviceClasses, TLAPS, FunctionTheorems, FiniteSetTheorems, SequenceTheorems

\* The provers a leaf is given to when it names none: most are first-order and
\* go to Zenon, the rest (arithmetic, records, sequences) to the SMT solver.
USE Zenon, SMTT(30)

\* What no admitted update changes of a class in its LVMVolumeGroup, ...
SameShape(a, b) ==
  /\ a.pool = NoPool <=> b.pool = NoPool
  /\ b.pool # NoPool => a.pool.chunkPolicy = b.pool.chunkPolicy /\ a.pool.chunk = b.pool.chunk
  /\ a.raid = b.raid

\* ... and in its StorageClass.
SameClass(s, dc) ==
  /\ s.reclaim = Reclaim(dc) /\ s.binding = Binding(dc)
  /\ s.params = Params(dc) /\ s.fstype = dc.fstype

Built == [chunk : Int, meta : Int, raid : Raids]
ClassObjects == [reclaim : {"Delete", "Retain"}, binding : {"WaitForFirstConsumer", "Immediate"},
                 params : SUBSET (STRING \cup OwnedKeys), fstype : STRING, default : BOOLEAN]
WellFormed(dc) == dc \in Configs /\ (~dc.selector => dc.paths = <<>> /\ dc.optional = <<>>)

Types ==
  /\ DOMAIN spec \subseteq Classes
  /\ \A c \in DOMAIN spec : WellFormed(spec[c])
  /\ group \in [Classes -> Configs \cup {Absent}]
  /\ dying \subseteq {c \in Classes : group[c] # Absent}
  /\ sc \in [Classes -> ClassObjects \cup {Absent}]
  /\ host \in [Classes -> Built \cup {NoGroup}]
  /\ kept \subseteq DOMAIN spec

\* A class that was added when nothing was left of an earlier one.
KeptFits ==
  \A c \in kept :
    /\ c \notin dying
    /\ group[c] # Absent => SameShape(group[c], spec[c])
    /\ host[c] # NoGroup =>
         /\ group[c] # Absent
         /\ group[c].pool # NoPool => VerifyChunkSizeForPolicy(group[c].pool, host[c])
         /\ group[c].raid = host[c].raid
    /\ sc[c] # Absent => SameClass(sc[c], spec[c])

Checked == ChecksOfSpec(spec)

Inv == Types /\ KeptFits /\ Checked

-----------------------------------------------------------------------------
(* What is absent is not a configuration, and so on.                        *)

LEMMA NotAbsent ==
  /\ \A dc \in Configs : dc # Absent
  /\ \A o \in ClassObjects : o # Absent
  /\ \A b \in Built : b # NoGroup
<1>1. ASSUME NEW dc \in Configs PROVE dc # Absent
  <2>1. "pool" \in DOMAIN dc
    BY DEF Configs
  <2>2. "pool" \notin DOMAIN Absent
    BY DEF Absent
  <2> QED BY <2>1, <2>2
<1>2. ASSUME NEW o \in ClassObjects PROVE o # Absent
  <2>1. "params" \in DOMAIN o
    BY DEF ClassObjects
  <2>2. "params" \notin DOMAIN Absent
    BY DEF Absent
  <2> QED BY <2>1, <2>2
<1>3. ASSUME NEW b \in Built PROVE b # NoGroup
  <2>1. "meta" \in DOMAIN b
    BY DEF Built
  <2>2. "meta" \notin DOMAIN NoGroup
    BY DEF NoGroup
  <2> QED BY <2>1, <2>2
<1> QED BY <1>1, <1>2, <1>3

LEMMA CandidatesFit ==
  ASSUME NEW s \in UserSpecs
  PROVE  DOMAIN s \subseteq Classes /\ \A c \in DOMAIN s : WellFormed(s[c])
<1>1. PICK S \in SUBSET Classes : s \in [S -> UNION {Candidates[c] : c \in S}]
  BY DEF UserSpecs, Specs
<1>2. DOMAIN s = S
  BY <1>1
<1>3. ASSUME NEW c \in DOMAIN s PROVE WellFormed(s[c])
  <2>1. s[c] \in Candidates[c]
    BY DEF UserSpecs
  <2>2. c \in Classes
    BY <1>2
  <2> QED BY <2>1, <2>2, CandidatesAssumption DEF WellFormed
<1> QED BY <1>2, <1>3

LEMMA PoolSizes ==
  ASSUME NEW p \in Pools, p # NoPool
  PROVE  ConvertChunkSize(p) \in Int /\ ConvertMetadataSize(p) \in Int
<1>1. p \in [name : STRING, percent : Nat, chunkPolicy : {"Host", "Static"}, chunk : Sizes,
             metaPolicy : {"Host", "Static"}, meta : Sizes]
  BY DEF Pools
<1>2. p.chunk \in Int /\ p.meta \in Int
  BY <1>1 DEF Sizes, Unset
<1>3. ChunkDefault \in Int /\ MetaDefault \in Int /\ HostChunk \in Int /\ HostMeta \in Int
  BY LimitsAssumption, CandidatesAssumption
<1> QED BY <1>2, <1>3 DEF ConvertChunkSize, ConvertMetadataSize, Deref
-----------------------------------------------------------------------------
(* Updates.                                                                 *)

LEMMA ShapeKept ==
  ASSUME NEW a, NEW old, NEW new, SameShape(a, old),
         ThinPoolConfigKept(old, new), RAIDConfigKept(old, new)
  PROVE  SameShape(a, new)
<1>1. new.pool = NoPool <=> old.pool = NoPool
  BY DEF ThinPoolConfigKept
<1>2. new.pool # NoPool => new.pool.chunkPolicy = old.pool.chunkPolicy /\ new.pool.chunk = old.pool.chunk
  BY DEF ThinPoolConfigKept
<1> QED BY <1>1, <1>2 DEF SameShape, RAIDConfigKept

LEMMA ClassKept ==
  ASSUME NEW s, NEW old, NEW new, SameClass(s, old),
         ValidateStorageClassOptionsUpgrade(old, new), TransitionRules(old, new)
  PROVE  SameClass(s, new)
<1>1. Reclaim(new) = Reclaim(old) /\ Binding(new) = Binding(old)
  BY DEF ValidateStorageClassOptionsUpgrade, TransitionRules, PlainOptions, Reclaim, Binding
<1>2. Params(new) = Params(old)
  BY DEF ValidateStorageClassOptionsUpgrade, TransitionRules, PlainOptions, Params
<1> QED BY <1>1, <1>2 DEF SameClass, TransitionRules

\* Default only sets the policy.
LEMMA DefaultFits ==
  ASSUME NEW s, \A c \in DOMAIN s : WellFormed(s[c])
  PROVE  DOMAIN Default(s) = DOMAIN s /\ \A c \in DOMAIN s : WellFormed(Default(s)[c])
<1>1. DOMAIN Default(s) = DOMAIN s
  BY DEF Default
<1>2. ASSUME NEW c \in DOMAIN s PROVE WellFormed(Default(s)[c])
  <2>1. WellFormed([s[c] EXCEPT !.policy = "Static"])
    BY DEF WellFormed, Configs
  <2> QED BY <2>1 DEF Default
<1> QED BY <1>1, <1>2

LEMMA UpdateStep ==
  ASSUME Inv, NEW s \in UserSpecs, Update(s)
  PROVE  Inv'
<1>1. Types'
  BY CandidatesFit DEF Inv, Types, Update
<1>2. ASSUME NEW c \in kept', c \in DOMAIN spec
      PROVE  /\ c \in kept
             /\ group[c] # Absent => SameShape(group[c], s[c])
             /\ sc[c] # Absent => SameClass(sc[c], s[c])
  <2>1. c \in kept /\ c \in DOMAIN s
    BY <1>2 DEF Update
  <2>2. ThinPoolConfigKept(spec[c], s[c]) /\ RAIDConfigKept(spec[c], s[c])
    BY <2>1, <1>2 DEF Update, ValidateUpdate
  <2>3. ValidateStorageClassOptionsUpgrade(spec[c], s[c]) /\ TransitionRules(spec[c], s[c])
    BY <2>1, <1>2 DEF Update, ValidateUpdate
  <2>4. group[c] # Absent => SameShape(group[c], s[c])
    BY <2>1, <2>2, ShapeKept DEF Inv, KeptFits
  <2>5. sc[c] # Absent => SameClass(sc[c], s[c])
    BY <2>1, <2>3, ClassKept DEF Inv, KeptFits
  <2> QED BY <2>1, <2>4, <2>5
<1>3. ASSUME NEW c \in kept', c \notin DOMAIN spec
      PROVE  group[c] = Absent /\ sc[c] = Absent /\ host[c] = NoGroup /\ c \notin dying
  BY <1>3 DEF Update, Unused, Inv, Types
<1>4. spec' = s /\ UNCHANGED <<group, dying, sc, host>>
  BY DEF Update
<1>5. KeptFits'
  <2> SUFFICES ASSUME NEW c \in kept'
               PROVE  /\ c \notin dying
                      /\ group[c] # Absent => SameShape(group[c], s[c])
                      /\ host[c] # NoGroup =>
                           /\ group[c] # Absent
                           /\ group[c].pool # NoPool => VerifyChunkSizeForPolicy(group[c].pool, host[c])
                           /\ group[c].raid = host[c].raid
                      /\ sc[c] # Absent => SameClass(sc[c], s[c])
    BY <1>4 DEF KeptFits, SameShape, SameClass, VerifyChunkSizeForPolicy, ConvertChunkSize, Deref,
               Reclaim, Binding, Params
  <2>1. CASE c \in DOMAIN spec
    BY <2>1, <1>2 DEF Inv, KeptFits
  <2>2. CASE c \notin DOMAIN spec
    BY <2>2, <1>3
  <2> QED BY <2>1, <2>2
<1>6. Checked'
  <2>1. ChecksOfSpec(s)
    BY DEF Update, ValidateUpdate
  <2>2. Checked' <=> ChecksOfSpec(spec')
    BY DEF Checked, ChecksOfSpec, VerifyDeviceClass, VerifyRAIDConfig, VerifyPathsAreNotEmpty,
           VerifyAbsolutePath, VerifyNoDeviceOverlap, VerifyFstype, ValidateAdditionalParamsAndLabels
  <2> QED BY <2>1, <2>2, <1>4
<1> QED BY <1>1, <1>5, <1>6 DEF Inv

\* Nothing exists before the LVMCluster does.
Fresh == ~exists => \A c \in Classes : Unused(c) /\ c \notin dying

LEMMA CreateStep ==
  ASSUME Inv, Fresh, NEW s \in UserSpecs, Create(s)
  PROVE  Inv'
<1>1. spec' = Default(s) /\ kept' = DOMAIN s /\ UNCHANGED <<group, dying, sc, host>>
  BY DEF Create
<1>2. DOMAIN s \subseteq Classes /\ DOMAIN Default(s) = DOMAIN s
      /\ \A c \in DOMAIN s : WellFormed(Default(s)[c])
  BY CandidatesFit, DefaultFits
<1>3. Types'
  BY <1>1, <1>2 DEF Inv, Types
<1>4. \A c \in kept' : group[c] = Absent /\ sc[c] = Absent /\ host[c] = NoGroup /\ c \notin dying
  BY <1>1, <1>2 DEF Create, Fresh, Unused
<1>5. KeptFits'
  BY <1>1, <1>4 DEF KeptFits
<1>6. Checked'
  <2>1. ChecksOfSpec(Default(s))
    BY DEF Create, ValidateCreate
  <2>2. Checked' <=> ChecksOfSpec(spec')
    BY DEF Checked, ChecksOfSpec, VerifyDeviceClass, VerifyRAIDConfig, VerifyPathsAreNotEmpty,
           VerifyAbsolutePath, VerifyNoDeviceOverlap, VerifyFstype, ValidateAdditionalParamsAndLabels
  <2> QED BY <2>1, <2>2, <1>1
<1> QED BY <1>3, <1>5, <1>6 DEF Inv

-----------------------------------------------------------------------------
(* The operator and the vgmanager. None of their steps changes the spec.    *)

LEMMA SpecKept ==
  ASSUME Checked, UNCHANGED spec
  PROVE  Checked'
<1>1. Checked' <=> ChecksOfSpec(spec')
  BY DEF Checked, ChecksOfSpec, VerifyDeviceClass, VerifyRAIDConfig, VerifyPathsAreNotEmpty,
         VerifyAbsolutePath, VerifyNoDeviceOverlap, VerifyFstype, ValidateAdditionalParamsAndLabels
<1> QED BY <1>1 DEF Checked

LEMMA GroupFits ==
  ASSUME Types, NEW c \in DOMAIN spec
  PROVE  /\ VolumeGroupOf(c) \in Configs
         /\ VolumeGroupOf(c).pool = spec[c].pool
         /\ VolumeGroupOf(c).raid = spec[c].raid
<1>1. spec[c] \in Configs
  BY DEF Types, WellFormed
<1> QED BY <1>1 DEF VolumeGroupOf, Configs

LEMMA ObjectFits ==
  ASSUME Types, NEW c \in DOMAIN spec, NEW name
  PROVE  StorageClassOf(c, name) \in ClassObjects /\ SameClass(StorageClassOf(c, name), spec[c])
<1>1. spec[c].fstype \in STRING /\ spec[c].options \in Options
  BY DEF Types, WellFormed, Configs
<1>2. Reclaim(spec[c]) \in {"Delete", "Retain"}
  BY <1>1 DEF Reclaim, Options
<1>3. Binding(spec[c]) \in {"WaitForFirstConsumer", "Immediate"}
  BY <1>1 DEF Binding, Options
<1>4. Params(spec[c]) \in SUBSET (STRING \cup OwnedKeys)
  <2>1. spec[c].options # NoOptions => spec[c].options.params \in SUBSET STRING
    BY <1>1 DEF Options
  <2> QED BY <2>1 DEF Params
<1> QED BY <1>1, <1>2, <1>3, <1>4 DEF StorageClassOf, ClassObjects, SameClass

LEMMA ReconcileStep ==
  ASSUME Inv, Reconcile
  PROVE  Inv'
<1>1. PICK name \in ListedDefaults \cup {"unlisted"}, patched \in SUBSET DOMAIN spec,
           removed \in SUBSET (Classes \ DOMAIN spec) :
        /\ \A c \in removed : group[c] # Absent
        /\ sc' = [c \in Classes |-> IF c \in patched THEN StorageClassOf(c, name)
                                    ELSE IF c \in removed THEN Absent ELSE sc[c]]
        /\ group' = [c \in Classes |-> IF c \in DOMAIN spec THEN VolumeGroupOf(c) ELSE group[c]]
        /\ dying' = dying \cup removed
  <2>1. PICK name \in ListedDefaults \cup {"unlisted"}, patched \in SUBSET DOMAIN spec, failed \in BOOLEAN :
          LET done == ~failed /\ \A c \in DOMAIN spec : Patchable(c)
              removed == {c \in Classes \ DOMAIN spec : group[c] # Absent} IN
          /\ sc' = [c \in Classes |->
                      IF c \in patched THEN StorageClassOf(c, name)
                      ELSE IF done /\ c \in removed THEN Absent ELSE sc[c]]
          /\ group' = [c \in Classes |-> IF c \in DOMAIN spec THEN VolumeGroupOf(c) ELSE group[c]]
          /\ dying' = dying \cup (IF done THEN removed ELSE {})
    BY DEF Reconcile
  <2>2. CASE ~failed /\ \A c \in DOMAIN spec : Patchable(c)
    <3> WITNESS name \in ListedDefaults \cup {"unlisted"}, patched \in SUBSET DOMAIN spec,
                {c \in Classes \ DOMAIN spec : group[c] # Absent} \in SUBSET (Classes \ DOMAIN spec)
    <3> QED BY <2>1, <2>2
  <2>3. CASE ~(~failed /\ \A c \in DOMAIN spec : Patchable(c))
    <3> WITNESS name \in ListedDefaults \cup {"unlisted"}, patched \in SUBSET DOMAIN spec,
                {} \in SUBSET (Classes \ DOMAIN spec)
    <3> QED BY <2>1, <2>3
  <2> QED BY <2>2, <2>3
<1>2. UNCHANGED <<spec, host, kept>>
  BY DEF Reconcile
<1>3. Types'
  <2>1. group' \in [Classes -> Configs \cup {Absent}]
    BY <1>1, GroupFits DEF Inv, Types
  <2>2. sc' \in [Classes -> ClassObjects \cup {Absent}]
    BY <1>1, ObjectFits DEF Inv, Types
  <2>3. dying' \subseteq {c \in Classes : group'[c] # Absent}
    BY <1>1, GroupFits, NotAbsent DEF Inv, Types
  <2> QED BY <1>2, <2>1, <2>2, <2>3 DEF Inv, Types
<1>4. ASSUME NEW c \in kept
      PROVE  /\ c \notin dying' /\ group'[c] # Absent
             /\ group'[c].pool = spec[c].pool /\ group'[c].raid = spec[c].raid
             /\ sc'[c] # Absent => SameClass(sc'[c], spec[c])
  <2>1. c \in DOMAIN spec /\ c \in Classes /\ c \notin dying
    BY DEF Inv, Types, KeptFits
  <2>2. group'[c] = VolumeGroupOf(c)
    BY <1>1, <2>1
  <2>3. sc'[c] # Absent => SameClass(sc'[c], spec[c])
    BY <1>1, <2>1, ObjectFits DEF Inv, KeptFits
  <2>4. group'[c] # Absent /\ group'[c].pool = spec[c].pool /\ group'[c].raid = spec[c].raid
    BY <2>1, <2>2, GroupFits, NotAbsent DEF Inv
  <2> QED BY <1>1, <2>1, <2>3, <2>4
<1>5. ASSUME NEW c \in kept, host[c] # NoGroup
      PROVE  /\ spec[c].pool # NoPool => VerifyChunkSizeForPolicy(spec[c].pool, host[c])
             /\ spec[c].raid = host[c].raid
  <2>1. /\ group[c].pool # NoPool => VerifyChunkSizeForPolicy(group[c].pool, host[c])
        /\ group[c].raid = host[c].raid
        /\ SameShape(group[c], spec[c])
    BY <1>5 DEF Inv, KeptFits
  <2> QED BY <2>1 DEF SameShape, VerifyChunkSizeForPolicy, ConvertChunkSize
<1>6. KeptFits'
  BY <1>2, <1>4, <1>5 DEF KeptFits, SameShape, SameClass, Reclaim, Binding, Params,
     VerifyChunkSizeForPolicy, ConvertChunkSize
<1> QED BY <1>2, <1>3, <1>6, SpecKept DEF Inv

LEMMA BuildStep ==
  ASSUME Inv, NEW d \in Classes, Build(d)
  PROVE  Inv'
<1> DEFINE p == group[d].pool
<1>1. /\ group[d] # Absent /\ host[d] = NoGroup
      /\ host' = [host EXCEPT ![d] =
           [chunk |-> IF p = NoPool THEN 0 ELSE ConvertChunkSize(p),
            meta |-> IF p = NoPool THEN 0 ELSE ConvertMetadataSize(p),
            raid |-> group[d].raid]]
      /\ UNCHANGED <<spec, group, dying, sc, kept>>
  BY DEF Build
<1>2. group[d] \in Configs /\ p \in Pools /\ group[d].raid \in Raids
  BY <1>1 DEF Inv, Types, Configs
<1>3. host'[d] \in Built /\ host'[d].raid = group[d].raid
      /\ (p # NoPool => host'[d].chunk = ConvertChunkSize(p))
  BY <1>1, <1>2, PoolSizes DEF Inv, Types, Built
<1>4. Types'
  <2>1. host' \in [Classes -> Built \cup {NoGroup}]
    BY <1>1, <1>3 DEF Inv, Types
  <2> QED BY <1>1, <2>1 DEF Inv, Types
<1>5. \A c \in Classes : c # d => host'[c] = host[c]
  BY <1>1 DEF Inv, Types
<1>6. p # NoPool => VerifyChunkSizeForPolicy(p, host'[d])
  BY <1>3 DEF VerifyChunkSizeForPolicy
<1>7. KeptFits'
  <2>1. kept \subseteq Classes
    BY DEF Inv, Types
  <2> SUFFICES ASSUME NEW c \in kept, host'[c] # NoGroup
               PROVE  /\ group[c] # Absent
                      /\ group[c].pool # NoPool => VerifyChunkSizeForPolicy(group[c].pool, host'[c])
                      /\ group[c].raid = host'[c].raid
    BY <1>1, SMTT(60) DEF Inv, KeptFits, SameShape, SameClass, Reclaim, Binding, Params,
       VerifyChunkSizeForPolicy, ConvertChunkSize
  <2>2. CASE c = d
    BY <2>2, <1>1, <1>3, <1>6
  <2>3. CASE c # d
    BY <2>1, <2>3, <1>5 DEF Inv, KeptFits
  <2> QED BY <2>2, <2>3
<1> QED BY <1>1, <1>4, <1>7, SpecKept DEF Inv

LEMMA ExtendStep ==
  ASSUME Inv, NEW d \in Classes, ExtendMetadata(d)
  PROVE  /\ Inv'
         /\ \A c \in Classes : host[c] # NoGroup => host'[c].meta >= host[c].meta
<1> DEFINE p == group[d].pool
<1>1. /\ group[d] # Absent /\ host[d] # NoGroup /\ p # NoPool
      /\ host[d].meta < ConvertMetadataSize(p)
      /\ host' = [host EXCEPT ![d].meta = ConvertMetadataSize(p)]
      /\ UNCHANGED <<spec, group, dying, sc, kept>>
  BY DEF ExtendMetadata
<1>2. p \in Pools /\ host[d] \in Built
  BY <1>1 DEF Inv, Types, Configs
<1>3. ConvertMetadataSize(p) \in Int
  BY <1>1, <1>2, PoolSizes
<1>4. /\ host'[d] \in Built /\ host'[d].chunk = host[d].chunk /\ host'[d].raid = host[d].raid
      /\ host'[d].meta >= host[d].meta
  BY <1>1, <1>2, <1>3 DEF Inv, Types, Built
<1>5. \A c \in Classes : c # d => host'[c] = host[c]
  BY <1>1 DEF Inv, Types
<1>6. Types'
  <2>1. host' \in [Classes -> Built \cup {NoGroup}]
    BY <1>1, <1>4, <1>5 DEF Inv, Types
  <2> QED BY <1>1, <2>1 DEF Inv, Types
<1>7. KeptFits'
  <2>1. kept \subseteq Classes
    BY DEF Inv, Types
  <2> SUFFICES ASSUME NEW c \in kept, host'[c] # NoGroup
               PROVE  /\ group[c] # Absent
                      /\ group[c].pool # NoPool => VerifyChunkSizeForPolicy(group[c].pool, host'[c])
                      /\ group[c].raid = host'[c].raid
    BY <1>1 DEF Inv, KeptFits, SameShape, SameClass, Reclaim, Binding, Params,
       VerifyChunkSizeForPolicy, ConvertChunkSize
  <2>2. CASE c = d
    BY <2>2, <1>1, <1>4 DEF Inv, KeptFits, VerifyChunkSizeForPolicy
  <2>3. CASE c # d
    BY <2>1, <2>3, <1>5 DEF Inv, KeptFits
  <2> QED BY <2>2, <2>3
<1>8. \A c \in Classes : host[c] # NoGroup => host'[c].meta >= host[c].meta
  <2> SUFFICES ASSUME NEW c \in Classes, host[c] # NoGroup, c # d
               PROVE  host'[c].meta >= host[c].meta
    BY <1>4
  <2>1. host[c].meta \in Int
    BY DEF Inv, Types, Built
  <2> QED BY <2>1, <1>5
<1> QED BY <1>1, <1>6, <1>7, <1>8, SpecKept DEF Inv

LEMMA ReleaseStep ==
  ASSUME Inv, NEW d \in Classes, Release(d)
  PROVE  Inv'
<1>1. /\ d \in dying /\ dying' = dying \ {d}
      /\ host' = [host EXCEPT ![d] = NoGroup] /\ group' = [group EXCEPT ![d] = Absent]
      /\ UNCHANGED <<spec, sc, kept>>
  BY DEF Release
<1>2. Types'
  BY <1>1 DEF Inv, Types
<1>3. \A c \in kept : c # d /\ c \notin dying' /\ host'[c] = host[c] /\ group'[c] = group[c]
  BY <1>1 DEF Inv, Types, KeptFits
<1>4. KeptFits'
  BY <1>1, <1>3, SMTT(60) DEF Inv, KeptFits, SameShape, SameClass, Reclaim, Binding, Params,
     VerifyChunkSizeForPolicy, ConvertChunkSize
<1> QED BY <1>1, <1>2, <1>4, SpecKept DEF Inv

LEMMA IdleStep ==
  ASSUME Inv, UNCHANGED <<spec, group, dying, sc, host, kept>>
  PROVE  Inv'
<1>1. Types'
  BY DEF Inv, Types
<1>2. KeptFits'
  BY DEF Inv, KeptFits, SameShape, SameClass, Reclaim, Binding, Params,
     VerifyChunkSizeForPolicy, ConvertChunkSize
<1> QED BY <1>1, <1>2, SpecKept DEF Inv

LEMMA FreshStep ==
  ASSUME Inv, Fresh, [Next]_vars
  PROVE  Fresh'
<1>1. CASE exists'
  BY <1>1 DEF Fresh
<1>2. CASE ~exists' /\ UNCHANGED <<exists, group, dying, sc, host>>
  BY <1>2 DEF Fresh, Unused
<1>3. ~exists' => UNCHANGED <<exists, group, dying, sc, host>>
  <2> SUFFICES ASSUME ~exists'
               PROVE  UNCHANGED <<exists, group, dying, sc, host>>
    OBVIOUS
  <2>1. CASE \E s \in UserSpecs : Create(s) \/ Update(s)
    BY <2>1 DEF Create, Update
  <2>2. CASE OtherDefault \/ UNCHANGED vars
    BY <2>2 DEF OtherDefault, vars
  <2>3. CASE Reconcile
    BY <2>3 DEF Reconcile
  <2>4. CASE \E c \in Classes : Build(c) \/ ExtendMetadata(c) \/ Release(c)
    <3>1. PICK c \in Classes : Build(c) \/ ExtendMetadata(c) \/ Release(c)
      BY <2>4
    <3>2. exists' = exists /\ (group[c] # Absent \/ c \in dying)
      BY <3>1 DEF Build, ExtendMetadata, Release
    <3> QED BY <3>2 DEF Fresh, Unused
  <2> QED BY <2>1, <2>2, <2>3, <2>4 DEF Next
<1> QED BY <1>1, <1>2, <1>3

-----------------------------------------------------------------------------
(* The invariant and what follows from it.                                  *)

LEMMA InitFits ==
  ASSUME Init
  PROVE  Inv /\ Fresh
<1>1. DOMAIN spec = {}
  BY DEF Init
<1>2. Types /\ Fresh
  BY <1>1 DEF Init, Types, Fresh, Unused
<1>3. KeptFits
  BY DEF Init, KeptFits
<1>4. Checked
  <2>1. {c \in DOMAIN spec : spec[c].default} = {}
    BY <1>1
  <2>2. VerifyDeviceClass(spec)
    BY <2>1, FS_EmptySet DEF VerifyDeviceClass
  <2> QED
    BY <1>1, <2>2 DEF Checked, ChecksOfSpec, VerifyRAIDConfig, VerifyPathsAreNotEmpty,
       VerifyAbsolutePath, VerifyNoDeviceOverlap, VerifyFstype, ValidateAdditionalParamsAndLabels
<1> QED BY <1>2, <1>3, <1>4 DEF Inv

LEMMA InvStep ==
  ASSUME Inv, Fresh, [Next]_vars
  PROVE  Inv'
<1>1. CASE \E s \in UserSpecs : Create(s) \/ Update(s)
  BY <1>1, CreateStep, UpdateStep
<1>2. CASE OtherDefault \/ UNCHANGED vars
  BY <1>2, IdleStep DEF OtherDefault, vars
<1>3. CASE Reconcile
  BY <1>3, ReconcileStep
<1>4. CASE \E c \in Classes : Build(c) \/ ExtendMetadata(c) \/ Release(c)
  BY <1>4, BuildStep, ExtendStep, ReleaseStep
<1> QED BY <1>1, <1>2, <1>3, <1>4 DEF Next

\* The invariant: types, what an admitted update keeps of a class, and the
\* checks of the webhook on the current spec.
THEOREM Invariant == Spec => [](Inv /\ Fresh)
<1>1. Init => Inv /\ Fresh
  BY InitFits
<1>2. Inv /\ Fresh /\ [Next]_vars => (Inv /\ Fresh)'
  BY InvStep, FreshStep
<1> QED BY <1>1, <1>2, PTL DEF Spec

\* Whatever updates the webhook admits, the vgmanager never finds that a volume
\* group it built contradicts the configuration of its class.
THEOREM UpdatesFit == Spec => []BuiltFitsConfig
<1>1. Inv => BuiltFitsConfig
  BY DEF Inv, KeptFits, BuiltFitsConfig
<1> QED BY <1>1, Invariant, PTL

\* No admitted update changes what is immutable of a StorageClass, so the
\* operator can always patch it.
THEOREM OptionsFit == Spec => []StorageClassPatchable
<1>1. ASSUME Inv PROVE StorageClassPatchable
  <2> SUFFICES ASSUME NEW c \in kept \cap DOMAIN spec, sc[c] # Absent
               PROVE  [sc[c] EXCEPT !.default = FALSE] = [StorageClassOf(c, "none") EXCEPT !.default = FALSE]
    BY DEF StorageClassPatchable, Patchable
  <2>1. sc[c] \in ClassObjects /\ SameClass(sc[c], spec[c])
    BY <1>1 DEF Inv, Types, KeptFits
  <2>2. StorageClassOf(c, "none") \in ClassObjects /\ SameClass(StorageClassOf(c, "none"), spec[c])
    BY <1>1, ObjectFits DEF Inv
  <2>3. ASSUME NEW a \in ClassObjects, NEW b \in ClassObjects,
               a.reclaim = b.reclaim, a.binding = b.binding, a.params = b.params, a.fstype = b.fstype
        PROVE  [a EXCEPT !.default = FALSE] = [b EXCEPT !.default = FALSE]
    BY <2>3 DEF ClassObjects
  <2> QED BY <2>1, <2>2, <2>3 DEF SameClass
<1> QED BY <1>1, Invariant, PTL

\* The vgmanager extends the metadata of a thin pool and never shrinks it.
THEOREM MetadataGrows == Spec => MetadataNeverShrinks
<1>1. ASSUME Inv, [Next]_vars
      PROVE  [\A c \in Classes : host[c] # NoGroup /\ host'[c] # NoGroup => host'[c].meta >= host[c].meta]_vars
  <2> SUFFICES ASSUME Next
               PROVE  \A c \in Classes : host[c] # NoGroup /\ host'[c] # NoGroup => host'[c].meta >= host[c].meta
    BY <1>1
  <2>1. \A c \in Classes : host[c] # NoGroup => host[c].meta \in Int
    BY <1>1 DEF Inv, Types, Built
  <2>2. CASE host' = host
    BY <2>1, <2>2
  <2>3. CASE \E d \in Classes : Build(d) \/ Release(d)
    <3>1. PICK d \in Classes : Build(d) \/ Release(d)
      BY <2>3
    <3>2. host[d] = NoGroup \/ host'[d] = NoGroup
      BY <3>1, <1>1 DEF Build, Release, Inv, Types
    <3>3. \A c \in Classes : c # d => host'[c] = host[c]
      BY <3>1, <1>1 DEF Build, Release, Inv, Types
    <3> QED BY <2>1, <3>2, <3>3
  <2>4. CASE \E d \in Classes : ExtendMetadata(d)
    BY <2>4, <1>1, ExtendStep
  <2> QED BY <2>2, <2>3, <2>4 DEF Next, Create, Update, OtherDefault, Reconcile
<1> QED BY <1>1, Invariant, PTL DEF Spec, MetadataNeverShrinks

LEMMA ListedOnce ==
  ASSUME NEW q \in Seq(Devices), \A i, j \in DOMAIN q : q[i] = q[j] => i = j
  PROVE  Cardinality(Elements(q)) = Len(q)
<1>1. Len(q) \in Nat /\ DOMAIN q = 1 .. Len(q) /\ q \in [1 .. Len(q) -> Elements(q)]
  BY LenProperties DEF Elements
<1>2. q \in Bijection(1 .. Len(q), Elements(q))
  BY <1>1, Fun_IsBij DEF Elements
<1>3. ExistsBijection(1 .. Len(q), Elements(q))
  BY <1>2 DEF ExistsBijection
<1>4. IsFiniteSet(1 .. Len(q)) /\ Cardinality(1 .. Len(q)) = Len(q)
  BY <1>1, FS_Interval
<1> QED BY <1>3, <1>4, FS_Bijection

LEMMA ListedParts ==
  ASSUME NEW dc \in Configs
  PROVE  /\ Listed(dc) \in Seq(Devices)
         /\ \A i \in DOMAIN dc.paths, j \in DOMAIN dc.optional :
              /\ i \in DOMAIN Listed(dc) /\ Listed(dc)[i] = dc.paths[i]
              /\ Len(dc.paths) + j \in DOMAIN Listed(dc)
              /\ Listed(dc)[Len(dc.paths) + j] = dc.optional[j]
              /\ i # Len(dc.paths) + j
<1>1. dc.paths \in Seq(Devices) /\ dc.optional \in Seq(Devices)
  BY DEF Configs
<1>2. Listed(dc) \in Seq(Devices)
  BY <1>1 DEF Listed
<1>3. Len(Listed(dc)) = Len(dc.paths) + Len(dc.optional)
      /\ \A i \in 1 .. Len(dc.paths) + Len(dc.optional) :
           Listed(dc)[i] = IF i <= Len(dc.paths) THEN dc.paths[i] ELSE dc.optional[i - Len(dc.paths)]
  BY <1>1, ConcatProperties DEF Listed
<1>4. /\ DOMAIN dc.paths = 1 .. Len(dc.paths) /\ Len(dc.paths) \in Nat
      /\ DOMAIN dc.optional = 1 .. Len(dc.optional) /\ Len(dc.optional) \in Nat
      /\ DOMAIN Listed(dc) = 1 .. Len(Listed(dc))
  BY <1>1, <1>2, LenProperties
<1>5. ASSUME NEW i \in DOMAIN dc.paths, NEW j \in DOMAIN dc.optional
      PROVE  /\ i \in DOMAIN Listed(dc) /\ Listed(dc)[i] = dc.paths[i]
             /\ Len(dc.paths) + j \in DOMAIN Listed(dc)
             /\ Listed(dc)[Len(dc.paths) + j] = dc.optional[j]
             /\ i # Len(dc.paths) + j
  <2> DEFINE m == Len(dc.paths)
             n == Len(dc.optional)
  <2>1. i \in 1 .. m /\ j \in 1 .. n /\ m \in Nat /\ n \in Nat
    BY <1>4
  <2> HIDE DEF m, n
  <2>2. ASSUME NEW a \in Nat, NEW b \in Nat, NEW x \in 1 .. a, NEW y \in 1 .. b
        PROVE  /\ x \in 1 .. a + b /\ x <= a
               /\ a + y \in 1 .. a + b /\ ~(a + y <= a) /\ (a + y) - a = y /\ x # a + y
    OBVIOUS
  <2>3. i \in 1 .. m + n /\ i <= m /\ m + j \in 1 .. m + n /\ ~(m + j <= m) /\ (m + j) - m = j /\ i # m + j
    BY <2>1, <2>2
  <2> QED BY <1>3, <1>4, <2>3 DEF m, n
<1> QED BY <1>2, <1>5

\* What the other modules take for granted of a spec follows from what the
\* webhook checks on create and on every update.
THEOREM AdmittedFits == Spec => []AdmittedAsAssumed
<1>1. ASSUME Inv PROVE AdmittedAsAssumed
  <2>1. /\ VerifyRAIDConfig(spec) /\ VerifyPathsAreNotEmpty(spec) /\ VerifyNoDeviceOverlap(spec)
        /\ \A c \in DOMAIN spec : WellFormed(spec[c])
    BY <1>1 DEF Inv, Types, Checked, ChecksOfSpec
  <2>2. ASSUME NEW c \in DOMAIN spec, spec[c].selector
        PROVE  \A i, j \in DOMAIN Listed(spec[c]) : Listed(spec[c])[i] = Listed(spec[c])[j] => i = j
    BY <2>1, <2>2 DEF VerifyNoDeviceOverlap
  <2>3. ASSUME NEW c \in DOMAIN spec, spec[c].raid # NoRaid
        PROVE  spec[c].pool = NoPool /\ Cardinality(Elements(Listed(spec[c]))) >= MinDeviceCount(spec[c].raid)
    <3>1. /\ spec[c].pool = NoPool /\ spec[c].selector
          /\ Len(Listed(spec[c])) >= MinDeviceCount(spec[c].raid)
      BY <2>1, <2>3 DEF VerifyRAIDConfig, RAIDAllowed, HasExplicitPaths
    <3>2. Cardinality(Elements(Listed(spec[c]))) = Len(Listed(spec[c]))
      BY <2>1, <2>2, <3>1, ListedOnce, ListedParts DEF WellFormed
    <3> QED BY <3>1, <3>2
  <2>4. ASSUME NEW c \in DOMAIN spec
        PROVE  HasExplicitPaths(spec[c]) \/ DOMAIN spec = {c}
    BY <2>1 DEF VerifyPathsAreNotEmpty, HasExplicitPaths
  <2>5. ASSUME NEW c \in DOMAIN spec
        PROVE  Elements(spec[c].paths) \cap Elements(spec[c].optional) = {}
    <3>1. CASE spec[c].selector
      <4> SUFFICES ASSUME NEW i \in DOMAIN spec[c].paths, NEW j \in DOMAIN spec[c].optional,
                          spec[c].paths[i] = spec[c].optional[j]
                   PROVE  FALSE
        BY DEF Elements
      <4> QED BY <2>1, <2>2, <3>1, ListedParts DEF WellFormed
    <3>2. CASE ~spec[c].selector
      <4>1. spec[c].paths = <<>>
        BY <2>1, <3>2 DEF WellFormed
      <4> QED BY <4>1 DEF Elements
    <3>3. spec[c].selector \in BOOLEAN
      BY <2>1 DEF WellFormed, Configs
    <3> QED BY <3>1, <3>2
  <2>6. ASSUME NEW c \in DOMAIN spec, NEW d \in DOMAIN spec, c # d, spec[c].node = spec[d].node
        PROVE  Elements(Listed(spec[c])) \cap Elements(Listed(spec[d])) = {}
    <3>1. spec[c].selector /\ spec[d].selector
      BY <2>1, <2>6 DEF VerifyPathsAreNotEmpty
    <3> QED BY <2>1, <2>6, <3>1 DEF VerifyNoDeviceOverlap, Elements
  <2> QED BY <2>3, <2>4, <2>5, <2>6 DEF AdmittedAsAssumed
<1> QED BY <1>1, Invariant, PTL
=============================================================================
