----------------------------- MODULE LvmdConfig -----------------------------
(***************************************************************************)
(* The lvmd configuration of one node: the file /etc/topolvm/lvmd.yaml and *)
(* the in-memory copy that CachedFileConfig keeps in front of it.          *)
(*                                                                         *)
(* A configuration is a record: whether it is there at all (a nil *Config, *)
(* or a missing file, is not) and, for every device class, its             *)
(* over-provisioning ratio.  Ratio 0 says that the class is not listed.    *)
(* Everything else of a DeviceClass is copied once from an immutable part  *)
(* of the LVMVolumeGroup and is abstracted away.                           *)
(*                                                                         *)
(* The pair of cache and file is a record l with fields cache and file.    *)
(***************************************************************************)
EXTENDS Naturals

CONSTANTS VGs,      \* names of the device classes (= volume groups)
          MaxRatio  \* over-provisioning ratios are 1 .. MaxRatio

ASSUME MaxRatioAssumption == MaxRatio \in Nat \ {0}

Ratios == 1..MaxRatio

Configs == [exists : BOOLEAN, ratio : [VGs -> 0..MaxRatio]]

\* A nil *Config, and a configuration file that does not exist.
Nil == [exists |-> FALSE, ratio |-> [v \in VGs |-> 0]]

\* &lvmd.Config{}: there, but without device classes.  An empty file parses
\* to it as well.
EmptyConfig == [Nil EXCEPT !.exists = TRUE]

Listed(c, v) == c.ratio[v] # 0

NoClasses(c) == \A v \in VGs : ~Listed(c, v)

WithClass(c, v, r) == [c EXCEPT !.exists = TRUE, !.ratio[v] = r]

WithoutClass(c, v) == [c EXCEPT !.ratio[v] = 0]

-----------------------------------------------------------------------------
(***************************************************************************)
(* CachedFileConfig                                                        *)
(***************************************************************************)

\* Load: the cached configuration wins over the file.
Load(l) == IF l.cache.exists THEN l.cache ELSE l.file

\* Load leaves its result in the cache.
AfterLoad(l) == [l EXCEPT !.cache = Load(l)]

\* Save does nothing when the cache already holds the configuration.
SaveSkipped(l, c) == c = l.cache

\* Save: the cache is set first, then the file is written.
AfterSave(l, c) == [cache |-> c, file |-> c]

\* Save whose write fails: the cache keeps the new configuration although the
\* file was not opened, or was truncated and not written.
AfterFailedSave(l, c) == {[cache |-> c, file |-> f] : f \in {l.file, EmptyConfig}}

\* What the file holds when the process dies inside os.WriteFile.
TornFiles(l, c) == {l.file, EmptyConfig, c}

\* Delete is FileConfig's: the file goes, the cache stays.
AfterDelete(l) == [l EXCEPT !.file = Nil]

=============================================================================
