--------------------------- MODULE MCDeviceClasses ---------------------------
(* Instances of DeviceClasses for TLC.                                      *)
EXTENDS DeviceClasses

CONSTANTS c1, c2, da, db, dc, rel

\* Sizes are exponents in steps between the limits of lvm2: the limits, the
\* default in between, and one step outside.
Limits == <<1, 4>>

PlainOpts == [reclaim |-> "Delete", binding |-> "WaitForFirstConsumer", params |-> {}, labels |-> {}]
Thin == [name |-> "pool", percent |-> 90, chunkPolicy |-> "Static", chunk |-> Unset,
         metaPolicy |-> "Static", meta |-> Unset]
Base == [default |-> FALSE, selector |-> TRUE, paths |-> <<da>>, optional |-> <<>>,
         wipe |-> "unset", node |-> "all", pool |-> NoPool, raid |-> NoRaid,
         fstype |-> "xfs", policy |-> "unset", options |-> NoOptions]
Bare == [Base EXCEPT !.selector = FALSE, !.paths = <<>>]
Raid1 == [type |-> "raid1", mirrors |-> Unset, stripes |-> Unset, stripeSize |-> Unset]

\* A thin class in several variants, two of which are never admitted, ...
Thins ==
  {[Base EXCEPT !.pool = Thin],
   [Base EXCEPT !.pool = [Thin EXCEPT !.chunk = 3]],
   [Base EXCEPT !.pool = [Thin EXCEPT !.meta = 3], !.default = TRUE],
   [Base EXCEPT !.pool = [Thin EXCEPT !.metaPolicy = "Host"]],
   [Base EXCEPT !.pool = Thin, !.options = [PlainOpts EXCEPT !.reclaim = "Retain"]],
   [Base EXCEPT !.pool = Thin, !.options = [PlainOpts EXCEPT !.params = OwnedKeys]],
   [Base EXCEPT !.paths = <<rel>>]}

\* ... and a thick one, with RAID or without, or without paths, which is admitted
\* alone; two are never admitted together with the thin class.
Thicks ==
  {[Base EXCEPT !.paths = <<db, dc>>],
   [Base EXCEPT !.paths = <<db>>, !.optional = <<dc>>, !.default = TRUE],
   [Base EXCEPT !.paths = <<db, dc>>, !.raid = Raid1],
   [Base EXCEPT !.paths = <<db>>, !.raid = Raid1],
   [Base EXCEPT !.paths = <<db>>, !.optional = <<da>>],
   Bare}

AllCandidates == [c \in Classes |-> IF c = c1 THEN Thins ELSE Thicks]
=============================================================================
