--------------------------- MODULE MCCopierMemory ---------------------------
(* Instances of CopierMemory for TLC, in MiB.                              *)
EXTENDS CopierMemory

CONSTANTS r1, r2

Setting(v2, v1, files, p1, p2) ==
  [v2 |-> v2, v1 |-> v1, max_xorb_uploads |-> 1, parallel_files |-> files,
   s3_part_concurrency |-> 2, part_size |-> 16,
   parts |-> [r \in Reads |-> IF r = r1 THEN p1 ELSE p2]]

MCSettings ==
  {\* No limit: one file at a time, longer than all it can hold.
   Setting(<<NoLimit, NoLimit>>, <<>>, 1, 7, 2),
   \* A parent's limit leaves one file with a full file's worth of slots.
   Setting(<<NoLimit, 1312>>, <<>>, 2, 3, 2),
   \* Two files share a pool smaller than what both could hold.
   Setting(<<1440>>, <<>>, 2, 4, 3),
   \* The v1 tree: not one slot fits beside the window.
   Setting(<<Absent>>, <<CGROUP_V1_NO_LIMIT, 1220>>, 2, 2, 2)}

MCConfigs == {Sized(s) : s \in MCSettings}
=============================================================================
