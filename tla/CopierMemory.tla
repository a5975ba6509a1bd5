---------------------------- MODULE CopierMemory ----------------------------
(***************************************************************************)
(* The sizing of a copier and the part pool it makes, put together: what   *)
(* the multipart reads hold while they run, against the limits the kernel  *)
(* enforces on the container.                                              *)
(***************************************************************************)
EXTENDS PartPool

CONSTANT
  Settings   \* containers and command lines: the memory files of the cgroups from the
             \* process's own to the root (v2, v1), max_xorb_uploads, parallel_files,
             \* s3_part_concurrency, part_size, and the parts of each read

\* run(): the configuration made from the container's cgroup files and the copy's
\* settings.
Sized(s) ==
  LET sizing == fit(lowest_cgroup_limit(s.v2, s.v1), s.max_xorb_uploads, s.parallel_files,
                    s.s3_part_concurrency, Greater(s.part_size, 1))
  IN  [size |-> sizing.part_pool, concurrency |-> sizing.s3_part_concurrency,
       parallel |-> sizing.parallel_files, parts |-> s.parts,
       sizing |-> sizing, settings |-> s]

ASSUME CopierConstants ==
  /\ \A s \in Settings :
       /\ s.v2 \in Seq(Nat \cup {NoLimit, Absent}) /\ s.v1 \in Seq(Nat \cup {NoLimit, Absent})
       /\ s.max_xorb_uploads \in Nat /\ s.parallel_files \in Nat
       /\ s.s3_part_concurrency \in Nat /\ s.part_size \in Nat
  /\ Configs = {Sized(s) : s \in Settings}

\* The limits of the container and of every cgroup above it, which the kernel
\* enforces, in the one tree that has the memory controller.
Enforced(s) ==
  LET tree == IF \A i \in DOMAIN s.v2 : s.v2[i] = Absent THEN s.v1 ELSE s.v2
  IN  {tree[i] : i \in DOMAIN tree} \cap 0..CGROUP_V1_NO_LIMIT - 1

\* Memory of the reads in flight: an xorb window per file, a part per slot (also
\* one granted to a task that has not run yet, or kept by a dropped attempt).
InUse == windows(Cardinality({r \in Reads : st[r] = "open"}))
           + (Size - free) * Greater(cfg.settings.part_size, 1)

-----------------------------------------------------------------------------

\* Whatever the reads do, and while dropped attempts still hold slots, their
\* memory and the reserve stay within every limit the kernel enforces, unless the
\* copier reported at start that not even one file fits.
MemoryWithinLimits ==
  fits(cfg.sizing) =>
    \A l \in Enforced(cfg.settings) :
      InUse + reserve_bytes(cfg.settings.max_xorb_uploads) <= l

\* "A larger pool would never be used": when the sizing did not limit the copy, no
\* read ever waits for a slot or for its share, once the attempts dropped before it
\* have let go of theirs.
NoNeedlessWait ==
  ~limited(cfg.sizing) /\ (\A r \in Reads : st[r] # "dropping") =>
    \A r \in Reads : /\ acq[r] # "queue"
                     /\ acq[r] = "wait" => own[r] # "waiting" \/ share[r]
=============================================================================
