------------------------------- MODULE Sizing -------------------------------
(***************************************************************************)
(* How a copier sizes itself to its container (memory.rs): the memory      *)
(* limit it reads from the cgroup files, the budget it takes from it, and  *)
(* the number of files and part slots that fit the budget.  `run` calls    *)
(* `fit` once, before the listing starts.                                  *)
(*                                                                         *)
(* Sizes are natural numbers in one unit (the models count MiB): the code  *)
(* saturates at 2^64 bytes, which no setting of a real copy reaches.       *)
(***************************************************************************)
EXTENDS Integers, Sequences

CONSTANTS
  MAX_XORB_BYTES,      \* largest xorb of the xet client (64 MiB)
  BASE_RESERVE_BYTES,  \* memory kept out of the budget whatever the limit (1 GiB)
  CGROUP_V1_NO_LIMIT   \* a cgroup v1 limit from here on means none (1 EiB)

ASSUME SizingConstants ==
  /\ MAX_XORB_BYTES \in Nat \ {0} /\ BASE_RESERVE_BYTES \in Nat
  /\ CGROUP_V1_NO_LIMIT \in Nat

BUDGET_PERCENT        == 60
XORB_WINDOW_BYTES     == 2 * MAX_XORB_BYTES
MAX_READ_AHEAD_CHUNKS == 32

NoLimit == -1    \* `None`: no limit, the keyword `max`, an unreadable value
Absent  == -2    \* the directory has no memory file

-----------------------------------------------------------------------------
(* Operators named Bad... are faulty variants of the definition after them, *)
(* used only to see that a property notices the fault.                     *)

Lesser(a, b)  == IF a <= b THEN a ELSE b
Greater(a, b) == IF a >= b THEN a ELSE b
saturating_sub(a, b) == Greater(a - b, 0)

\* A cgroup is given by the contents of its memory file and of those of its
\* parents, from the process's own directory to the root of the mount.
parse_cgroup_v1(content) == IF content < CGROUP_V1_NO_LIMIT THEN content ELSE NoLimit

limits_up_to_root(files) == {files[i] : i \in {j \in DOMAIN files : files[j] # Absent}}

\* The lowest of them.  The v2 tree counts as soon as it has one memory file.
BadLowest(v2, v1) ==                  \* the limits of the parents are not read
  IF v2 = <<>> THEN NoLimit ELSE v2[1]
lowest_cgroup_limit(v2, v1) ==
  LET two    == limits_up_to_root(v2)
      one    == {parse_cgroup_v1(c) : c \in limits_up_to_root(v1)}
      limits == (IF two = {} THEN one ELSE two) \ {NoLimit}
  IN  IF limits = {} THEN NoLimit
      ELSE CHOOSE l \in limits : \A other \in limits : l <= other

-----------------------------------------------------------------------------

\* Memory that does not scale with the limit: the base and the xorbs in upload.
reserve_bytes(max_xorb_uploads) == max_xorb_uploads * MAX_XORB_BYTES + BASE_RESERVE_BYTES

budget_bytes(limit, max_xorb_uploads) ==
  Lesser((limit \div 100) * BUDGET_PERCENT,
         saturating_sub(limit, reserve_bytes(max_xorb_uploads)))

\* Depth of the channel between a read's task and its cleaner (sync.rs).
read_ahead_depth(part_concurrency) ==
  Lesser(Greater(part_concurrency, 1), MAX_READ_AHEAD_CHUNKS)

\* Most slots one file can hold: GETs, queued parts, one part waiting to be
\* queued and one with the cleaner.
BadPartsPerFile(part_concurrency) == part_concurrency + 2   \* the queue is forgotten
parts_per_file(part_concurrency) ==
  IF part_concurrency <= 1 THEN 0
  ELSE part_concurrency + read_ahead_depth(part_concurrency) + 2

unlimited(pf, one_file) == pf * one_file
windows(pf)             == pf * XORB_WINDOW_BYTES

\* Slots left for parts once pf windows are reserved.
room(budget, pf, part_size) == saturating_sub(budget, windows(pf)) \div Greater(part_size, 1)

\* The numbers of files that fit the budget with a full file's worth of slots.
Fitting(budget, requested, one_file, part_size) ==
  {pf \in 1..requested : windows(pf) <= budget /\ room(budget, pf, part_size) >= one_file}

Largest(S) == CHOOSE x \in S : \A y \in S : y <= x

\* Not even one file fits: the slots it needs to make progress.
BadSmallestPool(budget, one_file, part_size) ==          \* possibly none
  Lesser(room(budget, 1, part_size), one_file)
SmallestPool(budget, one_file, part_size) ==
  Lesser(Greater(room(budget, 1, part_size), Lesser(one_file, 1)), one_file)

\* fit(): the effective settings, with `limit` the memory limit found.
fit(limit, max_xorb_uploads, parallel_files, part_concurrency, part_size) ==
  LET requested == Greater(parallel_files, 1)
      conc      == Greater(part_concurrency, 1)
      one_file  == parts_per_file(conc)
      budget    == IF limit = NoLimit THEN NoLimit ELSE budget_bytes(limit, max_xorb_uploads)
      fitting   == Fitting(budget, requested, one_file, part_size)
      pf        == IF limit = NoLimit THEN requested
                   ELSE IF fitting = {} THEN 1 ELSE Largest(fitting)
      pool      == IF limit = NoLimit THEN unlimited(requested, one_file)
                   ELSE IF fitting = {} THEN SmallestPool(budget, one_file, part_size)
                   ELSE Lesser(room(budget, pf, part_size), unlimited(pf, one_file))
  IN  [limit_bytes |-> limit, budget_bytes |-> budget,
       requested_parallel_files |-> requested, parallel_files |-> pf,
       s3_part_concurrency |-> conc,
       part_pool |-> pool, part_pool_unlimited |-> unlimited(pf, one_file),
       requested_worst_case_bytes |->
         windows(requested) + unlimited(requested, one_file) * part_size,
       worst_case_bytes |-> windows(pf) + pool * part_size]

\* Sizing::limited and Sizing::fits.
limited(s) == \/ s.parallel_files # s.requested_parallel_files
              \/ s.part_pool < s.part_pool_unlimited
fits(s) == /\ s.part_pool >= parts_per_file(s.s3_part_concurrency)
           /\ s.limit_bytes # NoLimit => s.worst_case_bytes <= s.budget_bytes
=============================================================================
