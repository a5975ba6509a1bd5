------------------------- MODULE CopierMemory_proofs ------------------------
(***************************************************************************)
(* The sizing of a copier for every container and every setting, and the   *)
(* memory of its reads for every number of reads, parts and slots.         *)
(***************************************************************************)
EXTENDS CopierMemory, PartPool_proofs, WellFoundedInduction

-----------------------------------------------------------------------------
(* Numbers.                                                                *)

\* A product grows with its first factor.
LEMMA ProductGrows ==
  ASSUME NEW a \in Int, NEW b \in Int, NEW w \in Nat, a <= b
  PROVE  a * w <= b * w
<1>1. (b - a) * w >= 0
  OBVIOUS
<1>2. b * w = a * w + (b - a) * w
  OBVIOUS
<1> QED BY <1>1, <1>2

\* A set of natural numbers that is not empty has a least element.
LEMMA LeastExists ==
  ASSUME NEW S, S \subseteq Nat, S # {}
  PROVE  \E x \in S : \A y \in S : x <= y
<1>1. \E x \in S : \A y \in S : ~(<<y, x>> \in OpToRel(<, Nat))
  BY WFMin, NatLessThanWellFounded
<1>2. PICK x \in S : \A y \in S : ~(<<y, x>> \in OpToRel(<, Nat))
  BY <1>1
<1>3. \A y \in S : ~(y < x)
  <2> TAKE y \in S
  <2>1. y \in Nat /\ x \in Nat
    OBVIOUS
  <2>2. y < x => <<y, x>> \in OpToRel(<, Nat)
    BY <2>1 DEF OpToRel
  <2> QED BY <1>2, <2>2
<1> QED BY <1>3

\* `Largest` is the greatest element of a bounded set of natural numbers.
LEMMA LargestIsLargest ==
  ASSUME NEW n \in Nat, NEW S, S \subseteq 1..n, S # {}
  PROVE  Largest(S) \in S /\ \A y \in S : y <= Largest(S)
<1> DEFINE D == {n - y : y \in S}
<1>1. D \subseteq Nat /\ D # {}
  OBVIOUS
<1>2. PICK d \in D : \A e \in D : d <= e
  BY <1>1, LeastExists
<1>3. PICK x \in S : d = n - x
  OBVIOUS
<1>4. \A y \in S : y <= x
  <2> TAKE y \in S
  <2>1. n - y \in D
    OBVIOUS
  <2>2. n - x <= n - y
    BY <2>1, <1>2, <1>3
  <2>3. x \in Nat /\ y \in Nat
    OBVIOUS
  <2> QED BY <2>2, <2>3
<1>5. \E z \in S : \A y \in S : y <= z
  BY <1>4
<1> QED BY <1>5 DEF Largest

-----------------------------------------------------------------------------
(* The memory limit.                                                       *)

\* lowest_cgroup_limit is below every limit the kernel enforces on the container,
\* those of the parents included, in the v2 and in the v1 tree.
LEMMA LowestIsEnforced ==
  ASSUME NEW s \in Settings, NEW l \in Enforced(s)
  PROVE  LET low == lowest_cgroup_limit(s.v2, s.v1) IN low \in Nat /\ low <= l
<1> DEFINE two    == limits_up_to_root(s.v2)
           one    == {parse_cgroup_v1(c) : c \in limits_up_to_root(s.v1)}
           limits == (IF two = {} THEN one ELSE two) \ {NoLimit}
<1>1. s.v2 \in Seq(Nat \cup {NoLimit, Absent}) /\ s.v1 \in Seq(Nat \cup {NoLimit, Absent})
  BY CopierConstants
<1>2. two \subseteq Nat \cup {NoLimit}
  BY <1>1 DEF limits_up_to_root
<1>3. limits_up_to_root(s.v1) \subseteq Nat \cup {NoLimit}
  BY <1>1 DEF limits_up_to_root
<1>4. one \subseteq Nat \cup {NoLimit}
  BY <1>3 DEF parse_cgroup_v1
<1>5. limits \subseteq Nat
  BY <1>2, <1>4
<1>6. l \in Nat /\ l < CGROUP_V1_NO_LIMIT /\ l # NoLimit /\ l # Absent
  BY SizingConstants DEF Enforced, NoLimit, Absent
<1>7. l \in limits
  <2>1. CASE two = {}
    <3>1. \A i \in DOMAIN s.v2 : s.v2[i] = Absent
      BY <2>1 DEF limits_up_to_root
    <3>2. l \in {s.v1[i] : i \in DOMAIN s.v1}
      BY <3>1 DEF Enforced
    <3>3. l \in limits_up_to_root(s.v1)
      BY <3>2, <1>6 DEF limits_up_to_root
    <3>4. parse_cgroup_v1(l) = l
      BY <1>6 DEF parse_cgroup_v1
    <3>5. l \in one
      BY <3>3, <3>4
    <3> QED BY <2>1, <3>5, <1>6
  <2>2. CASE two # {}
    <3>1. ~\A i \in DOMAIN s.v2 : s.v2[i] = Absent
      BY <2>2 DEF limits_up_to_root
    <3>2. l \in {s.v2[i] : i \in DOMAIN s.v2}
      BY <3>1 DEF Enforced
    <3>3. l \in two
      BY <3>2, <1>6 DEF limits_up_to_root
    <3> QED BY <2>2, <3>3, <1>6
  <2> QED BY <2>1, <2>2
<1>8. \E x \in limits : \A y \in limits : x <= y
  BY <1>5, <1>7, LeastExists
<1>9. lowest_cgroup_limit(s.v2, s.v1) = CHOOSE x \in limits : \A y \in limits : x <= y
  BY <1>7 DEF lowest_cgroup_limit
<1> HIDE DEF limits
<1>10. lowest_cgroup_limit(s.v2, s.v1) \in limits
       /\ \A y \in limits : lowest_cgroup_limit(s.v2, s.v1) <= y
  BY <1>8, <1>9
<1> QED BY <1>5, <1>7, <1>10

-----------------------------------------------------------------------------
(* The settings that fit.                                                  *)

\* Division rounds down.
LEMMA DivisionRoundsDown ==
  ASSUME NEW x \in Nat, NEW p \in Nat \ {0}
  PROVE  /\ x \div p \in Nat
         /\ (x \div p) * p <= x
         /\ x < (x \div p) * p + p
<1>1. x = (x \div p) * p + (x % p) /\ x % p \in 0..p - 1 /\ x \div p \in Int
  OBVIOUS
<1>2. x \div p >= 0
  OBVIOUS
<1> QED BY <1>1, <1>2

\* The windows of files in flight take memory.
LEMMA WindowsTakeMemory ==
  ASSUME NEW pf \in Nat
  PROVE  windows(pf) \in Nat /\ (pf > 0 => windows(pf) > 0)
<1>1. windows(pf) \in Nat
  BY SizingConstants DEF windows, XORB_WINDOW_BYTES
<1>2. pf > 0 => windows(pf) > 0
  BY SizingConstants DEF windows, XORB_WINDOW_BYTES
<1> QED BY <1>1, <1>2

\* A file read in parts holds more than one slot.
LEMMA PartsPerFile ==
  ASSUME NEW conc \in Nat
  PROVE  parts_per_file(conc) \in Nat /\ (conc > 1 => parts_per_file(conc) > 1)
BY DEF parts_per_file, read_ahead_depth, Lesser, Greater, MAX_READ_AHEAD_CHUNKS

\* The budget leaves the reserve, unless there is none.
LEMMA BudgetLeavesReserve ==
  ASSUME NEW m \in Nat, NEW limit \in Nat
  PROVE  /\ reserve_bytes(m) \in Nat /\ budget_bytes(limit, m) \in Nat
         /\ \/ budget_bytes(limit, m) + reserve_bytes(m) <= limit
            \/ budget_bytes(limit, m) = 0
<1>1. reserve_bytes(m) \in Nat
  BY SizingConstants DEF reserve_bytes
<1>2. (limit \div 100) * BUDGET_PERCENT \in Nat
  BY DEF BUDGET_PERCENT
<1> QED BY <1>1, <1>2 DEF budget_bytes, Lesser, Greater, saturating_sub

\* What `room` leaves for parts.
LEMMA RoomForParts ==
  ASSUME NEW budget \in Nat, NEW pf \in Nat, NEW part \in Nat \ {0}
  PROVE  /\ room(budget, pf, part) \in Nat
         /\ windows(pf) <= budget => /\ windows(pf) + room(budget, pf, part) * part <= budget
                                     /\ budget < windows(pf) + room(budget, pf, part) * part + part
<1> DEFINE left == saturating_sub(budget, windows(pf))
<1>1. windows(pf) \in Nat
  BY WindowsTakeMemory
<1>2. left \in Nat /\ (windows(pf) <= budget => left = budget - windows(pf))
  BY <1>1 DEF saturating_sub, Greater
<1>3. room(budget, pf, part) = left \div part
  BY DEF room, Greater
<1> HIDE DEF left
<1>4. /\ left \div part \in Nat /\ (left \div part) * part <= left
      /\ left < (left \div part) * part + part
  BY <1>2, DivisionRoundsDown
<1>5. (left \div part) * part \in Nat
  BY <1>4
<1> QED BY <1>1, <1>2, <1>3, <1>4, <1>5

\* A number of files that does not fit is above the budget with one file's worth
\* of slots.
LEMMA NotFitting ==
  ASSUME NEW budget \in Nat, NEW requested \in Nat, NEW one_file \in Nat,
         NEW part \in Nat \ {0}, NEW pf \in 1..requested,
         pf \notin Fitting(budget, requested, one_file, part)
  PROVE  windows(pf) + one_file * part > budget
<1>1. windows(pf) \in Nat /\ one_file * part \in Nat
  BY WindowsTakeMemory
<1>2. CASE windows(pf) > budget
  BY <1>1, <1>2
<1>3. CASE windows(pf) <= budget
  <2>1. room(budget, pf, part) \in Nat
        /\ budget < windows(pf) + room(budget, pf, part) * part + part
    BY <1>3, RoomForParts
  <2>2. room(budget, pf, part) + 1 <= one_file
    BY <1>3, <2>1 DEF Fitting
  <2>3. (room(budget, pf, part) + 1) * part <= one_file * part
    BY <2>1, <2>2, ProductGrows
  <2>4. (room(budget, pf, part) + 1) * part = room(budget, pf, part) * part + part
    BY <2>1
  <2>5. room(budget, pf, part) * part \in Nat
    BY <2>1
  <2> QED BY <1>1, <2>1, <2>3, <2>4, <2>5
<1> QED BY <1>1, <1>2, <1>3

\* fit(), for every limit and every setting: it picks between one and the requested
\* number of files, and a slot at least when files are read in parts; what it picks
\* leaves the reserve, if it says that it fits; it says that it does not fit only
\* when one file is above the budget; and it does not pick less than would fit.
THEOREM SizingIsSound ==
  ASSUME NEW limit \in Nat, NEW m \in Nat, NEW files \in Nat, NEW conc \in Nat,
         NEW part \in Nat \ {0}
  PROVE  LET s        == fit(limit, m, files, conc, part)
             one_file == parts_per_file(Greater(conc, 1))
         IN  /\ s.parallel_files \in 1..Greater(files, 1)
             /\ s.part_pool \in Nat /\ (conc > 1 => s.part_pool > 0)
             /\ fits(s) => /\ windows(s.parallel_files) + s.part_pool * part
                                + reserve_bytes(m) <= limit
             /\ ~fits(s) => windows(1) + one_file * part > budget_bytes(limit, m)
             /\ \A pf \in s.parallel_files + 1 .. Greater(files, 1) :
                  windows(pf) + one_file * part > budget_bytes(limit, m)
<1> DEFINE s         == fit(limit, m, files, conc, part)
           requested == Greater(files, 1)
           c         == Greater(conc, 1)
           one_file  == parts_per_file(c)
           budget    == budget_bytes(limit, m)
           fitting   == Fitting(budget, requested, one_file, part)
           pf        == IF fitting = {} THEN 1 ELSE Largest(fitting)
           pool      == IF fitting = {} THEN SmallestPool(budget, one_file, part)
                        ELSE Lesser(room(budget, pf, part), unlimited(pf, one_file))
<1>1. limit # NoLimit
  BY DEF NoLimit
<1>2. /\ s.parallel_files = pf /\ s.part_pool = pool /\ s.limit_bytes = limit
      /\ s.budget_bytes = budget /\ s.s3_part_concurrency = c
      /\ s.worst_case_bytes = windows(pf) + pool * part
  BY <1>1 DEF fit
<1>3. requested \in Nat /\ requested >= 1 /\ c \in Nat /\ c >= 1 /\ (conc > 1 => c > 1)
  BY DEF Greater
<1>4. one_file \in Nat /\ (conc > 1 => one_file > 1)
  BY <1>3, PartsPerFile
<1>5. budget \in Nat /\ reserve_bytes(m) \in Nat
      /\ (budget + reserve_bytes(m) <= limit \/ budget = 0)
  BY BudgetLeavesReserve
<1>6. fits(s) <=> pool >= one_file /\ windows(pf) + pool * part <= budget
  BY <1>1, <1>2 DEF fits
<1> HIDE DEF s, requested, c, one_file, budget
<1>7. fitting \subseteq 1..requested
  BY DEF Fitting
<1>8. fitting # {} => pf \in fitting /\ \A y \in fitting : y <= pf
  BY <1>3, <1>7, LargestIsLargest
<1>9. pf \in 1..requested
  BY <1>3, <1>7, <1>8
<1> HIDE DEF pf
<1>10. /\ room(budget, pf, part) \in Nat
       /\ windows(pf) <= budget => windows(pf) + room(budget, pf, part) * part <= budget
  <2>1. pf \in Nat
    BY <1>9
  <2> QED BY <1>5, <2>1, RoomForParts
<1>11. room(budget, 1, part) \in Nat
  BY <1>5, RoomForParts
<1>12. fitting # {} => /\ pool \in Nat /\ pool >= one_file /\ pool <= room(budget, pf, part)
                       /\ windows(pf) <= budget
  <2> SUFFICES ASSUME fitting # {} PROVE /\ pool \in Nat /\ pool >= one_file
                                         /\ pool <= room(budget, pf, part)
                                         /\ windows(pf) <= budget
    OBVIOUS
  <2>1. room(budget, pf, part) >= one_file /\ windows(pf) <= budget
    BY <1>8 DEF Fitting
  <2>2. 1 * one_file <= pf * one_file
    BY <1>4, <1>9, ProductGrows
  <2>3. unlimited(pf, one_file) \in Nat /\ unlimited(pf, one_file) >= one_file
    BY <1>4, <1>9, <2>2 DEF unlimited
  <2>4. pool = Lesser(room(budget, pf, part), unlimited(pf, one_file))
    OBVIOUS
  <2> QED BY <1>4, <1>10, <2>1, <2>3, <2>4 DEF Lesser
<1>13. fitting = {} => pool \in Nat /\ (one_file > 1 => pool > 0)
  BY <1>4, <1>11 DEF SmallestPool, Lesser, Greater
<1> HIDE DEF pool
<1>14. pool \in Nat /\ (conc > 1 => pool > 0)
  BY <1>4, <1>12, <1>13
<1>15. fits(s) => windows(pf) + pool * part + reserve_bytes(m) <= limit
  <2>1. windows(pf) \in Nat /\ windows(pf) > 0 /\ pool * part \in Nat
    BY <1>9, <1>14, WindowsTakeMemory
  <2> QED BY <1>5, <1>6, <2>1
<1>16. fitting # {} => fits(s)
  <2> SUFFICES ASSUME fitting # {} PROVE windows(pf) + pool * part <= budget
    BY <1>6, <1>12
  <2>1. pool * part <= room(budget, pf, part) * part
    BY <1>10, <1>12, ProductGrows
  <2>2. windows(pf) \in Nat /\ pool * part \in Nat /\ room(budget, pf, part) * part \in Nat
    BY <1>9, <1>10, <1>14, WindowsTakeMemory
  <2> QED BY <1>5, <1>10, <1>12, <2>1, <2>2
<1>17. ~fits(s) => windows(1) + one_file * part > budget
  <2> SUFFICES ASSUME ~fits(s) PROVE windows(1) + one_file * part > budget
    OBVIOUS
  <2>1. 1 \in 1..requested /\ 1 \notin Fitting(budget, requested, one_file, part)
    BY <1>3, <1>16
  <2> QED BY <1>3, <1>4, <1>5, <2>1, NotFitting
<1>18. ASSUME NEW q \in pf + 1 .. requested PROVE windows(q) + one_file * part > budget
  <2>1. q \in 1..requested /\ q > pf
    BY <1>3, <1>9
  <2>2. q \notin fitting
    BY <1>8, <1>9, <2>1
  <2> QED BY <1>3, <1>4, <1>5, <2>1, <2>2, NotFitting
<1> QED BY <1>2, <1>9, <1>14, <1>15, <1>17, <1>18 DEF s, requested, c, one_file, budget

-----------------------------------------------------------------------------
(* The reads.                                                              *)

\* The part of the state that bounds the memory in use: slots are taken only while
\* some are free, and files are opened only while fewer than allowed are.
MemInv ==
  /\ cfg \in Configs
  /\ free \in Nat
  /\ st \in [Reads -> {"new", "open", "dropping", "done"}]
  /\ Cardinality({r \in Reads : st[r] = "open"}) <= cfg.parallel

\* Releasing a permit leaves the free permits a natural number.
LEMMA ReleaseFree ==
  ASSUME NEW a, Release(a), free \in Nat
  PROVE  free' \in Nat
BY DEF Release

\* A step that opens no read opens no further file.
LEMMA FewerOpen ==
  ASSUME MemInv, cfg' = cfg, \A r \in Reads : st'[r] = "open" => st[r] = "open"
  PROVE  Cardinality({r \in Reads : st'[r] = "open"}) <= cfg'.parallel
<1> DEFINE before == {r \in Reads : st[r] = "open"}
           after  == {r \in Reads : st'[r] = "open"}
<1>1. IsFiniteSet(before)
  BY PoolConstants, FS_Subset
<1>2. after \subseteq before
  OBVIOUS
<1>3. IsFiniteSet(after) /\ Cardinality(after) <= Cardinality(before)
  BY <1>1, <1>2, FS_Subset
<1>4. Cardinality(after) \in Nat /\ Cardinality(before) \in Nat
  BY <1>1, <1>3, FS_CardinalityType
<1>5. cfg.parallel \in Nat
  BY PoolConstants DEF MemInv
<1> QED BY <1>3, <1>4, <1>5 DEF MemInv

\* MemInv is inductive.
LEMMA MemInvHolds == Spec => []MemInv
<1>1. Init => MemInv
  <2> SUFFICES ASSUME Init PROVE MemInv
    OBVIOUS
  <2>1. {r \in Reads : st[r] = "open"} = {}
    BY DEF Init
  <2>2. Cardinality({r \in Reads : st[r] = "open"}) = 0
    BY <2>1, FS_EmptySet
  <2>3. cfg.parallel \in Nat /\ cfg.size \in Nat
    BY PoolConstants DEF Init
  <2> QED BY <2>2, <2>3 DEF Init, MemInv, Size
<1>2. MemInv /\ [Next]_vars => MemInv'
  <2> SUFFICES ASSUME MemInv, [Next]_vars PROVE MemInv'
    OBVIOUS
  <2>1. CASE UNCHANGED vars
    BY <2>1 DEF MemInv, vars
  <2>2. CASE Finished
    BY <2>2 DEF MemInv, vars, Finished
  <2>3. ASSUME NEW r \in Reads, Start(r), UNCHANGED cfg PROVE MemInv'
    <3> DEFINE before == {x \in Reads : st[x] = "open"}
    <3>1. IsFiniteSet(before) /\ Cardinality(before) \in Nat
      BY PoolConstants, FS_Subset, FS_CardinalityType
    <3>2. st' \in [Reads -> {"new", "open", "dropping", "done"}] /\ free' \in Nat
      BY <2>3 DEF MemInv, Start
    <3>3. {x \in Reads : st'[x] = "open"} = before \cup {r}
      BY <2>3 DEF MemInv, Start
    <3> HIDE DEF before
    <3>4. /\ IsFiniteSet(before \cup {r})
          /\ \/ Cardinality(before \cup {r}) = Cardinality(before)
             \/ Cardinality(before \cup {r}) = Cardinality(before) + 1
      BY <3>1, FS_AddElement
    <3>5. Cardinality(before \cup {r}) \in Nat
      BY <3>4, FS_CardinalityType
    <3>6. cfg.parallel \in Nat /\ Cardinality(before) < cfg.parallel
      BY <2>3, PoolConstants DEF MemInv, Start, before
    <3> QED BY <2>3, <3>1, <3>2, <3>3, <3>4, <3>5, <3>6 DEF MemInv
  <2>4. ASSUME NEW r \in Reads, ReaderStep(r), ~Start(r), UNCHANGED cfg PROVE MemInv'
    <3>1. st' = st /\ free' \in Nat
      BY <2>4 DEF MemInv, ReaderStep, Begin, Check, Wake, Take, Fetch, Yield, Send, ReaderEnd
    <3> QED BY <2>4, <3>1 DEF MemInv
  <2>5. ASSUME NEW r \in Reads, CleanerStep(r), UNCHANGED cfg PROVE MemInv'
    <3>1. CASE CleanerRecv(r) \/ DropHeld(r) \/ DropNotify(r)
      BY <2>5, <3>1 DEF MemInv, CleanerRecv, DropHeld, DropNotify
    <3>2. CASE DropPermit(r)
      BY <2>5, <3>2, ReleaseFree DEF MemInv, DropPermit
    <3>3. CASE CleanerEnd(r)
      <4>1. /\ st' \in [Reads -> {"new", "open", "dropping", "done"}] /\ free' \in Nat
            /\ \A x \in Reads : st'[x] = "open" => st[x] = "open"
        BY <3>3 DEF MemInv, CleanerEnd
      <4> QED BY <2>5, <4>1, FewerOpen DEF MemInv
    <3> QED BY <2>5, <3>1, <3>2, <3>3 DEF CleanerStep
  <2>6. ASSUME NEW r \in Reads, CancelStep(r), UNCHANGED cfg PROVE MemInv'
    <3>1. CASE CancelSlot(r)
      BY <2>6, <3>1, ReleaseFree DEF MemInv, CancelSlot
    <3>2. CASE CancelAcquire(r)
      <4>1. st' = st /\ free' \in Nat
        BY <3>2, ReleaseFree DEF MemInv, CancelAcquire
      <4> QED BY <2>6, <4>1 DEF MemInv
    <3>3. CASE CancelReader(r)
      BY <2>6, <3>3 DEF MemInv, CancelReader
    <3>4. CASE CancelEnd(r)
      <4>1. /\ st' \in [Reads -> {"new", "open", "dropping", "done"}] /\ free' \in Nat
            /\ \A x \in Reads : st'[x] = "open" => st[x] = "open"
        BY <3>4 DEF MemInv, CancelEnd
      <4> QED BY <2>6, <4>1, FewerOpen DEF MemInv
    <3> QED BY <2>6, <3>1, <3>2, <3>3, <3>4 DEF CancelStep
  <2>7. ASSUME NEW r \in Reads, Cancel(r), UNCHANGED cfg PROVE MemInv'
    <3>1. /\ st' \in [Reads -> {"new", "open", "dropping", "done"}] /\ free' \in Nat
          /\ \A x \in Reads : st'[x] = "open" => st[x] = "open"
      BY <2>7 DEF MemInv, Cancel
    <3> QED BY <2>7, <3>1, FewerOpen DEF MemInv
  <2> QED
    BY <2>1, <2>2, <2>3, <2>4, <2>5, <2>6, <2>7
    DEF Next, ReaderMoves, CleanerMoves, CancelMoves
<1> QED BY <1>1, <1>2, PTL DEF Spec

\* For every container, every setting and every number of reads and parts: the
\* memory of the reads and the reserve stay within each limit enforced on the
\* container, if the copier says that its settings fit.
THEOREM MemoryStaysWithinLimits == Spec => []MemoryWithinLimits
<1>1. MemInv => MemoryWithinLimits
  <2> SUFFICES ASSUME MemInv, fits(cfg.sizing), NEW l \in Enforced(cfg.settings)
               PROVE  InUse + reserve_bytes(cfg.settings.max_xorb_uploads) <= l
    BY DEF MemoryWithinLimits
  <2>1. PICK s \in Settings : cfg = Sized(s)
    BY CopierConstants DEF MemInv
  <2> DEFINE low  == lowest_cgroup_limit(s.v2, s.v1)
             m    == s.max_xorb_uploads
             part == Greater(s.part_size, 1)
             z    == fit(low, m, s.parallel_files, s.s3_part_concurrency, part)
             open == {r \in Reads : st[r] = "open"}
  <2>2. /\ cfg.sizing = z /\ cfg.settings = s
        /\ cfg.size = z.part_pool /\ cfg.parallel = z.parallel_files
    BY <2>1 DEF Sized
  <2>3. l \in Enforced(s) /\ fits(z)
    BY <2>2
  <2>4. low \in Nat /\ low <= l
    BY <2>3, LowestIsEnforced
  <2>5. /\ m \in Nat /\ s.parallel_files \in Nat /\ s.s3_part_concurrency \in Nat
        /\ part \in Nat \ {0}
    BY CopierConstants DEF Greater
  <2>6. /\ z.parallel_files \in Nat /\ z.part_pool \in Nat
        /\ windows(z.parallel_files) + z.part_pool * part + reserve_bytes(m) <= low
    <3>1. /\ z.parallel_files \in 1..Greater(s.parallel_files, 1)
          /\ z.part_pool \in Nat
          /\ fits(z) => windows(z.parallel_files) + z.part_pool * part + reserve_bytes(m) <= low
      BY <2>4, <2>5, SizingIsSound
    <3>2. Greater(s.parallel_files, 1) \in Nat
      BY <2>5 DEF Greater
    <3> QED BY <2>3, <3>1, <3>2
  <2>7. InUse = windows(Cardinality(open)) + (z.part_pool - free) * part
    BY <2>2 DEF InUse, Size
  <2>8. Cardinality(open) \in Nat /\ Cardinality(open) <= z.parallel_files
    <3>1. IsFiniteSet(open)
      BY PoolConstants, FS_Subset
    <3> QED BY <3>1, <2>2, FS_CardinalityType DEF MemInv
  <2>9. l \in Nat /\ free \in Nat
    BY <2>3 DEF Enforced, MemInv
  <2> HIDE DEF z, low, part, open, m
  <2>10. windows(Cardinality(open)) <= windows(z.parallel_files)
    BY <2>6, <2>8, ProductGrows, SizingConstants DEF windows, XORB_WINDOW_BYTES
  <2>11. (z.part_pool - free) * part <= z.part_pool * part
    BY <2>5, <2>6, <2>9, ProductGrows
  <2>12. /\ windows(Cardinality(open)) \in Nat /\ windows(z.parallel_files) \in Nat
         /\ (z.part_pool - free) * part \in Int /\ z.part_pool * part \in Int
         /\ reserve_bytes(m) \in Nat
    <3>1. windows(Cardinality(open)) \in Nat /\ windows(z.parallel_files) \in Nat
      BY <2>6, <2>8, WindowsTakeMemory
    <3>2. (z.part_pool - free) * part \in Int /\ z.part_pool * part \in Int
      BY <2>5, <2>6, <2>9
    <3>3. reserve_bytes(m) \in Nat
      BY <2>4, <2>5, BudgetLeavesReserve
    <3> QED BY <3>1, <3>2, <3>3
  <2>13. InUse + reserve_bytes(m) <= l
    BY <2>4, <2>6, <2>7, <2>9, <2>10, <2>11, <2>12
  <2> QED BY <2>2, <2>13 DEF m
<1> QED BY <1>1, MemInvHolds, PTL

-----------------------------------------------------------------------------
(* A pool that the container does not limit.                               *)

\* Most slots one read of the copier can hold.
OneFile == parts_per_file(Concurrency)

\* The first part of an open read that holds a slot.
FirstPart(r) == recv[r] + (IF cln[r] = "busy" THEN 0 ELSE 1)

\* A sizing that is not limited gives every file all the slots it can hold.
LEMMA UnlimitedPool ==
  ASSUME cfg \in Configs, ~limited(cfg.sizing)
  PROVE  /\ Size \in Nat /\ cfg.parallel \in Nat \ {0} /\ OneFile \in Nat
         /\ cfg.parallel * OneFile <= Size
         /\ Concurrency > 1 => OneFile = Concurrency + read_ahead_depth(Concurrency) + 2
<1>1. PICK s \in Settings : cfg = Sized(s)
  BY CopierConstants
<1> DEFINE z == fit(lowest_cgroup_limit(s.v2, s.v1), s.max_xorb_uploads, s.parallel_files,
                    s.s3_part_concurrency, Greater(s.part_size, 1))
<1>2. /\ cfg.sizing = z /\ cfg.size = z.part_pool /\ cfg.parallel = z.parallel_files
      /\ cfg.concurrency = z.s3_part_concurrency
  BY <1>1 DEF Sized
<1>3. z.part_pool_unlimited
        = unlimited(z.parallel_files, parts_per_file(z.s3_part_concurrency))
  BY DEF fit
<1> HIDE DEF z
<1>4. ~(cfg.size < cfg.parallel * OneFile)
  BY <1>2, <1>3 DEF limited, unlimited, OneFile, Concurrency
<1>5. Size \in Nat /\ Concurrency \in Nat \ {0} /\ cfg.parallel \in Nat \ {0}
  BY ConfigTypes, PoolConstants
<1>6. OneFile \in Nat
  BY <1>5, PartsPerFile DEF OneFile
<1>7. cfg.parallel * OneFile \in Nat
  BY <1>5, <1>6
<1>8. Concurrency > 1 => OneFile = Concurrency + read_ahead_depth(Concurrency) + 2
  BY <1>5 DEF OneFile, parts_per_file
<1> QED BY <1>4, <1>5, <1>6, <1>7, <1>8 DEF Size

\* An open read has room for one more slot while its acquire() is pending.
LEMMA SlotsOfOpen ==
  ASSUME PoolInv, UsageInv, ~limited(cfg.sizing), NEW r \in Reads, st[r] = "open"
  PROVE  /\ FirstPart(r) \in Int /\ FirstPart(r) >= 1 /\ taken[r] \in Int
         /\ taken[r] - FirstPart(r) + 1 <= OneFile
         /\ acq[r] # "idle" => taken[r] - FirstPart(r) + 1 < OneFile
         /\ acq[r] # "idle" => Unannounced(r) < OneFile
         /\ Unannounced(r) \in Int
         /\ \A p \in Int : <<r, p>> \in live <=> p \in FirstPart(r)..taken[r]
<1>1. PoolTypes /\ CountsInv(r) /\ SlotsInv(r) /\ FlowInv(r) /\ LeftInv(r)
  BY DEF PoolInv, UsageInv, ReadInv
<1>2. /\ taken[r] \in Int /\ out[r] \in Int /\ recv[r] \in Int /\ held[r] \in Int
      /\ inhand[r] \in BOOLEAN /\ Concurrency \in Nat /\ read_ahead_depth(Concurrency) \in Nat
      /\ cfg \in Configs
  BY <1>1, DepthType DEF PoolTypes
<1>3. OneFile = Concurrency + read_ahead_depth(Concurrency) + 2
  BY <1>1, <1>2, UnlimitedPool DEF LeftInv
<1> DEFINE depth == read_ahead_depth(Concurrency)
<1>4. /\ taken[r] - out[r] <= Concurrency
      /\ acq[r] # "idle" => taken[r] - out[r] < Concurrency
      /\ out[r] - recv[r] <= depth + 1
  BY <1>1, <1>2 DEF FlowInv
<1>5. /\ held[r] = taken[r] - recv[r] + (IF cln[r] \in {"busy", "permit"} THEN 1 ELSE 0)
      /\ \A p \in Int : <<r, p>> \in live <=> p \in FirstPart(r)..taken[r]
  BY <1>1 DEF SlotsInv, FirstPart
<1>6. 0 <= recv[r] /\ (cln[r] = "busy" => recv[r] > 0)
  BY <1>1 DEF CountsInv
<1> HIDE DEF depth
<1>7. FirstPart(r) \in Int /\ FirstPart(r) >= 1 /\ FirstPart(r) >= recv[r]
  BY <1>2, <1>6 DEF FirstPart
<1>8. Unannounced(r) \in Int /\ Unannounced(r) <= taken[r] - recv[r] + 1
  BY <1>2, <1>5 DEF Unannounced
<1> QED BY <1>2, <1>3, <1>4, <1>5, <1>7, <1>8 DEF depth

\* The open reads are within the files at a time, and so are the readers of the
\* pool once no dropped attempt is left.
LEMMA FewReaders ==
  ASSUME PoolInv, UsageInv, MemInv, \A r \in Reads : st[r] # "dropping"
  PROVE  LET open == {r \in Reads : st[r] = "open"}
         IN  /\ IsFiniteSet(open) /\ Cardinality(open) \in Nat
             /\ Cardinality(open) <= cfg.parallel
             /\ Cardinality(reg) \in Nat /\ Cardinality(reg) <= cfg.parallel
<1> DEFINE open == {r \in Reads : st[r] = "open"}
<1>1. IsFiniteSet(open) /\ Cardinality(open) \in Nat
  BY PoolConstants, FS_Subset, FS_CardinalityType
<1>2. reg \subseteq open
  BY DEF PoolInv, PoolTypes, UsageInv, LeftInv
<1>3. Cardinality(reg) \in Nat /\ Cardinality(reg) <= Cardinality(open)
  BY <1>1, <1>2, FS_Subset, FS_CardinalityType
<1>4. Cardinality(open) <= cfg.parallel /\ cfg.parallel \in Nat
  BY PoolConstants DEF MemInv
<1> QED BY <1>1, <1>3, <1>4

\* A share of an unlimited pool is all that a file can hold.
LEMMA ShareIsEnough ==
  ASSUME PoolInv, UsageInv, MemInv, ~limited(cfg.sizing), \A r \in Reads : st[r] # "dropping"
  PROVE  fair_share >= OneFile
<1> DEFINE k == AtLeastOne(Cardinality(reg))
<1>1. /\ Size \in Nat /\ cfg.parallel \in Nat \ {0} /\ OneFile \in Nat
      /\ cfg.parallel * OneFile <= Size
  BY UnlimitedPool DEF PoolInv, PoolTypes
<1>2. Cardinality(reg) \in Nat /\ Cardinality(reg) <= cfg.parallel
  BY FewReaders
<1>3. k \in Nat \ {0} /\ k <= cfg.parallel
  BY <1>1, <1>2 DEF AtLeastOne
<1> HIDE DEF k
<1>4. k * OneFile <= cfg.parallel * OneFile /\ k * OneFile \in Nat /\ cfg.parallel * OneFile \in Nat
  BY <1>1, <1>3, ProductGrows
<1>5. /\ Size \div k \in Nat /\ Size < (Size \div k) * k + k
  BY <1>1, <1>3, DivisionRoundsDown
<1>6. Size \div k >= OneFile
  <2> SUFFICES ASSUME (Size \div k) + 1 <= OneFile PROVE FALSE
    BY <1>1, <1>5
  <2>1. ((Size \div k) + 1) * k <= OneFile * k
    BY <1>1, <1>3, <1>5, ProductGrows
  <2>2. ((Size \div k) + 1) * k = (Size \div k) * k + k /\ OneFile * k = k * OneFile
    BY <1>1, <1>3, <1>5
  <2>3. (Size \div k) * k \in Nat
    BY <1>3, <1>5
  <2> QED BY <1>1, <1>3, <1>4, <1>5, <2>1, <2>2, <2>3
<1> QED BY <1>1, <1>5, <1>6 DEF fair_share, AtLeastOne, k

\* No read queues in an unlimited pool: live slots and granted permits go into the
\* slots of the open reads, one by one, and the one the queued read asks for is left.
LEMMA NobodyQueues ==
  ASSUME PoolInv, UsageInv, MemInv, ~limited(cfg.sizing), \A x \in Reads : st[x] # "dropping",
         NEW r \in Reads, acq[r] = "queue"
  PROVE  FALSE
<1> DEFINE open    == {x \in Reads : st[x] = "open"}
           granted == Granted(acq)
           Tokens  == live \cup (granted \X {0})
           Places  == open \X (1..OneFile)
           f       == [t \in Tokens |->
                         <<t[1], IF t[2] = 0 THEN taken[t[1]] - FirstPart(t[1]) + 2
                                 ELSE t[2] - FirstPart(t[1]) + 1>>]
<1>1. PoolTypes /\ QueueInv /\ SlotsConserved
  BY DEF PoolInv
<1>2. /\ Size \in Nat /\ cfg.parallel \in Nat \ {0} /\ OneFile \in Nat
      /\ cfg.parallel * OneFile <= Size
  BY <1>1, UnlimitedPool DEF PoolTypes
<1>3. \A x \in Reads : acq[x] # "idle" => x \in open
  BY DEF UsageInv, LeftInv
<1>4. \A x \in Reads : \A p \in Int : <<x, p>> \in live => x \in open
  BY <1>1 DEF UsageInv, LeftInv, PoolTypes
<1>5. \A x \in open :
        /\ FirstPart(x) \in Int /\ FirstPart(x) >= 1 /\ taken[x] \in Int
        /\ taken[x] - FirstPart(x) + 1 <= OneFile
        /\ acq[x] # "idle" => taken[x] - FirstPart(x) + 1 < OneFile
        /\ \A p \in Int : <<x, p>> \in live <=> p \in FirstPart(x)..taken[x]
  BY SlotsOfOpen
<1>6. free = 0
  <2>1. queue # <<>>
    BY <1>1 DEF QueueInv, InQueue, PoolTypes
  <2> QED BY <2>1 DEF UsageInv, QueueFree
<1>7. IsFiniteSet(live) /\ IsFiniteSet(granted)
  BY <1>1, PoolConstants, FS_Subset DEF PoolTypes, Granted
<1>8. IsFiniteSet(Tokens) /\ Cardinality(Tokens) = Size
  <2>1. IsFiniteSet({0}) /\ Cardinality({0}) = 1
    BY FS_Singleton
  <2>2. Cardinality(live) \in Nat /\ Cardinality(granted) \in Nat
    BY <1>7, FS_CardinalityType
  <2>3. IsFiniteSet(granted \X {0}) /\ Cardinality(granted \X {0}) = Cardinality(granted)
    BY <1>7, <2>1, <2>2, FS_Product
  <2>4. live \cap (granted \X {0}) = {}
    <3>1. ASSUME NEW x \in Reads, <<x, 0>> \in live PROVE FALSE
      BY <1>2, <1>4, <1>5, <3>1
    <3> QED BY <3>1 DEF Granted
  <2>5. IsFiniteSet(Tokens)
        /\ Cardinality(Tokens) = Cardinality(live) + Cardinality(granted \X {0})
                                   - Cardinality(live \cap (granted \X {0}))
    BY <1>7, <2>3, FS_Union
  <2>6. Cardinality(Tokens) = Cardinality(live) + Cardinality(granted)
    <3>1. Cardinality(live \cap (granted \X {0})) = 0
      BY <2>4, FS_EmptySet
    <3> HIDE DEF Tokens, granted
    <3> QED BY <2>2, <2>3, <2>5, <3>1
  <2>7. free + Cardinality(live) + Cardinality(granted) = Size
    BY <1>1, SlotsEquation
  <2> QED BY <1>6, <2>2, <2>5, <2>6, <2>7
<1>9. IsFiniteSet(Places) /\ Cardinality(Places) \in Nat /\ Cardinality(Places) <= Size
  <2>1. /\ IsFiniteSet(open) /\ Cardinality(open) \in Nat /\ Cardinality(open) <= cfg.parallel
    BY FewReaders
  <2>2. IsFiniteSet(1..OneFile) /\ Cardinality(1..OneFile) = OneFile
    BY <1>2, FS_Interval
  <2>3. IsFiniteSet(Places) /\ Cardinality(Places) = Cardinality(open) * OneFile
    BY <2>1, <2>2, FS_Product
  <2>4. Cardinality(open) * OneFile <= cfg.parallel * OneFile
    BY <1>2, <2>1, ProductGrows
  <2>5. Cardinality(open) * OneFile \in Nat /\ cfg.parallel * OneFile \in Nat
    BY <1>2, <2>1
  <2> QED BY <1>2, <2>3, <2>4, <2>5
<1>10. ASSUME NEW t \in Tokens
       PROVE  \/ \E x \in open, p \in Int :
                   /\ t = <<x, p>> /\ p \in FirstPart(x)..taken[x]
                   /\ f[t] = <<x, p - FirstPart(x) + 1>>
              \/ \E x \in open \ {r} :
                   /\ t = <<x, 0>> /\ acq[x] # "idle"
                   /\ f[t] = <<x, taken[x] - FirstPart(x) + 2>>
  <2>1. CASE t \in live
    <3>1. PICK x \in Reads, p \in Int : t = <<x, p>>
      BY <1>1, <2>1 DEF PoolTypes
    <3>2. x \in open /\ p \in FirstPart(x)..taken[x] /\ p # 0
      BY <1>4, <1>5, <2>1, <3>1
    <3> QED BY <3>1, <3>2
  <2>2. CASE t \in granted \X {0}
    <3>1. PICK x \in granted : t = <<x, 0>>
      BY <2>2
    <3>2. x \in open \ {r} /\ acq[x] # "idle"
      BY <1>3 DEF Granted
    <3> QED BY <3>1, <3>2
  <2> QED BY <2>1, <2>2
<1> HIDE DEF f, Tokens
<1>11. ASSUME NEW t \in Tokens PROVE f[t] \in Places /\ f[t] # <<r, OneFile>>
  <2>1. CASE \E x \in open, p \in Int : /\ t = <<x, p>> /\ p \in FirstPart(x)..taken[x]
                                        /\ f[t] = <<x, p - FirstPart(x) + 1>>
    <3>1. PICK x \in open, p \in Int : /\ t = <<x, p>> /\ p \in FirstPart(x)..taken[x]
                                       /\ f[t] = <<x, p - FirstPart(x) + 1>>
      BY <2>1
    <3>2. p - FirstPart(x) + 1 \in 1..OneFile
      BY <1>2, <1>5, <3>1
    <3>3. x = r => p - FirstPart(x) + 1 < OneFile
      BY <1>2, <1>5, <3>1
    <3> QED BY <1>2, <3>1, <3>2, <3>3
  <2>2. CASE \E x \in open \ {r} : /\ t = <<x, 0>> /\ acq[x] # "idle"
                                   /\ f[t] = <<x, taken[x] - FirstPart(x) + 2>>
    <3>1. PICK x \in open \ {r} : /\ acq[x] # "idle"
                                  /\ f[t] = <<x, taken[x] - FirstPart(x) + 2>>
      BY <2>2
    <3>2. taken[x] >= FirstPart(x) - 1
      <4>1. CountsInv(x) /\ taken[x] \in Int /\ recv[x] \in Int /\ out[x] \in Int
        BY <1>1 DEF PoolInv, ReadInv, PoolTypes
      <4> QED BY <4>1 DEF CountsInv, FirstPart
    <3>3. taken[x] - FirstPart(x) + 2 \in 1..OneFile
      BY <1>2, <1>5, <3>1, <3>2
    <3> QED BY <3>1, <3>3
  <2> QED BY <1>10, <2>1, <2>2
<1>12. ASSUME NEW t \in Tokens, NEW u \in Tokens, f[t] = f[u] PROVE t = u
  <2> DEFINE A(v) == \E x \in open, p \in Int : /\ v = <<x, p>> /\ p \in FirstPart(x)..taken[x]
                                                /\ f[v] = <<x, p - FirstPart(x) + 1>>
             B(v) == \E x \in open \ {r} : /\ v = <<x, 0>> /\ acq[x] # "idle"
                                           /\ f[v] = <<x, taken[x] - FirstPart(x) + 2>>
  <2>1. (A(t) \/ B(t)) /\ (A(u) \/ B(u))
    BY <1>10
  <2>2. CASE A(t) /\ A(u)
    BY <1>5, <1>12, <2>2
  <2>3. CASE B(t) /\ B(u)
    BY <1>12, <2>3
  <2>4. CASE A(t) /\ B(u)
    BY <1>5, <1>12, <2>4
  <2>5. CASE B(t) /\ A(u)
    BY <1>5, <1>12, <2>5
  <2> QED BY <2>1, <2>2, <2>3, <2>4, <2>5
<1>13. f \in Injection(Tokens, Places)
  <2>1. f \in [Tokens -> Places]
    BY <1>11 DEF f
  <2> QED BY <1>12, <2>1 DEF Injection, IsInjective
<1>14. /\ Cardinality(Tokens) <= Cardinality(Places)
       /\ Cardinality(Tokens) = Cardinality(Places) => f \in Surjection(Tokens, Places)
  BY <1>9, <1>13, FS_Injection
<1>15. f \in Surjection(Tokens, Places)
  BY <1>2, <1>8, <1>9, <1>14
<1>16. <<r, OneFile>> \in Places
  <2>1. r \in open /\ acq[r] # "idle"
    BY <1>3
  <2>2. Concurrency > 1 /\ Concurrency \in Nat /\ read_ahead_depth(Concurrency) \in Nat
    BY <1>1, <2>1, DepthType DEF UsageInv, LeftInv
  <2>3. OneFile = Concurrency + read_ahead_depth(Concurrency) + 2
    BY <1>1, <2>2, UnlimitedPool DEF PoolTypes
  <2> QED BY <2>1, <2>2, <2>3
<1>17. \E t \in Tokens : f[t] = <<r, OneFile>>
  BY <1>15, <1>16 DEF Surjection
<1> QED BY <1>11, <1>17

\* "A larger pool would never be used", for every container, every setting and every
\* number of reads and parts: when the sizing did not limit the copy and no dropped
\* attempt holds on to slots, no read waits for a slot or sleeps below its share.
THEOREM LargerPoolIsOfNoUse == Spec => []NoNeedlessWait
<1>1. PoolInv /\ UsageInv /\ MemInv /\ (\A x \in Reads : ~Stranded(x)) => NoNeedlessWait
  <2> SUFFICES ASSUME PoolInv, UsageInv, MemInv, \A x \in Reads : ~Stranded(x),
                      ~limited(cfg.sizing), \A x \in Reads : st[x] # "dropping",
                      NEW r \in Reads
               PROVE  /\ acq[r] # "queue"
                      /\ acq[r] = "wait" => own[r] # "waiting" \/ share[r]
    BY DEF NoNeedlessWait
  <2>1. acq[r] # "queue"
    BY NobodyQueues
  <2>2. ASSUME acq[r] = "wait", own[r] = "waiting", ~share[r] PROVE FALSE
    <3>1. st[r] = "open"
      BY <2>2 DEF UsageInv, LeftInv
    <3>2. Asleep(r)
      BY <2>2, <3>1 DEF Asleep
    <3>3. fair_share >= OneFile /\ fair_share \in Nat /\ OneFile \in Nat
      BY ShareIsEnough, FairShareType, UnlimitedPool DEF PoolInv, PoolTypes
    <3>4. Unannounced(r) < OneFile /\ Unannounced(r) \in Int
      BY <2>2, <3>1, SlotsOfOpen
    <3> QED BY <3>2, <3>3, <3>4 DEF Stranded
  <2> QED BY <2>1, <2>2
<1> QED BY <1>1, PoolInvariant, PoolUsage, MemInvHolds, NoneStranded, PTL
=============================================================================
