--------------------------- MODULE Verify_proofs ----------------------------
(***************************************************************************)
(* Proofs about the destination check.                                     *)
(*                                                                         *)
(* The check reads two buckets that change under it, so each piece of what *)
(* it knows is a fact about an earlier moment.  The invariant says which   *)
(* of these facts are still true:                                          *)
(*                                                                         *)
(*   - a file that pass 1 saw is still there, with that size: only files   *)
(*     that are absent arrive (ListedInv);                                 *)
(*   - a key the source did not touch has its planned size in every page,  *)
(*     so a verdict on it compares the destination with the plan           *)
(*     (SourceInv, VerdictInv);                                            *)
(*   - every such key of a suspect range the re-listing has passed has a   *)
(*     verdict, or is in the page in hand (CoverInv).                      *)
(*                                                                         *)
(* QuietInv is the same without changes, and exact.                        *)
(***************************************************************************)
EXTENDS Verify, FiniteSetTheorems, WellFoundedInduction, TLAPS

\* A key of a suspect range that the re-listing has passed.
Relisted(k) == k <= at /\ \E i \in Ranges : Suspect(i) /\ k \in Window(i)

\* Where the check is: pass 2 starts from nothing when the listing is complete,
\* goes through suspect ranges only, and leaves none behind.
PlaceInv ==
  /\ pc \in {"settle", "tree"} =>
       idx = 0 /\ at = 0 /\ present = {} /\ missing = {} /\ short = {} /\ extra = 0
  /\ pc = "settle" => cursor = 0
  /\ pc \notin {"settle", "tree", "err"} => cursor = NumKeys
  /\ pc \in {"relist", "info", "heads"} =>
       idx \in Ranges /\ Suspect(idx) /\ Start(idx) <= at /\ at <= Stops[idx]
  /\ pc = "heads" => at = Stops[idx]
  /\ pc \in {"range", "done"} => at = IF idx = 0 THEN 0 ELSE Stops[idx]
  /\ pc = "done" => \A i \in Ranges : Suspect(i) => i <= idx
  /\ pc \notin {"info", "err"} => \A k \in Keys : page[k] = Absent
  /\ \A k \in Keys : page[k] # Absent => k \in Kept

\* What pass 1 saw stays, and it saw nothing beyond its cursor.
ListedInv ==
  \A k \in Keys : /\ listed[k] # Absent => dest[k] = listed[k]
                  /\ k > cursor => listed[k] = Absent

\* An untouched key is planned, and has its planned size at the source and in the page.
SourceInv ==
  \A k \in Keys \ touched : /\ k \in Planned /\ source[k] = PlannedSize[k]
                            /\ page[k] \in {Absent, PlannedSize[k]}

\* Verdicts on untouched keys: a present one is at the destination as planned, one that
\* is missing or short was not seen as planned by pass 1.
VerdictInv ==
  \A k \in Keys \ touched :
    /\ k \in present => dest[k] = PlannedSize[k]
    /\ k \in missing \cup short => listed[k] # PlannedSize[k]

\* The re-listing leaves no untouched key out.
CoverInv ==
  \A k \in Keys \ touched :
    Relisted(k) => k \in present \cup missing \cup short \/ page[k] # Absent

VerifyInv == TypeOK /\ PlaceInv /\ ListedInv /\ SourceInv /\ VerdictInv /\ CoverInv

\* A key of a suspect range that was re-listed, found at the source and looked up.
Judged(k) == Relisted(k) /\ page[k] = Absent /\ k \in Kept /\ source[k] # Absent

\* The last key of the ranges whose count of extra files is in the report.
Counted == IF pc \in {"relist", "info", "heads"} THEN Start(idx) ELSE at

\* The files at the destination of the suspect ranges up to key n that the source
\* does not have.
Strays(n) ==
  {k \in Keys : /\ k <= n /\ \E i \in Ranges : Suspect(i) /\ k \in Window(i)
                /\ ~ (k \in Kept /\ source[k] # Absent) /\ dest[k] # Absent}

\* Without changes pass 1 has seen what is there,
QuietListed ==
  changes = 0 => \A k \in Keys : k <= cursor => listed[k] = dest[k]

\* pass 2 compares it with what is at the source,
QuietVerdicts ==
  changes = 0 /\ pc # "err" =>
    \A k \in Keys :
      /\ page[k] # Absent => page[k] = source[k] /\ Relisted(k)
      /\ k \in present <=> Judged(k) /\ dest[k] = source[k]
      /\ k \in missing <=> Judged(k) /\ dest[k] = Absent
      /\ k \in short   <=> Judged(k) /\ dest[k] \notin {Absent, source[k]}

\* and the extra files are what it has left over.
QuietExtra ==
  changes = 0 /\ pc # "err" => extra = Cardinality(Strays(Counted))

QuietInv == QuietListed /\ QuietVerdicts /\ QuietExtra

-----------------------------------------------------------------------------
(* Numbers, finite sets and ranges.                                        *)

\* A set of natural numbers that is not empty has a least element.
LEMMA SmallestExists ==
  ASSUME NEW S, S \subseteq Nat, S # {}
  PROVE  \E x \in S : \A y \in S : x <= y
<1>1. PICK x \in S : \A y \in S : ~(<<y, x>> \in OpToRel(<, Nat))
  BY WFMin, NatLessThanWellFounded
<1>2. \A y \in S : ~(y < x)
  <2> TAKE y \in S
  <2>1. y < x => <<y, x>> \in OpToRel(<, Nat)
    BY DEF OpToRel
  <2> QED BY <1>1, <2>1
<1> QED BY <1>2

\* Min is the least element of its set.
LEMMA MinInSet ==
  ASSUME NEW S, S \subseteq Nat, S # {}
  PROVE  Min(S) \in S /\ \A y \in S : Min(S) <= y
<1>1. \E x \in S : \A y \in S : x <= y
  BY SmallestExists
<1> QED BY <1>1 DEF Min

\* Max is the greatest element of a bounded set.
LEMMA MaxInSet ==
  ASSUME NEW b \in Nat, NEW S, S \subseteq 1..b, S # {}
  PROVE  Max(S) \in S /\ \A y \in S : y <= Max(S)
<1> DEFINE D == {b - y : y \in S}
<1>0. \A y \in S : y \in Nat /\ b - y \in Nat
  OBVIOUS
<1>1. D \subseteq Nat /\ D # {}
  BY <1>0
<1>2. PICK d \in D : \A e \in D : d <= e
  BY <1>1, SmallestExists
<1>3. PICK x \in S : d = b - x
  OBVIOUS
<1>4. \A y \in S : x >= y
  <2> TAKE y \in S
  <2>1. b - y \in D
    OBVIOUS
  <2>2. b - x <= b - y
    BY <2>1, <1>2, <1>3
  <2> QED BY <2>2
<1>5. \E z \in S : \A y \in S : z >= y
  BY <1>4
<1>6. Max(S) \in S /\ \A y \in S : Max(S) >= y
  BY <1>5 DEF Max
<1> QED BY <1>6

\* The last keys of the ranges are keys, and grow with the range.
LEMMA StopsOrdered ==
  /\ Len(Stops) \in Nat /\ NumKeys \in Nat
  /\ \A i \in Ranges : /\ i \in Nat /\ i >= 1 /\ Stops[i] \in Keys /\ Start(i) \in 0..NumKeys
                       /\ Start(i) <= Stops[i]
  /\ \A i, j \in Ranges : i < j => Stops[i] <= Start(j)
<1>1. Len(Stops) \in Nat /\ NumKeys \in Nat /\ \A i \in Ranges : Stops[i] \in Keys
  BY VerifyConstants DEF Ranges
<1>2. \A i, j \in Ranges : i < j => Stops[i] < Stops[j]
  BY VerifyConstants
<1>3. \A i \in Ranges : /\ i \in Nat /\ i >= 1 /\ Start(i) \in 0..NumKeys
                        /\ Start(i) <= Stops[i]
  <2> TAKE i \in Ranges
  <2>1. CASE i = 1
    BY <2>1, <1>1 DEF Start, Keys
  <2>2. CASE i # 1
    <3>1. i - 1 \in Ranges /\ i - 1 < i
      BY <2>2, <1>1 DEF Ranges
    <3>2. Stops[i - 1] < Stops[i]
      BY <3>1, <1>2
    <3> QED BY <2>2, <3>1, <3>2, <1>1 DEF Start, Keys, Ranges
  <2> QED BY <2>1, <2>2
<1>4. ASSUME NEW i \in Ranges, NEW j \in Ranges, i < j
      PROVE  Stops[i] <= Start(j)
  <2>1. i \in Nat /\ j \in Nat /\ i >= 1 /\ j # 1 /\ j - 1 \in Ranges /\ i <= j - 1
    BY <1>4, <1>1 DEF Ranges
  <2>2. Start(j) = Stops[j - 1] /\ Stops[i] \in Int /\ Stops[j - 1] \in Int
    BY <2>1, <1>1 DEF Start, Keys
  <2>3. i < j - 1 \/ i = j - 1
    BY <2>1
  <2> QED BY <2>1, <2>2, <2>3, <1>2
<1> QED BY <1>1, <1>3, <1>4

\* A key up to the start of a range is in an earlier one, a key past its stop in a
\* later one.
LEMMA WindowOrder ==
  ASSUME NEW i \in Ranges, NEW j \in Ranges, NEW k \in Window(i)
  PROVE  /\ k \in Nat /\ k \in Keys /\ k <= Stops[i] /\ Start(i) < k
         /\ k <= Start(j) => i < j
         /\ j < i => k > Stops[j]
         /\ i < j => k <= Start(j)
         /\ i <= j => k <= Stops[j]
         /\ k \in Window(j) => i = j
<1>1. k \in Nat /\ k \in Keys /\ k <= Stops[i] /\ Start(i) < k
  BY DEF Window, Keys
<1>2. /\ i \in Nat /\ j \in Nat /\ Stops[i] \in Nat /\ Stops[j] \in Nat
      /\ Start(i) \in Nat /\ Start(j) \in Nat /\ Start(j) <= Stops[j]
  BY StopsOrdered DEF Keys
<1>3. (i < j => Stops[i] <= Start(j)) /\ (j < i => Stops[j] <= Start(i))
  BY StopsOrdered
<1>4. k \in Window(j) => Start(j) < k /\ k <= Stops[j]
  BY DEF Window
<1> QED BY <1>1, <1>2, <1>3, <1>4

\* Sets of keys are finite.
LEMMA KeysFinite ==
  ASSUME NEW K, K \subseteq Keys
  PROVE  IsFiniteSet(K) /\ Cardinality(K) \in Nat
<1>1. IsFiniteSet(Keys)
  BY VerifyConstants, FS_Interval DEF Keys
<1> QED BY <1>1, FS_Subset, FS_CardinalityType

\* The first n keys of a set are at most n keys of it.
LEMMA FirstBounded ==
  ASSUME NEW K, K \subseteq Keys, NEW n \in Nat
  PROVE  /\ First(K, n) \subseteq K /\ Cardinality(First(K, n)) \in Nat
         /\ Cardinality(First(K, n)) <= n
<1>0. NumKeys \in Nat
  BY VerifyConstants
<1>2. First(K, n) \subseteq K
  BY DEF First
<1>3. IsFiniteSet(First(K, n)) /\ Cardinality(First(K, n)) \in Nat
  <2>1. First(K, n) \subseteq Keys
    BY <1>2
  <2> QED BY <2>1, KeysFinite
<1>4. CASE First(K, n) = {}
  BY <1>2, <1>4, FS_EmptySet
<1>5. CASE First(K, n) # {}
  <2>1. PICK m \in First(K, n) : \A k \in First(K, n) : k <= m
    BY <1>0, <1>2, <1>5, MaxInSet DEF Keys
  <2> DEFINE upto == {j \in K : j <= m}
  <2>2. First(K, n) \subseteq upto /\ upto \subseteq Keys
    BY <1>2, <2>1
  <2>3. Cardinality(upto) <= n
    BY <2>1 DEF First
  <2> HIDE DEF upto
  <2>4. IsFiniteSet(upto) /\ Cardinality(upto) \in Nat
    BY <2>2, KeysFinite
  <2>5. Cardinality(First(K, n)) <= Cardinality(upto)
    BY <2>2, <2>4, FS_Subset
  <2> QED BY <1>2, <1>3, <2>3, <2>4, <2>5
<1> QED BY <1>4, <1>5

\* Which ranges are suspect is settled by the listing of pass 1.
LEMMA SuspectKept ==
  ASSUME listed' = listed, NEW i
  PROVE  Suspect(i)' <=> Suspect(i)
BY DEF Suspect, Tally

-----------------------------------------------------------------------------
(* Types and places.                                                       *)

\* settle() leaves its variables typed, and returns or goes on.
LEMMA SettleTypes ==
  ASSUME TypeOK, SettleFail \/ SettleMoved \/ SettleQuiet
  PROVE  /\ polls' \in 0..MaxPolls /\ moved' \in BOOLEAN /\ quiet' \in 0..SETTLE_QUIET_POLLS
         /\ settled' \in BOOLEAN /\ pc = "settle" /\ pc' \in {"settle", "tree"}
         /\ UNCHANGED <<env, pass1, idx, at, page, diff, extra, toHead, heads>>
<1>0. /\ MaxPolls \in Nat /\ polls \in 0..MaxPolls /\ quiet \in 0..SETTLE_QUIET_POLLS
      /\ settled \in BOOLEAN
  BY VerifyConstants DEF TypeOK
<1>1. \A b \in BOOLEAN : SettleReturn(b) =>
        /\ polls' \in 0..MaxPolls /\ moved' \in BOOLEAN /\ quiet' \in 0..SETTLE_QUIET_POLLS
        /\ settled' \in BOOLEAN /\ pc' \in {"settle", "tree"}
  <2> TAKE b \in BOOLEAN
  <2>1. SettleReturn(b) => settled' \in BOOLEAN /\ moved' \in BOOLEAN
    BY DEF SettleReturn
  <2>2. SettleReturn(b) => polls' = 0 /\ quiet' = 0 /\ pc' = "tree"
    BY DEF SettleReturn
  <2> QED BY <2>1, <2>2, <1>0 DEF SETTLE_QUIET_POLLS
<1>2. \A q \in 0..SETTLE_QUIET_POLLS : pc = "settle" /\ PollAgain(q) =>
        /\ polls' \in 0..MaxPolls /\ moved' \in BOOLEAN /\ quiet' \in 0..SETTLE_QUIET_POLLS
        /\ settled' \in BOOLEAN /\ pc' \in {"settle", "tree"}
  <2> SUFFICES ASSUME NEW q \in 0..SETTLE_QUIET_POLLS, pc = "settle", PollAgain(q)
               PROVE  /\ polls' \in 0..MaxPolls /\ moved' \in BOOLEAN
                      /\ quiet' \in 0..SETTLE_QUIET_POLLS
                      /\ settled' \in BOOLEAN /\ pc' \in {"settle", "tree"}
    OBVIOUS
  <2>1. CASE SettleReturn(FALSE)
    BY <2>1, <1>1
  <2>2. CASE /\ quiet' = q /\ moved' = FALSE
             /\ polls' = (IF polls < MaxPolls THEN polls + 1 ELSE polls)
             /\ UNCHANGED <<pc, settled>>
    <3>1. moved' \in BOOLEAN /\ settled' \in BOOLEAN
      BY <2>2, <1>0
    <3>2. polls' \in 0..MaxPolls /\ quiet' \in 0..SETTLE_QUIET_POLLS
      BY <2>2, <1>0
    <3> QED BY <3>1, <3>2, <2>2
  <2> QED BY <2>1, <2>2 DEF PollAgain
<1>3. CASE SettleFail
  BY <1>1, <1>3 DEF SettleFail
<1>4. CASE SettleMoved
  BY <1>2, <1>4 DEF SettleMoved, SETTLE_QUIET_POLLS
<1>5. CASE SettleQuiet
  <2>1. quiet + 1 < SETTLE_QUIET_POLLS => quiet + 1 \in 0..SETTLE_QUIET_POLLS
    BY <1>0 DEF SETTLE_QUIET_POLLS
  <2>2. quiet + 1 >= SETTLE_QUIET_POLLS \/ quiet + 1 < SETTLE_QUIET_POLLS
    BY <1>0 DEF SETTLE_QUIET_POLLS
  <2>3. SettleReturn(TRUE) \/ (quiet + 1 < SETTLE_QUIET_POLLS /\ PollAgain(quiet + 1))
    BY <1>5, <2>2 DEF SettleQuiet
  <2>4. pc = "settle" /\ UNCHANGED <<env, pass1, idx, at, page, diff, extra, toHead, heads>>
    BY <1>5 DEF SettleQuiet
  <2> HIDE DEF SETTLE_QUIET_POLLS
  <2> QED BY <2>1, <2>3, <2>4, <1>1, <1>2
<1> QED BY <1>3, <1>4, <1>5

\* Every step keeps the types.
LEMMA TypeStep ==
  ASSUME TypeOK, PlaceInv, [Next]_vars
  PROVE  TypeOK'
<1>0. /\ NumKeys \in Nat /\ Kept \subseteq Keys /\ Planned \subseteq Kept
      /\ Sizes \subseteq Nat /\ PlannedSize \in [Planned -> Sizes]
      /\ MAX_SOURCE_HEADS \in Nat /\ MaxPolls \in Nat /\ MaxChanges \in Nat
  BY VerifyConstants
<1>1. CASE SettleFail \/ SettleMoved \/ SettleQuiet
  BY <1>1, SettleTypes DEF TypeOK, env, pass1, diff
<1>2. CASE TreePage
  <2>1. cursor' \in 0..NumKeys /\ listed' \in [Keys -> Object]
    BY <1>0, <1>2 DEF TreePage, TypeOK, Keys
  <2> QED BY <1>2, <2>1 DEF TreePage, TypeOK, env, settle, diff
<1>3. CASE TreeEnd
  BY <1>3 DEF TreeEnd, TypeOK, env, settle, pass1, diff
<1>4. CASE NextRange
  <2> DEFINE rest == {i \in Ranges : i > idx /\ Suspect(i)}
  <2>1. pc' \in {"done", "relist"} /\ idx' \in 0..Len(Stops) /\ at' \in 0..NumKeys
    <3>1. CASE rest = {}
      BY <1>4, <3>1 DEF NextRange, TypeOK
    <3>2. CASE rest # {}
      <4>1. rest \subseteq Nat /\ rest \subseteq Ranges
        BY StopsOrdered
      <4>2. Min(rest) \in Ranges
        BY <3>2, <4>1, MinInSet
      <4>3. pc' = "relist" /\ idx' = Min(rest) /\ at' = Start(Min(rest))
        BY <1>4, <3>2 DEF NextRange
      <4> HIDE DEF rest
      <4> QED BY <4>2, <4>3, StopsOrdered DEF Ranges
    <3> QED BY <3>1, <3>2
  <2> QED BY <1>4, <2>1 DEF NextRange, TypeOK, env, settle, pass1, diff
<1>5. ASSUME NEW q \in Keys, SourcePage(q)
      PROVE  TypeOK'
  <2>1. page' \in [Keys -> Object] /\ at' \in 0..NumKeys /\ pc' = "info"
    BY <1>0, <1>5 DEF SourcePage, TypeOK, Object, Keys
  <2> QED BY <1>5, <2>1 DEF SourcePage, TypeOK, env, settle, pass1, diff
<1>6. CASE PathsInfo
  <2>1. page' \in [Keys -> Object]
    BY <1>6 DEF PathsInfo, Object
  <2>2. present' \in SUBSET Kept /\ missing' \in SUBSET Kept /\ short' \in SUBSET Kept
    BY <1>6 DEF PathsInfo, TypeOK, PlaceInv
  <2>3. pc' \in {"relist", "heads"} /\ toHead' \in SUBSET missing' /\ heads' \in 0..MAX_SOURCE_HEADS
    <3>1. CASE at < Stops[idx]
      <4>1. pc' = "relist" /\ UNCHANGED <<toHead, heads>> /\ missing \subseteq missing'
        BY <1>6, <3>1 DEF PathsInfo
      <4> QED BY <4>1 DEF TypeOK
    <3>2. CASE ~(at < Stops[idx])
      <4>1. /\ pc' = "heads" /\ toHead' = First(missing' \cap Window(idx), heads)
            /\ heads' = heads - Cardinality(toHead')
        BY <1>6, <3>2 DEF PathsInfo
      <4>2. heads \in 0..MAX_SOURCE_HEADS
        BY DEF TypeOK
      <4>3. /\ toHead' \subseteq missing' \cap Window(idx)
            /\ Cardinality(toHead') \in Nat /\ Cardinality(toHead') <= heads
        <5>1. missing' \cap Window(idx) \subseteq Keys /\ heads \in Nat
          BY <1>0, <2>2, <4>2
        <5> QED BY <5>1, <4>1, FirstBounded
      <4>4. heads' \in 0..MAX_SOURCE_HEADS
        BY <1>0, <4>1, <4>2, <4>3
      <4> QED BY <4>1, <4>3, <4>4
    <3> QED BY <3>1, <3>2
  <2> QED BY <1>6, <2>1, <2>2, <2>3 DEF PathsInfo, TypeOK, env, settle, pass1
<1>7. ASSUME NEW k \in Keys, SourceHead(k)
      PROVE  TypeOK'
  <2>1. missing' \in SUBSET Kept /\ raced' \in SUBSET Kept /\ toHead' \in SUBSET missing'
    BY <1>7 DEF SourceHead, TypeOK
  <2> QED BY <1>7, <2>1 DEF SourceHead, TypeOK, env, settle, pass1
<1>8. CASE RangeEnd
  <2>1. extra' \in Nat
    <3>1. Cardinality(Tally(idx)) \in Nat
      <4>1. Tally(idx) \subseteq Keys
        BY DEF Tally
      <4> QED BY <4>1, KeysFinite
    <3>2. Cardinality(Window(idx) \cap (present \cup short)) \in Nat
      <4>1. Window(idx) \cap (present \cup short) \subseteq Keys
        BY DEF Window
      <4> QED BY <4>1, KeysFinite
    <3>3. ExtraOf(idx) \in Nat
      BY <3>1, <3>2 DEF ExtraOf
    <3> QED BY <1>8, <3>3 DEF RangeEnd, TypeOK
  <2> QED BY <1>8, <2>1 DEF RangeEnd, TypeOK, env, settle, pass1, diff
<1>9. CASE CheckFail
  BY <1>9 DEF CheckFail, TypeOK, env, settle, pass1, diff
<1>10. ASSUME NEW k \in Keys, LateOp(k)
       PROVE  TypeOK'
  <2>1. moved' \in BOOLEAN
    BY <1>10 DEF LateOp
  <2>2. dest' \in [Keys -> Object] /\ changes' \in 0..MaxChanges
    BY <1>0, <1>10 DEF LateOp, TypeOK, Object
  <2> QED BY <1>10, <2>1, <2>2 DEF LateOp, TypeOK, pass1, diff
<1>11. ASSUME NEW k \in Keys, SourceChanges(k)
       PROVE  TypeOK'
  <2>1. source' \in [Keys -> Object] /\ changes' \in 0..MaxChanges /\ touched' \in SUBSET Keys
    BY <1>0, <1>11 DEF SourceChanges, TypeOK
  <2> QED BY <1>11, <2>1 DEF SourceChanges, TypeOK, settle, pass1, diff
<1>12. CASE UNCHANGED vars
  BY <1>12 DEF TypeOK, vars
<1> QED
  BY <1>1, <1>2, <1>3, <1>4, <1>5, <1>6, <1>7, <1>8, <1>9, <1>10, <1>11, <1>12
  DEF Next, Check, Over

\* The next range of pass 2 is the next suspect one; without one, pass 2 is done.
LEMMA RangeChosen ==
  ASSUME TypeOK, NextRange
  PROVE  \/ /\ pc' = "done" /\ UNCHANGED <<idx, at>>
            /\ \A i \in Ranges : Suspect(i) => i <= idx
         \/ \E r \in Ranges :
              /\ pc' = "relist" /\ idx' = r /\ at' = Start(r) /\ Suspect(r) /\ idx < r
              /\ \A i \in Ranges : Suspect(i) /\ i < r => i <= idx
<1> DEFINE rest == {i \in Ranges : i > idx /\ Suspect(i)}
<1>0. idx \in Nat /\ rest \subseteq Nat /\ rest \subseteq Ranges /\ \A i \in Ranges : i \in Nat
  BY StopsOrdered DEF TypeOK
<1>1. CASE rest = {}
  <2>1. pc' = "done" /\ UNCHANGED <<idx, at>>
    BY <1>1 DEF NextRange
  <2>2. \A i \in Ranges : Suspect(i) => i <= idx
    BY <1>0, <1>1
  <2> QED BY <2>1, <2>2
<1>2. CASE rest # {}
  <2>1. PICK r : r = Min(rest)
    OBVIOUS
  <2>2. pc' = "relist" /\ idx' = r /\ at' = Start(r)
    BY <1>2, <2>1 DEF NextRange
  <2>3. r \in rest /\ \A i \in rest : r <= i
    <3>1. rest \subseteq Nat /\ rest # {}
      BY <1>0, <1>2
    <3> HIDE DEF rest
    <3>2. Min(rest) \in rest /\ \A i \in rest : Min(rest) <= i
      BY <3>1, MinInSet
    <3> QED BY <2>1, <3>2
  <2>4. r \in Ranges /\ Suspect(r) /\ idx < r
    BY <2>3, <1>0
  <2>5. ASSUME NEW i \in Ranges, Suspect(i), i < r
        PROVE  i <= idx
    BY <2>5, <2>3, <2>4, <1>0
  <2> QED BY <2>2, <2>4, <2>5
<1> QED BY <1>1, <1>2

\* Every step keeps the check in its place.
LEMMA PlaceStep ==
  ASSUME TypeOK, PlaceInv, [Next]_vars
  PROVE  PlaceInv'
<1>1. CASE SettleFail \/ SettleMoved \/ SettleQuiet
  <2>1. /\ pc = "settle" /\ pc' \in {"settle", "tree"}
        /\ UNCHANGED <<env, pass1, idx, at, page, diff, extra, toHead, heads>>
    BY <1>1, SettleTypes
  <2> QED BY <2>1 DEF PlaceInv, pass1, diff
<1>2. CASE TreePage
  BY <1>2 DEF TreePage, PlaceInv, diff
<1>3. CASE TreeEnd
  BY <1>3 DEF TreeEnd, PlaceInv, pass1, diff
<1>4. CASE NextRange
  <2>1. /\ pc = "range" /\ pc' \in {"done", "relist"}
        /\ UNCHANGED <<cursor, listed, page, present, missing, short, extra>>
    BY <1>4 DEF NextRange, pass1, diff
  <2>2. \A i : Suspect(i)' <=> Suspect(i)
    BY <2>1, SuspectKept
  <2>3. CASE /\ pc' = "done" /\ UNCHANGED <<idx, at>>
             /\ \A i \in Ranges : Suspect(i) => i <= idx
    BY <2>1, <2>2, <2>3 DEF PlaceInv
  <2>4. CASE \E r \in Ranges :
               /\ pc' = "relist" /\ idx' = r /\ at' = Start(r) /\ Suspect(r) /\ idx < r
               /\ \A i \in Ranges : Suspect(i) /\ i < r => i <= idx
    <3>1. PICK r \in Ranges : pc' = "relist" /\ idx' = r /\ at' = Start(r) /\ Suspect(r)
      BY <2>4
    <3>2. Start(r) \in Int /\ Start(r) <= Start(r) /\ Start(r) <= Stops[r]
      BY StopsOrdered
    <3>3. idx' \in Ranges /\ Suspect(idx)' /\ Start(idx)' <= at' /\ at' <= Stops[idx]'
      <4>1. Start(idx)' = Start(r)
        BY <3>1 DEF Start
      <4>2. Suspect(idx)' <=> Suspect(r)
        BY <3>1, <2>1 DEF Suspect, Tally, Window, Start
      <4> QED BY <3>1, <3>2, <4>1, <4>2
    <3> QED BY <2>1, <3>1, <3>3 DEF PlaceInv
  <2> QED BY <1>4, <2>3, <2>4, RangeChosen
<1>5. ASSUME NEW q \in Keys, SourcePage(q)
      PROVE  PlaceInv'
  <2>1. /\ pc = "relist" /\ at < q /\ q <= Stops[idx] /\ at' = q /\ pc' = "info"
        /\ UNCHANGED <<cursor, listed, idx>>
    BY <1>5 DEF SourcePage, pass1
  <2>2. Suspect(idx)' <=> Suspect(idx)
    BY <2>1 DEF Suspect, Tally, Window, Start
  <2>3. Start(idx)' <= at' /\ at' <= Stops[idx]'
    <3>1. idx \in Ranges /\ Start(idx) <= at /\ at \in Int /\ q \in Int /\ Start(idx) \in Int
      BY <2>1, StopsOrdered DEF PlaceInv, TypeOK, Keys
    <3>2. Start(idx)' = Start(idx)
      BY <2>1 DEF Start
    <3> QED BY <2>1, <3>1, <3>2
  <2>4. \A k \in Keys : page'[k] # Absent => k \in Kept
    BY <1>5 DEF SourcePage
  <2> QED BY <2>1, <2>2, <2>3, <2>4 DEF PlaceInv
<1>6. CASE PathsInfo
  <2>1. /\ pc = "info" /\ pc' = (IF at < Stops[idx] THEN "relist" ELSE "heads")
        /\ page' = [k \in Keys |-> Absent]
        /\ UNCHANGED <<cursor, listed, idx, at>>
    BY <1>6 DEF PathsInfo, pass1
  <2>2. Suspect(idx)' <=> Suspect(idx)
    BY <2>1 DEF Suspect, Tally, Window, Start
  <2>3. Start(idx)' = Start(idx)
    BY <2>1 DEF Start
  <2>4. idx \in Ranges /\ at <= Stops[idx] /\ at \in Int /\ Stops[idx] \in Int
    BY <2>1, StopsOrdered DEF PlaceInv, TypeOK, Keys
  <2> QED BY <2>1, <2>2, <2>3, <2>4 DEF PlaceInv
<1>7. ASSUME NEW k \in Keys, SourceHead(k)
      PROVE  PlaceInv'
  <2>1. pc = "heads" /\ UNCHANGED <<pc, cursor, listed, idx, at, page>>
    BY <1>7 DEF SourceHead, pass1
  <2>2. Suspect(idx)' <=> Suspect(idx)
    BY <2>1 DEF Suspect, Tally, Window, Start
  <2>3. Start(idx)' = Start(idx)
    BY <2>1 DEF Start
  <2> QED BY <2>1, <2>2, <2>3 DEF PlaceInv
<1>8. CASE RangeEnd
  <2>1. pc = "heads" /\ pc' = "range" /\ UNCHANGED <<cursor, listed, idx, at, page>>
    BY <1>8 DEF RangeEnd, pass1
  <2>2. idx \in Ranges /\ idx # 0 /\ at = Stops[idx]
    BY <2>1, StopsOrdered DEF PlaceInv
  <2> QED BY <2>1, <2>2 DEF PlaceInv
<1>9. CASE CheckFail
  <2>1. pc' = "err" /\ UNCHANGED page
    BY <1>9 DEF CheckFail
  <2> QED BY <2>1 DEF PlaceInv
<1>10. CASE UNCHANGED <<pc, cursor, listed, idx, at, page, present, missing, short, extra>>
  <2>1. \A i : Suspect(i)' <=> Suspect(i)
    BY <1>10, SuspectKept
  <2>2. Start(idx)' = Start(idx) /\ (Suspect(idx)' <=> Suspect(idx))
    BY <1>10 DEF Start, Suspect, Tally, Window
  <2> QED BY <1>10, <2>1, <2>2 DEF PlaceInv
<1>11. (\E k \in Keys : LateOp(k) \/ SourceChanges(k)) \/ UNCHANGED vars
         => UNCHANGED <<pc, cursor, listed, idx, at, page, present, missing, short, extra>>
  BY DEF LateOp, SourceChanges, vars, pass1, diff
<1> QED
  BY <1>1, <1>2, <1>3, <1>4, <1>5, <1>6, <1>7, <1>8, <1>9, <1>10, <1>11
  DEF Next, Check, Over

-----------------------------------------------------------------------------
(* What the check knows of a changing world.                               *)

\* Sizes are not Absent.
LEMMA SizesPresent ==
  \A k \in Planned : PlannedSize[k] \in Sizes /\ PlannedSize[k] # Absent /\ k \in Kept /\ k \in Keys
BY VerifyConstants DEF Absent

\* Every step but a page of pass 1 and a late op leaves pass 1 and the destination alone.
LEMMA ListedStep ==
  ASSUME TypeOK, ListedInv, [Next]_vars
  PROVE  ListedInv'
<1>1. CASE TreePage
  <2>1. /\ dest' = dest /\ cursor' = cursor + 1
        /\ listed' = [listed EXCEPT ![cursor + 1] = dest[cursor + 1]]
    BY <1>1 DEF TreePage, env
  <2>2. ASSUME NEW k \in Keys
        PROVE  /\ listed'[k] # Absent => dest'[k] = listed'[k]
               /\ k > cursor' => listed'[k] = Absent
    <3>1. k \in Int /\ cursor \in Int /\ listed \in [Keys -> Object]
      BY <2>2 DEF TypeOK, Keys
    <3>2. CASE k = cursor + 1
      BY <2>1, <3>1, <3>2
    <3>3. CASE k # cursor + 1
      <4>1. listed'[k] = listed[k]
        BY <2>1, <3>1, <3>3
      <4> QED BY <2>1, <2>2, <3>1, <3>3, <4>1 DEF ListedInv
    <3> QED BY <3>2, <3>3
  <2> QED BY <2>2 DEF ListedInv
<1>2. ASSUME NEW q \in Keys, LateOp(q)
      PROVE  ListedInv'
  <2>1. /\ dest[q] = Absent /\ dest' = [dest EXCEPT ![q] = PlannedSize[q]]
        /\ cursor' = cursor /\ listed' = listed /\ dest \in [Keys -> Object]
    BY <1>2 DEF LateOp, pass1, TypeOK
  <2> QED BY <2>1 DEF ListedInv
<1>3. CASE UNCHANGED <<dest, cursor, listed>>
  BY <1>3 DEF ListedInv
<1>4. [Next]_vars => \/ TreePage \/ \E q \in Keys : LateOp(q)
                     \/ UNCHANGED <<dest, cursor, listed>>
  <2>1. SettleFail \/ SettleMoved \/ SettleQuiet => UNCHANGED <<dest, cursor, listed>>
    BY SettleTypes DEF env, pass1
  <2> QED BY <2>1 DEF Next, Check, TreeEnd, NextRange, SourcePage, PathsInfo, SourceHead, RangeEnd,
              CheckFail, SourceChanges, Over, vars, env, pass1
<1> QED BY <1>1, <1>2, <1>3, <1>4

\* Every step keeps what is known of the source's untouched keys.
LEMMA SourceStep ==
  ASSUME TypeOK, SourceInv, [Next]_vars
  PROVE  SourceInv'
<1>1. ASSUME NEW q \in Keys, SourcePage(q)
      PROVE  SourceInv'
  <2>1. /\ source' = source /\ touched' = touched
        /\ \A k \in Keys : page'[k] \in {Absent, source[k]}
    BY <1>1 DEF SourcePage, env
  <2> QED BY <2>1 DEF SourceInv
<1>2. CASE PathsInfo
  <2>1. source' = source /\ touched' = touched /\ page' = [k \in Keys |-> Absent]
    BY <1>2 DEF PathsInfo, env
  <2> QED BY <2>1 DEF SourceInv
<1>3. ASSUME NEW q \in Keys, SourceChanges(q)
      PROVE  SourceInv'
  <2>1. /\ touched' = touched \cup {q} /\ page' = page
        /\ \A k \in Keys \ {q} : source'[k] = source[k]
    BY <1>3 DEF SourceChanges, TypeOK
  <2> QED BY <2>1 DEF SourceInv
<1>4. CASE UNCHANGED <<source, touched, page>>
  BY <1>4 DEF SourceInv
<1>5. [Next]_vars => \/ \E q \in Keys : SourcePage(q) \/ SourceChanges(q)
                     \/ PathsInfo \/ UNCHANGED <<source, touched, page>>
  <2>1. SettleFail \/ SettleMoved \/ SettleQuiet => UNCHANGED <<source, touched, page>>
    BY SettleTypes DEF env
  <2> QED BY <2>1 DEF Next, Check, TreePage, TreeEnd, NextRange, SourceHead, RangeEnd,
              CheckFail, LateOp, Over, vars, env
<1> QED BY <1>1, <1>2, <1>3, <1>4, <1>5

\* Every step keeps the verdicts true of the untouched keys.
LEMMA VerdictStep ==
  ASSUME TypeOK, PlaceInv, ListedInv, SourceInv, VerdictInv, [Next]_vars
  PROVE  VerdictInv'
<1>1. CASE TreePage
  <2>1. pc = "tree" /\ UNCHANGED <<present, missing, short>>
    BY <1>1 DEF TreePage, diff
  <2> QED BY <2>1 DEF PlaceInv, VerdictInv
<1>2. CASE PathsInfo
  <2>1. /\ UNCHANGED <<dest, touched, listed>>
        /\ \A k \in present' \ present : page[k] # Absent /\ dest[k] = page[k]
        /\ \A k \in (missing' \ missing) \cup (short' \ short) :
             page[k] # Absent /\ dest[k] # page[k]
    BY <1>2 DEF PathsInfo, Found, env, pass1
  <2>2. ASSUME NEW k \in Keys \ touched
        PROVE  /\ k \in present' => dest[k] = PlannedSize[k]
               /\ k \in missing' \cup short' => listed[k] # PlannedSize[k]
    <3>1. k \in Planned /\ PlannedSize[k] # Absent /\ page[k] \in {Absent, PlannedSize[k]}
      BY <2>2, SizesPresent DEF SourceInv
    <3>2. k \in present' => dest[k] = PlannedSize[k]
      BY <2>1, <2>2, <3>1 DEF VerdictInv
    <3>3. k \in missing' \cup short' => listed[k] # PlannedSize[k]
      BY <2>1, <2>2, <3>1 DEF VerdictInv, ListedInv
    <3> QED BY <3>2, <3>3
  <2> QED BY <2>1, <2>2 DEF VerdictInv
<1>3. ASSUME NEW q \in Keys, SourceHead(q)
      PROVE  VerdictInv'
  <2>1. UNCHANGED <<dest, touched, listed, present, short>> /\ missing' \subseteq missing
    BY <1>3 DEF SourceHead, env, pass1
  <2> QED BY <2>1 DEF VerdictInv
<1>4. ASSUME NEW q \in Keys, LateOp(q)
      PROVE  VerdictInv'
  <2>1. /\ UNCHANGED <<touched, listed, present, missing, short>>
        /\ dest' = [dest EXCEPT ![q] = PlannedSize[q]] /\ dest \in [Keys -> Object]
    BY <1>4 DEF LateOp, pass1, diff, TypeOK
  <2> QED BY <2>1 DEF VerdictInv
<1>5. ASSUME NEW q \in Keys, SourceChanges(q)
      PROVE  VerdictInv'
  <2>1. UNCHANGED <<dest, listed, present, missing, short>> /\ touched \subseteq touched'
    BY <1>5 DEF SourceChanges, pass1, diff
  <2> QED BY <2>1 DEF VerdictInv
<1>6. CASE UNCHANGED <<dest, touched, listed, present, missing, short>>
  BY <1>6 DEF VerdictInv
<1>7. [Next]_vars => \/ \E q \in Keys : SourceHead(q) \/ LateOp(q) \/ SourceChanges(q)
                     \/ TreePage \/ PathsInfo
                     \/ UNCHANGED <<dest, touched, listed, present, missing, short>>
  <2>1. SettleFail \/ SettleMoved \/ SettleQuiet
          => UNCHANGED <<dest, touched, listed, present, missing, short>>
    BY SettleTypes DEF env, pass1, diff
  <2> QED BY <2>1 DEF Next, Check, TreeEnd, NextRange, SourcePage, RangeEnd,
              CheckFail, Over, vars, env, pass1, diff
<1> QED BY <1>1, <1>2, <1>3, <1>4, <1>5, <1>6, <1>7

\* A new range passes over ranges that are not suspect only: the keys of suspect
\* ranges that are re-listed stay the same.
LEMMA RelistedKept ==
  ASSUME TypeOK, PlaceInv, NextRange, NEW k \in Keys
  PROVE  Relisted(k)' <=> Relisted(k)
<1>1. pc = "range" /\ listed' = listed
  BY DEF NextRange, pass1
<1>2. \A i : (Suspect(i)' <=> Suspect(i)) /\ Window(i)' = Window(i)
  BY <1>1, SuspectKept DEF Window, Start
<1>3. CASE UNCHANGED <<idx, at>>
  BY <1>2, <1>3 DEF Relisted
<1>4. CASE \E r \in Ranges :
             /\ pc' = "relist" /\ idx' = r /\ at' = Start(r) /\ Suspect(r) /\ idx < r
             /\ \A i \in Ranges : Suspect(i) /\ i < r => i <= idx
  <2>1. PICK r \in Ranges : /\ at' = Start(r) /\ idx < r
                            /\ \A i \in Ranges : Suspect(i) /\ i < r => i <= idx
    BY <1>4
  <2>2. ASSUME NEW i \in Ranges, Suspect(i), k \in Window(i)
        PROVE  k <= Start(r) <=> k <= at
    <3>0. k \in Nat /\ i \in Nat /\ i >= 1 /\ idx \in Nat /\ Start(r) \in Nat /\ at \in Nat
      BY StopsOrdered DEF Keys, TypeOK
    <3>1. (k <= Start(r) => i < r) /\ (i < r => k <= Start(r))
      BY <2>2, WindowOrder
    <3>2. i < r <=> i <= idx
      BY <2>1, <2>2, <3>0, StopsOrdered
    <3>3. CASE idx = 0
      <4>1. at = 0 /\ k >= 1
        BY <1>1, <3>3 DEF PlaceInv, Keys
      <4> QED BY <3>0, <3>1, <3>2, <3>3, <4>1
    <3>4. CASE idx # 0
      <4>1. at = Stops[idx] /\ idx \in Ranges
        BY <1>1, <3>0, <3>4 DEF PlaceInv, TypeOK, Ranges
      <4>2. (idx < i => k > Stops[idx]) /\ (i <= idx => k <= Stops[idx])
        BY <2>2, <4>1, WindowOrder
      <4>3. (idx < i => k > at) /\ (i <= idx => k <= at)
        BY <4>1, <4>2
      <4>4. k <= at <=> i <= idx
        BY <3>0, <4>3
      <4> QED BY <3>1, <3>2, <4>4
    <3> QED BY <3>3, <3>4
  <2> QED BY <1>2, <2>1, <2>2 DEF Relisted
<1> QED BY <1>3, <1>4, RangeChosen

\* Every step keeps the untouched keys of the re-listed windows covered.
LEMMA CoverStep ==
  ASSUME TypeOK, PlaceInv, SourceInv, CoverInv, [Next]_vars
  PROVE  CoverInv'
<1>0. ASSUME listed' = listed, at' = at, NEW k
      PROVE  Relisted(k)' <=> Relisted(k)
  <2>1. \A i : (Suspect(i)' <=> Suspect(i)) /\ Window(i)' = Window(i)
    BY <1>0, SuspectKept DEF Window, Start
  <2> QED BY <1>0, <2>1 DEF Relisted
<1>1. CASE TreePage
  <2>1. at' = 0
    BY <1>1 DEF TreePage, PlaceInv
  <2> QED BY <2>1 DEF CoverInv, Relisted, Keys
<1>2. CASE NextRange
  <2>1. UNCHANGED <<touched, present, missing, short, page>>
    BY <1>2 DEF NextRange, env, diff
  <2>2. \A k \in Keys : Relisted(k)' <=> Relisted(k)
    BY <1>2, RelistedKept
  <2> QED BY <2>1, <2>2 DEF CoverInv
<1>3. ASSUME NEW q \in Keys, SourcePage(q)
      PROVE  CoverInv'
  <2>1. /\ pc = "relist" /\ at < q /\ at' = q
        /\ UNCHANGED <<listed, touched, present, missing, short>>
        /\ page' = [k \in Keys |-> IF at < k /\ k <= q /\ k \in Kept THEN source[k] ELSE Absent]
    BY <1>3 DEF SourcePage, env, pass1, diff
  <2>2. ASSUME NEW k \in Keys \ touched, Relisted(k)'
        PROVE  k \in present \cup missing \cup short \/ page'[k] # Absent
    <3>1. k \in Int /\ at \in Int /\ q \in Int
      BY DEF Keys, TypeOK
    <3>2. k <= q /\ \E i \in Ranges : Suspect(i) /\ k \in Window(i)
      <4>1. \A i : (Suspect(i)' <=> Suspect(i)) /\ Window(i)' = Window(i)
        BY <2>1, SuspectKept DEF Window, Start
      <4> QED BY <2>1, <2>2, <4>1 DEF Relisted
    <3>3. CASE k <= at
      <4>1. Relisted(k) /\ page[k] = Absent
        BY <2>1, <3>2, <3>3 DEF Relisted, PlaceInv
      <4> QED BY <4>1 DEF CoverInv
    <3>4. CASE at < k
      <4>1. k \in Kept /\ source[k] # Absent
        BY SizesPresent DEF SourceInv
      <4> QED BY <2>1, <3>2, <3>4, <4>1
    <3> QED BY <3>1, <3>3, <3>4
  <2> QED BY <2>1, <2>2 DEF CoverInv
<1>4. CASE PathsInfo
  <2>1. /\ UNCHANGED <<listed, at, touched>>
        /\ present \subseteq present' /\ missing \subseteq missing' /\ short \subseteq short'
        /\ \A k \in Keys : page[k] # Absent => k \in present' \cup missing' \cup short'
    BY <1>4 DEF PathsInfo, env, pass1
  <2>2. \A k \in Keys : Relisted(k)' <=> Relisted(k)
    BY <1>0, <2>1
  <2> QED BY <2>1, <2>2 DEF CoverInv
<1>5. ASSUME NEW q \in Keys, SourceHead(q)
      PROVE  CoverInv'
  <2>1. /\ UNCHANGED <<listed, at, page, touched, present, short>>
        /\ missing' = missing \/ (source[q] = Absent /\ missing' = missing \ {q})
    BY <1>5 DEF SourceHead, Gone, env, pass1
  <2>2. \A k \in Keys : Relisted(k)' <=> Relisted(k)
    BY <1>0, <2>1
  <2>3. source[q] = Absent => q \in touched
    BY SizesPresent DEF SourceInv
  <2> QED BY <2>1, <2>2, <2>3 DEF CoverInv
<1>6. ASSUME NEW q \in Keys, SourceChanges(q)
      PROVE  CoverInv'
  <2>1. UNCHANGED <<listed, at, page, present, missing, short>> /\ touched \subseteq touched'
    BY <1>6 DEF SourceChanges, pass1, diff
  <2>2. \A k \in Keys : Relisted(k)' <=> Relisted(k)
    BY <1>0, <2>1
  <2> QED BY <2>1, <2>2 DEF CoverInv
<1>7. CASE UNCHANGED <<listed, at, page, touched, present, missing, short>>
  <2>1. \A k \in Keys : Relisted(k)' <=> Relisted(k)
    BY <1>0, <1>7
  <2> QED BY <1>7, <2>1 DEF CoverInv
<1>8. [Next]_vars => \/ \E q \in Keys : SourcePage(q) \/ SourceHead(q) \/ SourceChanges(q)
                     \/ TreePage \/ NextRange \/ PathsInfo
                     \/ UNCHANGED <<listed, at, page, touched, present, missing, short>>
  <2>1. SettleFail \/ SettleMoved \/ SettleQuiet
          => UNCHANGED <<listed, at, page, touched, present, missing, short>>
    BY SettleTypes DEF env, pass1, diff
  <2> QED BY <2>1 DEF Next, Check, TreeEnd, RangeEnd, CheckFail, LateOp, Over, vars, env,
                      pass1, diff
<1> QED BY <1>1, <1>2, <1>3, <1>4, <1>5, <1>6, <1>7, <1>8

-----------------------------------------------------------------------------
(* The theorems.                                                           *)

\* The invariant holds of the initial states.
LEMMA VerifyStarts == Init => VerifyInv
<1> SUFFICES ASSUME Init
             PROVE  VerifyInv
  OBVIOUS
<1>0. /\ NumKeys \in Nat /\ MaxPolls \in Nat /\ MaxChanges \in Nat /\ MAX_SOURCE_HEADS \in Nat
      /\ Len(Stops) \in Nat
  BY VerifyConstants
<1>1. TypeOK
  <2>1. moved \in BOOLEAN /\ settled \in BOOLEAN
    BY DEF Init
  <2>2. listed \in [Keys -> Object] /\ page \in [Keys -> Object] /\ touched \in SUBSET Keys
    BY DEF Init, Object
  <2> QED BY <1>0, <2>1, <2>2 DEF Init, TypeOK, SETTLE_QUIET_POLLS
<1>2. PlaceInv /\ ListedInv
  BY DEF Init, PlaceInv, ListedInv
<1>3. SourceInv
  BY SizesPresent DEF Init, SourceInv
<1>4. VerdictInv
  BY DEF Init, VerdictInv
<1>5. CoverInv
  BY DEF Init, CoverInv, Relisted, Keys
<1> QED BY <1>1, <1>2, <1>3, <1>4, <1>5 DEF VerifyInv

\* Every step preserves it.
LEMMA VerifyStep == VerifyInv /\ [Next]_vars => VerifyInv'
BY TypeStep, PlaceStep, ListedStep, SourceStep, VerdictStep, CoverStep DEF VerifyInv

\* The invariant of the destination check, for any number of keys, ranges and changes.
THEOREM VerifyInvariant == Spec => []VerifyInv
BY VerifyStarts, VerifyStep, PTL DEF Spec

\* The variables of verify_destination keep their types; in particular heads_left, a
\* usize, never goes below zero.
THEOREM VerifyTypeCorrect == Spec => []TypeOK
<1>1. VerifyInv => TypeOK
  BY DEF VerifyInv
<1> QED BY <1>1, VerifyInvariant, PTL

\* Pass 2 never reports a planned file that pass 1 found in order, unless its source
\* was changed, whatever ops are applied between the two passes.
THEOREM NothingIsBlamedFalsely == Spec => []NoFalseAlarm
<1>1. VerifyInv => NoFalseAlarm
  BY SizesPresent DEF VerifyInv, VerdictInv, NoFalseAlarm, TypeOK
<1> QED BY <1>1, VerifyInvariant, PTL

\* The bytes of a set of files are those of one of them and those of the others.
LEMMA BytesOfOne ==
  ASSUME NEW f, NEW K, IsFiniteSet(K), \A x \in K : f[x] \in Nat, NEW k \in K
  PROVE  /\ Bytes(f, K \ {k}) \in Nat
         /\ Bytes(f, K) = Bytes(f, K \ {k}) + f[k]
<1> DEFINE BytesIn(S) == UNION {{x} \X (1..f[x]) : x \in S}
           file == {k} \X (1..f[k])
           rest == BytesIn(K \ {k})
<1>1. \A x \in K : IsFiniteSet({x} \X (1..f[x])) /\ Cardinality({x} \X (1..f[x])) = f[x]
  <2> TAKE x \in K
  <2>1. IsFiniteSet(1..f[x]) /\ Cardinality(1..f[x]) = f[x]
    <3>1. f[x] \in Nat
      OBVIOUS
    <3>2. \A m \in Nat : IsFiniteSet(1..m) /\ Cardinality(1..m) = m
      BY FS_Interval
    <3> QED BY <3>1, <3>2
  <2>2. IsFiniteSet({x}) /\ Cardinality({x}) = 1
    BY FS_Singleton
  <2>3. /\ IsFiniteSet({x} \X (1..f[x]))
        /\ Cardinality({x} \X (1..f[x])) = Cardinality({x}) * Cardinality(1..f[x])
    BY <2>1, <2>2, FS_Product
  <2> QED BY <2>1, <2>2, <2>3
<1>2. IsFiniteSet(rest)
  <2> DEFINE S == K \ {k}
             files == {{x} \X (1..f[x]) : x \in S}
             g == [x \in S |-> {x} \X (1..f[x])]
  <2>1. IsFiniteSet(S)
    BY FS_Subset
  <2>2. g \in Surjection(S, files)
    BY DEF Surjection
  <2>3. IsFiniteSet(files)
    <3> HIDE DEF g, files, S
    <3> QED BY <2>1, <2>2, FS_Surjection
  <2>4. \A b \in files : IsFiniteSet(b)
    BY <1>1
  <2>5. IsFiniteSet(UNION files)
    <3> HIDE DEF files
    <3> QED BY <2>3, <2>4, FS_UNION
  <2> QED BY <2>5
<1>3. BytesIn(K) = rest \cup file
  OBVIOUS
<1>4. rest \cap file = {}
  OBVIOUS
<1>5. IsFiniteSet(file) /\ Cardinality(file) = f[k] /\ f[k] \in Nat
  BY <1>1
<1>6. Bytes(f, K) = Cardinality(BytesIn(K)) /\ Bytes(f, K \ {k}) = Cardinality(rest)
  BY DEF Bytes
<1> HIDE DEF BytesIn, rest, file
<1>7. Cardinality(rest) \in Nat
  BY <1>2, FS_CardinalityType
<1>8. Cardinality(rest \cup file) =
        Cardinality(rest) + Cardinality(file) - Cardinality(rest \cap file)
  BY <1>2, <1>5, FS_Union
<1>9. Cardinality(rest \cap file) = 0
  BY <1>4, FS_EmptySet
<1> QED BY <1>3, <1>5, <1>6, <1>7, <1>8, <1>9

\* When pass 2 is done it has re-listed every suspect range.
LEMMA DoneRelisted ==
  ASSUME VerifyInv, pc = "done", NEW i \in Ranges, Suspect(i), NEW k \in Window(i)
  PROVE  Relisted(k)
<1>0. idx \in Nat /\ i \in Nat /\ i >= 1
  BY StopsOrdered DEF VerifyInv, TypeOK
<1>1. i <= idx /\ at = (IF idx = 0 THEN 0 ELSE Stops[idx])
  BY DEF VerifyInv, PlaceInv
<1>2. idx \in Ranges /\ at = Stops[idx]
  BY <1>0, <1>1 DEF VerifyInv, TypeOK, Ranges
<1>3. k <= Stops[idx]
  BY <1>1, <1>2, WindowOrder
<1> QED BY <1>2, <1>3 DEF Relisted

\* One half of OkMeansPresent: a key of a suspect range was re-listed and looked up.
LEMMA OkOfSuspect ==
  ASSUME VerifyInv, pc = "done", ok, NEW i \in Ranges, Suspect(i),
         NEW k \in (Window(i) \cap Planned) \ touched
  PROVE  dest[k] = PlannedSize[k] /\ dest[k] # Absent
<1>0. k \in Keys \ touched /\ k \in Planned
  BY DEF Window
<1>1. Relisted(k)
  BY DoneRelisted
<1>2. page[k] = Absent
  BY <1>0 DEF VerifyInv, PlaceInv
<1>3. k \in present
  BY <1>0, <1>1, <1>2 DEF VerifyInv, CoverInv, ok
<1> QED BY <1>0, <1>3, SizesPresent DEF VerifyInv, VerdictInv

\* The other half: the files of a range that adds up are as many as planned, so without
\* unplanned ones they are the planned ones, and a single one of another size would
\* change the byte total.
LEMMA OkOfOthers ==
  ASSUME VerifyInv, NEW i \in Ranges, ~Suspect(i),
         {k \in Window(i) : dest[k] # Absent} \subseteq Planned,
         NEW k \in Window(i) \cap Planned
  PROVE  /\ dest[k] # Absent
         /\ Cardinality({q \in {x \in Window(i) : dest[x] # Absent} \cap Planned :
                           dest[q] # PlannedSize[q]}) <= 1
              => dest[k] = PlannedSize[k]
<1> DEFINE planned == Window(i) \cap Planned
           odd == {q \in {x \in Window(i) : dest[x] # Absent} \cap Planned :
                     dest[q] # PlannedSize[q]}
<1>1. Tally(i) \subseteq planned /\ \A q \in Tally(i) : listed[q] # Absent /\ dest[q] = listed[q]
  BY DEF VerifyInv, ListedInv, Tally, Locate, Window
<1>2. Tally(i) = planned
  <2>1. planned \subseteq Keys
    BY DEF Window
  <2>2. IsFiniteSet(planned)
    BY <2>1, KeysFinite
  <2>3. Cardinality(Tally(i)) = Cardinality(planned)
    BY DEF Suspect
  <2> HIDE DEF planned
  <2> QED BY <1>1, <2>2, <2>3, FS_Subset
<1>3. k \in planned /\ dest[k] # Absent /\ dest[k] = listed[k]
  BY <1>1, <1>2
<1>4. ASSUME Cardinality(odd) <= 1, dest[k] # PlannedSize[k]
      PROVE  FALSE
  <2>1. k \in odd
    BY <1>3, <1>4
  <2>2. odd \subseteq Keys
    BY DEF Window
  <2>3. odd = {k}
    <3>1. IsFiniteSet(odd) /\ Cardinality(odd) \in Nat
      BY <2>2, KeysFinite
    <3> HIDE DEF odd
    <3>2. Cardinality(odd) # 0
      BY <2>1, <3>1, FS_EmptySet
    <3>3. Cardinality(odd) = 1
      BY <3>1, <3>2, <1>4
    <3>4. PICK x : odd = {x}
      BY <3>1, <3>3, FS_Singleton
    <3> QED BY <2>1, <3>4
  <2>4. \A q \in planned \ {k} : listed[q] = PlannedSize[q]
    BY <1>1, <1>2, <2>3
  <2>5. Bytes(listed, planned) = Bytes(PlannedSize, planned)
    BY <1>2 DEF Suspect
  <2>6. IsFiniteSet(planned)
    <3>1. planned \subseteq Keys
      BY DEF Window
    <3> QED BY <3>1, KeysFinite
  <2>7. \A q \in planned : listed[q] \in Nat /\ PlannedSize[q] \in Nat
    <3>1. Sizes \subseteq Nat
      BY VerifyConstants
    <3> TAKE q \in planned
    <3>2. q \in Keys /\ listed[q] # Absent
      BY <1>1, <1>2 DEF Window
    <3>3. listed[q] \in Sizes
      BY <3>2 DEF VerifyInv, TypeOK, Object
    <3>4. PlannedSize[q] \in Sizes
      BY SizesPresent
    <3> QED BY <3>1, <3>3, <3>4
  <2>8. Bytes(listed, planned \ {k}) = Bytes(PlannedSize, planned \ {k})
    <3> HIDE DEF planned
    <3> QED BY <2>4 DEF Bytes
  <2> HIDE DEF planned
  <2>9. /\ Bytes(listed, planned \ {k}) \in Nat
        /\ Bytes(listed, planned) = Bytes(listed, planned \ {k}) + listed[k]
    BY <1>3, <2>6, <2>7, BytesOfOne
  <2>10. Bytes(PlannedSize, planned) = Bytes(PlannedSize, planned \ {k}) + PlannedSize[k]
    BY <1>3, <2>6, <2>7, BytesOfOne
  <2>11. listed[k] = PlannedSize[k]
    <3>1. listed[k] \in Nat /\ PlannedSize[k] \in Nat
      BY <1>3, <2>7
    <3>2. PICK b \in Nat : b = Bytes(listed, planned \ {k})
      BY <2>9
    <3>3. b + listed[k] = b + PlannedSize[k]
      BY <3>2, <2>5, <2>8, <2>9, <2>10
    <3> QED BY <3>1, <3>3
  <2> QED BY <1>3, <1>4, <2>11
<1> QED BY <1>3, <1>4

\* report.ok means what it says, although files arrive and objects come and go while
\* the check runs.
THEOREM OkIsSound == Spec => []OkMeansPresent
<1>1. VerifyInv => OkMeansPresent
  <2> SUFFICES ASSUME VerifyInv, pc = "done", ok, NEW i \in Ranges,
                      {k \in Window(i) : dest[k] # Absent} \subseteq Planned,
                      NEW k \in (Window(i) \cap Planned) \ touched
               PROVE  /\ dest[k] # Absent
                      /\ Cardinality({q \in {x \in Window(i) : dest[x] # Absent} \cap Planned :
                                        dest[q] # PlannedSize[q]}) <= 1
                           => dest[k] = PlannedSize[k]
    BY DEF OkMeansPresent
  <2>1. CASE Suspect(i)
    BY <2>1, OkOfSuspect
  <2>2. CASE ~Suspect(i)
    BY <2>2, OkOfOthers
  <2> QED BY <2>1, <2>2
<1> QED BY <1>1, VerifyInvariant, PTL

-----------------------------------------------------------------------------
(* A check of two buckets at rest.                                         *)

\* A step after which there were no changes is none of the world's.
LEMMA QuietWorld ==
  ASSUME TypeOK, [Next]_vars, changes' = 0
  PROVE  /\ changes = 0 /\ UNCHANGED <<source, dest>>
         /\ pc' # "err" => pc # "err"
<1>1. \A k \in Keys : ~LateOp(k) /\ ~SourceChanges(k)
  BY DEF LateOp, SourceChanges, TypeOK
<1>2. SettleFail \/ SettleMoved \/ SettleQuiet => pc = "settle" /\ UNCHANGED env
  BY SettleTypes
<1> QED BY <1>1, <1>2 DEF Next, Check, TreePage, TreeEnd, NextRange, SourcePage, PathsInfo,
           SourceHead, RangeEnd, CheckFail, Over, vars, env

\* Every step keeps pass 1 exact.
LEMMA QuietListedStep ==
  ASSUME TypeOK, QuietListed, [Next]_vars
  PROVE  QuietListed'
<1> SUFFICES ASSUME changes' = 0
             PROVE  \A k \in Keys : k <= cursor' => listed'[k] = dest'[k]
  BY DEF QuietListed
<1>1. changes = 0 /\ dest' = dest /\ source' = source
  BY QuietWorld
<1>2. CASE TreePage
  <2>1. cursor' = cursor + 1 /\ listed' = [listed EXCEPT ![cursor + 1] = dest[cursor + 1]]
    BY <1>2 DEF TreePage
  <2>2. cursor \in Int /\ listed \in [Keys -> Object] /\ \A k \in Keys : k \in Int
    BY DEF TypeOK, Keys
  <2> QED BY <1>1, <2>1, <2>2 DEF QuietListed
<1>3. CASE UNCHANGED <<cursor, listed>>
  BY <1>1, <1>3 DEF QuietListed
<1>4. [Next]_vars => TreePage \/ UNCHANGED <<cursor, listed>>
  <2>1. SettleFail \/ SettleMoved \/ SettleQuiet => UNCHANGED <<cursor, listed>>
    BY SettleTypes DEF pass1
  <2> QED BY <2>1 DEF Next, Check, TreeEnd, NextRange, SourcePage, PathsInfo, SourceHead, RangeEnd,
              CheckFail, LateOp, SourceChanges, Over, vars, pass1
<1> QED BY <1>2, <1>3, <1>4

\* Every step keeps pass 2 exact.
LEMMA QuietVerdictsStep ==
  ASSUME TypeOK, PlaceInv, QuietVerdicts, [Next]_vars
  PROVE  QuietVerdicts'
<1> SUFFICES ASSUME changes' = 0, pc' # "err", NEW k \in Keys
             PROVE  /\ page'[k] # Absent => page'[k] = source'[k] /\ Relisted(k)'
                    /\ k \in present' <=> Judged(k)' /\ dest'[k] = source'[k]
                    /\ k \in missing' <=> Judged(k)' /\ dest'[k] = Absent
                    /\ k \in short' <=> Judged(k)' /\ dest'[k] \notin {Absent, source'[k]}
  BY DEF QuietVerdicts
<1>0. changes = 0 /\ dest' = dest /\ source' = source /\ pc # "err"
  BY QuietWorld
<1>1. /\ page[k] # Absent => page[k] = source[k] /\ Relisted(k)
      /\ k \in present <=> Judged(k) /\ dest[k] = source[k]
      /\ k \in missing <=> Judged(k) /\ dest[k] = Absent
      /\ k \in short   <=> Judged(k) /\ dest[k] \notin {Absent, source[k]}
  BY <1>0 DEF QuietVerdicts
<1>2. ASSUME listed' = listed, at' = at
      PROVE  Relisted(k)' <=> Relisted(k)
  <2>1. \A i : (Suspect(i)' <=> Suspect(i)) /\ Window(i)' = Window(i)
    BY <1>2, SuspectKept DEF Window, Start
  <2> QED BY <1>2, <2>1 DEF Relisted
<1>3. ASSUME Relisted(k)' <=> Relisted(k), UNCHANGED <<page, present, missing, short>>
      PROVE  /\ page'[k] # Absent => page'[k] = source'[k] /\ Relisted(k)'
             /\ k \in present' <=> Judged(k)' /\ dest'[k] = source'[k]
             /\ k \in missing' <=> Judged(k)' /\ dest'[k] = Absent
             /\ k \in short' <=> Judged(k)' /\ dest'[k] \notin {Absent, source'[k]}
  <2>1. Judged(k)' <=> Judged(k)
    BY <1>0, <1>3 DEF Judged
  <2> QED BY <1>0, <1>1, <1>3, <2>1
<1>4. CASE TreePage
  <2>1. at = 0 /\ at' = 0 /\ UNCHANGED <<page, present, missing, short>>
    BY <1>4 DEF TreePage, PlaceInv, diff
  <2>2. ~Relisted(k) /\ ~Relisted(k)'
    BY <2>1 DEF Relisted, Keys
  <2> QED BY <1>3, <2>1, <2>2
<1>5. CASE NextRange
  BY <1>3, <1>5, RelistedKept DEF NextRange, diff
<1>6. ASSUME NEW q \in Keys, SourcePage(q)
      PROVE  /\ page'[k] # Absent => page'[k] = source'[k] /\ Relisted(k)'
             /\ k \in present' <=> Judged(k)' /\ dest'[k] = source'[k]
             /\ k \in missing' <=> Judged(k)' /\ dest'[k] = Absent
             /\ k \in short' <=> Judged(k)' /\ dest'[k] \notin {Absent, source'[k]}
  <2>1. /\ pc = "relist" /\ at < q /\ at' = q /\ q <= Stops[idx]
        /\ UNCHANGED <<listed, present, missing, short>>
        /\ page' = [x \in Keys |-> IF at < x /\ x <= q /\ x \in Kept THEN source[x] ELSE Absent]
    BY <1>6 DEF SourcePage, pass1, diff
  <2>2. \A i : (Suspect(i)' <=> Suspect(i)) /\ Window(i)' = Window(i)
    BY <2>1, SuspectKept DEF Window, Start
  <2>3. k \in Int /\ at \in Int /\ q \in Int
    BY DEF Keys, TypeOK
  <2>4. idx \in Ranges /\ Suspect(idx) /\ Start(idx) <= at /\ page[k] = Absent
    BY <2>1 DEF PlaceInv
  <2>5. CASE k <= at
    <3>1. (Relisted(k)' <=> Relisted(k)) /\ page'[k] = Absent
      BY <2>1, <2>2, <2>3, <2>5 DEF Relisted
    <3>2. Judged(k)' <=> Judged(k)
      BY <1>0, <2>4, <3>1 DEF Judged
    <3> QED BY <1>0, <1>1, <2>1, <3>1, <3>2
  <2>6. CASE at < k
    <3>1. ~Judged(k)
      BY <2>3, <2>6 DEF Judged, Relisted
    <3>2. k <= q => Relisted(k)'
      <4>1. Stops[idx] \in Int /\ Start(idx) \in Int
        BY <2>4, StopsOrdered DEF Keys
      <4>2. k <= q => k \in Window(idx)
        BY <2>1, <2>3, <2>4, <2>6, <4>1 DEF Window
      <4> QED BY <2>1, <2>2, <2>4, <4>2 DEF Relisted
    <3>3. ~Judged(k)'
      <4>1. k > q => ~Relisted(k)'
        BY <2>1, <2>3 DEF Relisted
      <4> QED BY <1>0, <2>1, <2>3, <2>6, <4>1 DEF Judged
    <3>4. page'[k] # Absent => k <= q /\ page'[k] = source[k]
      BY <2>1
    <3> QED BY <1>0, <1>1, <2>1, <3>1, <3>2, <3>3, <3>4
  <2> QED BY <2>3, <2>5, <2>6
<1>7. CASE PathsInfo
  <2>1. /\ UNCHANGED <<listed, at>> /\ page'[k] = Absent
        /\ k \in missing' <=> k \in missing \/ (page[k] # Absent /\ dest[k] = Absent)
        /\ k \in present' <=> k \in present \/ (page[k] # Absent /\ dest[k] = page[k])
        /\ k \in short' <=> k \in short \/ (page[k] # Absent /\ dest[k] \notin {Absent, page[k]})
    BY <1>7 DEF PathsInfo, Found, pass1
  <2>2. Judged(k)' <=> Judged(k) \/ page[k] # Absent
    <3>1. Relisted(k)' <=> Relisted(k)
      BY <1>2, <2>1
    <3>2. page[k] # Absent => k \in Kept
      BY DEF PlaceInv
    <3> QED BY <1>0, <1>1, <2>1, <3>1, <3>2 DEF Judged
  <2> QED BY <1>0, <1>1, <2>1, <2>2
<1>8. ASSUME NEW q \in Keys, SourceHead(q)
      PROVE  UNCHANGED <<listed, at, page, present, missing, short>>
  <2>1. /\ UNCHANGED <<listed, at, page, present, short>>
        /\ q \in toHead /\ (missing' = missing \/ source[q] = Absent)
    BY <1>8 DEF SourceHead, Gone, pass1
  <2>2. q \in missing
    BY <2>1 DEF TypeOK
  <2>3. source[q] # Absent
    BY <1>0, <2>2 DEF QuietVerdicts, Judged
  <2> QED BY <2>1, <2>3
<1>9. CASE UNCHANGED <<listed, at, page, present, missing, short>>
  BY <1>2, <1>3, <1>9
<1>10. [Next]_vars => \/ \E q \in Keys : SourcePage(q) \/ SourceHead(q)
                      \/ TreePage \/ NextRange \/ PathsInfo
                      \/ UNCHANGED <<listed, at, page, present, missing, short>>
  <2>1. SettleFail \/ SettleMoved \/ SettleQuiet
          => UNCHANGED <<listed, at, page, present, missing, short>>
    BY SettleTypes DEF pass1, diff
  <2> QED BY <2>1 DEF Next, Check, TreeEnd, RangeEnd, CheckFail, LateOp, SourceChanges, Over, vars,
              pass1, diff
<1> QED BY <1>4, <1>5, <1>6, <1>7, <1>8, <1>9, <1>10

\* What a finished range adds to the report: the files of the range that the source
\* does not have.
LEMMA ExtraExact ==
  ASSUME TypeOK, PlaceInv, ListedInv, QuietListed, QuietVerdicts, changes = 0, pc = "heads"
  PROVE  /\ Strays(Stops[idx]) = Strays(Start(idx))
              \cup (Tally(idx) \ (Window(idx) \cap (present \cup short)))
         /\ Strays(Start(idx)) \cap Tally(idx) = {}
         /\ Window(idx) \cap (present \cup short) \subseteq Tally(idx)
<1> DEFINE held == Window(idx) \cap (present \cup short)
<1>1. /\ idx \in Ranges /\ Suspect(idx) /\ at = Stops[idx] /\ cursor = NumKeys
      /\ \A k \in Keys : page[k] = Absent
  BY DEF PlaceInv
<1>2. /\ Start(idx) \in Nat /\ Stops[idx] \in Nat /\ Start(idx) <= Stops[idx]
      /\ \A k \in Keys : k \in Nat /\ k <= cursor
  BY <1>1, StopsOrdered DEF Keys
<1>3. \A k \in Keys : k \in Tally(idx) <=> k \in Window(idx) /\ dest[k] # Absent
  <2>1. \A k \in Keys : listed[k] = dest[k]
    BY <1>2 DEF QuietListed
  <2> QED BY <1>1, <2>1 DEF Tally, Locate, Window
<1>4. \A k \in Window(idx) : k \in Keys /\ Relisted(k)
  BY <1>1 DEF Window, Relisted
<1>5. \A k \in Window(idx) : Judged(k) <=> k \in Kept /\ source[k] # Absent
  BY <1>1, <1>4 DEF Judged
<1>6. \A k \in Window(idx) : k \in held <=> Judged(k) /\ dest[k] # Absent
  <2> TAKE k \in Window(idx)
  <2>1. /\ k \in present <=> Judged(k) /\ dest[k] = source[k]
        /\ k \in short   <=> Judged(k) /\ dest[k] \notin {Absent, source[k]}
    BY <1>4 DEF QuietVerdicts
  <2> QED BY <1>5, <2>1
<1>7. held \subseteq Tally(idx)
  BY <1>3, <1>4, <1>6
<1>8. \A k \in Tally(idx) : k \in Window(idx)
  BY <1>3 DEF Tally
<1>9. \A k \in Window(idx) : k > Start(idx) /\ k <= Stops[idx]
  BY DEF Window
<1>10. \A k \in Keys : k <= Stops[idx] => k <= Start(idx) \/ k \in Window(idx)
  BY <1>2 DEF Window
<1>11. Strays(Start(idx)) \cap Tally(idx) = {}
  BY <1>2, <1>4, <1>8, <1>9 DEF Strays
<1>12. ASSUME NEW k \in Keys
       PROVE  k \in Strays(Stops[idx]) <=> k \in Strays(Start(idx)) \/ k \in Tally(idx) \ held
  <2>1. CASE k \in Window(idx)
    <3>1. k \notin Strays(Start(idx)) /\ k <= Stops[idx]
      BY <1>2, <1>9, <2>1 DEF Strays
    <3>2. k \in Strays(Stops[idx]) <=> ~(k \in Kept /\ source[k] # Absent) /\ dest[k] # Absent
      BY <1>1, <2>1, <3>1 DEF Strays
    <3> QED BY <1>3, <1>5, <1>6, <2>1, <3>1, <3>2
  <2>2. CASE k \notin Window(idx)
    <3>1. k <= Stops[idx] <=> k <= Start(idx)
      BY <1>2, <1>10, <2>2
    <3>2. k \in Strays(Stops[idx]) <=> k \in Strays(Start(idx))
      BY <3>1 DEF Strays
    <3> QED BY <1>8, <2>2, <3>2
  <2> QED BY <2>1, <2>2
<1>13. /\ Strays(Stops[idx]) \subseteq Keys /\ Strays(Start(idx)) \subseteq Keys
       /\ Tally(idx) \subseteq Keys
  BY DEF Strays, Tally
<1>14. Strays(Stops[idx]) = Strays(Start(idx)) \cup (Tally(idx) \ held)
  BY <1>12, <1>13
<1> QED BY <1>7, <1>11, <1>14

\* Every step keeps the count of extra files exact.
LEMMA QuietExtraStep ==
  ASSUME TypeOK, PlaceInv, ListedInv, QuietListed, QuietVerdicts, QuietExtra, [Next]_vars
  PROVE  QuietExtra'
<1> SUFFICES ASSUME changes' = 0, pc' # "err"
             PROVE  extra' = Cardinality(Strays(Counted)')
  BY DEF QuietExtra
<1>0. changes = 0 /\ dest' = dest /\ source' = source /\ pc # "err"
  BY QuietWorld
<1>1. extra = Cardinality(Strays(Counted))
  BY <1>0 DEF QuietExtra
<1>2. ASSUME listed' = listed
      PROVE  \A m \in Int : Strays(m)' = Strays(m)
  <2>1. \A i : (Suspect(i)' <=> Suspect(i)) /\ Window(i)' = Window(i)
    BY <1>2, SuspectKept DEF Window, Start
  <2> QED BY <1>0, <2>1 DEF Strays
<1>3. at \in Int /\ (idx \in Ranges => Start(idx) \in Int)
  BY StopsOrdered DEF TypeOK
<1>4. ASSUME listed' = listed, extra' = extra, NEW m \in Int, Counted = m, Counted' = m
      PROVE  extra' = Cardinality(Strays(Counted)')
  <2>1. Strays(Counted)' = Strays(m)'
    BY <1>4 DEF Strays
  <2> QED BY <1>1, <1>2, <1>4, <2>1
<1>5. CASE TreePage
  <2>1. pc = "tree" /\ pc' = "tree" /\ at = 0 /\ at' = 0 /\ extra = 0 /\ extra' = 0
    BY <1>5 DEF TreePage, PlaceInv
  <2>2. Strays(Counted)' = {}
    BY <2>1 DEF Strays, Counted, Keys
  <2> QED BY <2>1, <2>2, FS_EmptySet
<1>6. CASE NextRange
  <2>1. pc = "range" /\ pc' \in {"done", "relist"} /\ extra' = extra /\ listed' = listed
    BY <1>6 DEF NextRange, pass1
  <2>2. Counted = at /\ Counted' = at'
    <3>1. pc' = "relist" => at' = Start(idx)'
      <4>1. pc' = "relist" => \E r \in Ranges : idx' = r /\ at' = Start(r)
        BY <1>6, <2>1, RangeChosen
      <4> QED BY <4>1 DEF Start
    <3> QED BY <2>1, <3>1 DEF Counted
  <2>3. \A k \in Keys : Relisted(k)' <=> Relisted(k)
    BY <1>6, RelistedKept
  <2>4. Strays(at) = {k \in Keys : Relisted(k) /\ ~ (k \in Kept /\ source[k] # Absent)
                                   /\ dest[k] # Absent}
    BY DEF Strays, Relisted
  <2>5. Strays(at)' = {k \in Keys : Relisted(k)' /\ ~ (k \in Kept /\ source'[k] # Absent)
                                    /\ dest'[k] # Absent}
    BY DEF Strays, Relisted
  <2>6. Strays(at)' = Strays(at)
    BY <1>0, <2>3, <2>4, <2>5
  <2>7. Strays(Counted)' = Strays(at)'
    BY <2>2 DEF Strays
  <2> QED BY <1>1, <2>1, <2>2, <2>6, <2>7
<1>7. CASE RangeEnd
  <2>1. /\ pc = "heads" /\ pc' = "range" /\ extra' = extra + ExtraOf(idx)
        /\ UNCHANGED <<listed, at, idx>>
    BY <1>7 DEF RangeEnd, pass1
  <2> DEFINE held == Window(idx) \cap (present \cup short)
             old  == Strays(Start(idx))
             new  == Strays(Stops[idx])
  <2>2. /\ new = old \cup (Tally(idx) \ held) /\ old \cap Tally(idx) = {}
        /\ held \subseteq Tally(idx)
    BY <1>0, <2>1, ExtraExact
  <2>3. /\ IsFiniteSet(old) /\ Cardinality(old) \in Nat
        /\ IsFiniteSet(Tally(idx)) /\ Cardinality(Tally(idx)) \in Nat
        /\ IsFiniteSet(held) /\ Cardinality(held) \in Nat
    <3>1. old \subseteq Keys /\ Tally(idx) \subseteq Keys /\ held \subseteq Keys
      BY DEF Strays, Tally, Window
    <3> HIDE DEF old, held
    <3> QED BY <3>1, KeysFinite
  <2>4. extra = Cardinality(old)
    BY <1>1, <2>1 DEF Counted
  <2>5. Counted' = at /\ at = Stops[idx] /\ Stops[idx] \in Int
    BY <2>1, StopsOrdered DEF Counted, PlaceInv, Keys
  <2>6. Strays(Counted)' = new
    <3>1. Strays(Counted)' = Strays(at)'
      BY <2>1, <2>5 DEF Strays
    <3>2. Strays(at)' = Strays(at)
      <4>1. \A m \in Int : Strays(m)' = Strays(m)
        BY <1>2, <2>1
      <4>2. at' = at
        BY <2>1
      <4> QED BY <4>1, <4>2, <1>3 DEF Strays
    <3> QED BY <2>5, <3>1, <3>2
  <2>7. ExtraOf(idx) = Cardinality(Tally(idx)) - Cardinality(held)
        /\ Cardinality(held) <= Cardinality(Tally(idx))
    <3>1. Cardinality(held) <= Cardinality(Tally(idx))
      <4> HIDE DEF held
      <4> QED BY <2>2, <2>3, FS_Subset
    <3> QED BY <2>3, <3>1 DEF ExtraOf
  <2> HIDE DEF held, old, new
  <2>8. /\ IsFiniteSet(Tally(idx) \ held)
        /\ Cardinality(Tally(idx) \ held) = Cardinality(Tally(idx)) - Cardinality(held)
    <3>1. Tally(idx) \cap held = held
      BY <2>2
    <3> QED BY <2>3, <3>1, FS_Difference
  <2>9. Cardinality(new) = Cardinality(old) + Cardinality(Tally(idx) \ held)
    <3>1. old \cap (Tally(idx) \ held) = {}
      BY <2>2
    <3>2. Cardinality(old \cup (Tally(idx) \ held))
            = Cardinality(old) + Cardinality(Tally(idx) \ held)
              - Cardinality(old \cap (Tally(idx) \ held))
      BY <2>3, <2>8, FS_Union
    <3>3. Cardinality(old \cap (Tally(idx) \ held)) = 0
      BY <3>1, FS_EmptySet
    <3>4. Cardinality(Tally(idx) \ held) \in Nat
      BY <2>8, FS_CardinalityType
    <3> QED BY <2>2, <2>3, <3>2, <3>3, <3>4
  <2> QED BY <2>1, <2>4, <2>6, <2>7, <2>8, <2>9
<1>8. ASSUME NEW q \in Keys, SourcePage(q) \/ SourceHead(q)
      PROVE  extra' = Cardinality(Strays(Counted)')
  <2>1. /\ pc \in {"relist", "heads"} /\ pc' \in {"info", "heads"}
        /\ UNCHANGED <<listed, extra, idx>>
    BY <1>8 DEF SourcePage, SourceHead, pass1
  <2>2. idx \in Ranges
    BY <2>1 DEF PlaceInv
  <2>3. PICK m \in Int : m = Start(idx)
    BY <1>3, <2>2
  <2>4. Counted = m /\ Counted' = m
    BY <2>1, <2>3 DEF Counted, Start
  <2> QED BY <1>4, <2>1, <2>4
<1>9. CASE PathsInfo
  <2>1. /\ pc = "info" /\ pc' \in {"relist", "heads"} /\ UNCHANGED <<listed, extra, idx>>
    BY <1>9 DEF PathsInfo, pass1
  <2>2. idx \in Ranges
    BY <2>1 DEF PlaceInv
  <2>3. PICK m \in Int : m = Start(idx)
    BY <1>3, <2>2
  <2>4. Counted = m /\ Counted' = m
    BY <2>1, <2>3 DEF Counted, Start
  <2> QED BY <1>4, <2>1, <2>4
<1>10. CASE SettleFail \/ SettleMoved \/ SettleQuiet \/ TreeEnd
  <2>1. /\ pc \in {"settle", "tree"} /\ pc' \in {"settle", "tree", "range"}
        /\ UNCHANGED <<listed, extra, at>>
    BY <1>10, SettleTypes DEF TreeEnd, pass1
  <2>2. PICK m \in Int : m = at
    BY <1>3
  <2>3. Counted = m /\ Counted' = m
    BY <2>1, <2>2 DEF Counted
  <2> QED BY <1>4, <2>1, <2>3
<1>11. CASE UNCHANGED vars
  <2>1. Strays(Counted)' = Strays(Counted)
    BY <1>11 DEF vars, Strays, Counted, Suspect, Tally, Window, Start
  <2> QED BY <1>1, <1>11, <2>1 DEF vars
<1>12. \A k \in Keys : ~LateOp(k) /\ ~SourceChanges(k)
  BY DEF LateOp, SourceChanges, TypeOK
<1>13. ~CheckFail
  BY DEF CheckFail
<1> QED
  BY <1>5, <1>6, <1>7, <1>8, <1>9, <1>10, <1>11, <1>12, <1>13 DEF Next, Check, Over

\* When nothing changes during the check, its report names exactly what differs between
\* the source and the destination in the ranges that do not add up.
THEOREM QuietReportIsExact == Spec => []QuietReportExact
<1>1. Init => QuietInv
  <2> SUFFICES ASSUME Init
               PROVE  QuietInv
    OBVIOUS
  <2>1. \A k \in Keys : ~Relisted(k)
    BY DEF Init, Relisted, Keys
  <2>2. QuietListed
    BY DEF Init, QuietListed, Keys
  <2>3. QuietVerdicts
    BY <2>1 DEF Init, QuietVerdicts, Judged
  <2>4. Strays(Counted) = {}
    BY <2>1 DEF Init, Strays, Counted, Keys
  <2>5. QuietExtra
    BY <2>4, FS_EmptySet DEF Init, QuietExtra
  <2> QED BY <2>2, <2>3, <2>5 DEF QuietInv
<1>2. VerifyInv /\ QuietInv /\ [Next]_vars => QuietInv'
  BY QuietListedStep, QuietVerdictsStep, QuietExtraStep DEF QuietInv, VerifyInv
<1>3. VerifyInv /\ QuietInv => QuietReportExact
  <2> SUFFICES ASSUME VerifyInv, QuietInv, pc = "done", changes = 0
               PROVE  LET suspect == UNION {Window(i) : i \in {j \in Ranges : Suspect(j)}}
                          live    == {k \in suspect \cap Kept : source[k] # Absent}
                      IN  /\ missing = {k \in live : dest[k] = Absent}
                          /\ short = {k \in live : dest[k] \notin {Absent, source[k]}}
                          /\ extra = Cardinality({k \in suspect \ live : dest[k] # Absent})
    BY DEF QuietReportExact
  <2> DEFINE suspect == UNION {Window(i) : i \in {j \in Ranges : Suspect(j)}}
             live    == {k \in suspect \cap Kept : source[k] # Absent}
  <2>1. \A k \in suspect : k \in Keys /\ Relisted(k)
    BY DoneRelisted DEF Window
  <2>2. \A k \in Keys : Relisted(k) => k \in suspect
    BY DEF Relisted
  <2>3. \A k \in Keys : page[k] = Absent
    BY DEF VerifyInv, PlaceInv
  <2>4. \A k \in Keys : Judged(k) <=> k \in live
    BY <2>1, <2>2, <2>3 DEF Judged
  <2>5. live \subseteq Keys /\ missing \subseteq Keys /\ short \subseteq Keys
    BY <2>1, VerifyConstants DEF VerifyInv, TypeOK
  <2>6. \A k \in Keys : /\ k \in missing <=> Judged(k) /\ dest[k] = Absent
                        /\ k \in short   <=> Judged(k) /\ dest[k] \notin {Absent, source[k]}
    BY DEF QuietInv, QuietVerdicts
  <2>7. Strays(at) = {k \in suspect \ live : dest[k] # Absent}
    <3>1. Strays(at) = {k \in Keys : Relisted(k) /\ ~ (k \in Kept /\ source[k] # Absent)
                                     /\ dest[k] # Absent}
      BY DEF Strays, Relisted
    <3> QED BY <2>1, <2>2, <3>1
  <2>8. extra = Cardinality(Strays(at))
    BY DEF QuietInv, QuietExtra, Counted
  <2> HIDE DEF suspect, live
  <2>9. missing = {k \in live : dest[k] = Absent}
    BY <2>4, <2>5, <2>6
  <2>10. short = {k \in live : dest[k] \notin {Absent, source[k]}}
    BY <2>4, <2>5, <2>6
  <2> QED BY <2>7, <2>8, <2>9, <2>10 DEF suspect, live
<1> QED BY <1>1, <1>2, <1>3, VerifyInvariant, PTL DEF Spec
=============================================================================
