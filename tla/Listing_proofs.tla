--------------------------- MODULE Listing_proofs ---------------------------
(***************************************************************************)
(* Proofs about the listing loop of a copier and the window it has         *)
(* checked, for every universe of keys, every command line, every page     *)
(* size and any number of changes of the source and of the destination.    *)
(*                                                                         *)
(* The listing is a walk along the keys: `planned`, then what is left of   *)
(* the page, then the keys past the token.  The invariant says that the    *)
(* three follow each other (OrderInv), that nothing steady is missing from *)
(* the first two up to where the walk is (CoverInv), and that the counters *)
(* and the limit account for `planned` (AccountInv).                       *)
(***************************************************************************)
EXTENDS Listing, FiniteSetTheorems, SequenceTheorems, TLAPS

\* A key that the command line asks for.
Asked(k) == Keep(k) /\ k > set.start_after /\ Within(k)

\* The walk goes forward, and ends early only past stop_at.
PagingInv ==
  /\ continuation # 0 => continuation > set.start_after
  /\ pc \notin {"list", "failed"} /\ token # 0 => token > From
  /\ range_end => set.stop_at # 0 /\ (token = 0 \/ set.stop_at < token)
  /\ pc = "list" => page_keys = <<>>

\* Keys are planned in order, those left of the page come after them, and the next page
\* after these.
OrderInv ==
  /\ \A i, j \in DOMAIN planned : i < j => planned[i].key < planned[j].key
  /\ \A i, j \in DOMAIN page_keys : i < j => page_keys[i].key < page_keys[j].key
  /\ \A i \in DOMAIN planned, j \in DOMAIN page_keys : planned[i].key < page_keys[j].key
  /\ pc = "list" => \A i \in DOMAIN planned : planned[i].key <= continuation
  /\ pc \notin {"list", "failed"} /\ token # 0 =>
       /\ \A i \in DOMAIN planned : planned[i].key <= token
       /\ \A i \in DOMAIN page_keys : page_keys[i].key <= token
  /\ \A i \in DOMAIN planned : Asked(planned[i].key)
  /\ \A i \in DOMAIN page_keys : Asked(page_keys[i].key)

Has(entries, k) == \E i \in DOMAIN entries : entries[i].key = k /\ entries[i].size = source[k]
Reached(k)      == IF pc = "list" THEN k <= From ELSE token = 0 \/ k <= token

\* The walk leaves no steady object behind.
CoverInv ==
  pc \notin {"failed", "consumer_gone"} =>
    \A k \in steady : source[k] # Absent /\ Asked(k) /\ Reached(k)
                        => Has(planned, k) \/ Has(page_keys, k)

\* The counters count what is planned, and the listing is over for a reason.
AccountInv ==
  /\ pc # "consumer_gone" =>
       /\ kept + skipped_existing = Len(planned)
       /\ acc_bytes = Total(Queued)
       /\ acc_bytes + skipped_existing_bytes = Total(DOMAIN planned)
       /\ last_planned = IF planned = <<>> THEN 0 ELSE planned[Len(planned)].key
  /\ limit_hit => pc = "done" /\ LimitReached
  /\ pc = "done" /\ ~limit_hit => page_keys = <<>> /\ (range_end \/ token = 0)

\* Before its last file, what is queued is below the limit.
LimitInv ==
  set.limit > 0 /\ Queued # {} => Total(Queued \ {Max(Queued)}) < set.limit

\* A file found in place stays so unless a key of the same path is queued.
ExistInv ==
  /\ \A i \in DOMAIN page_keys : page_keys[i].exists =>
       \/ dest[PathOf(page_keys[i].key)] = page_keys[i].size
       \/ \E j \in DOMAIN planned : /\ planned[j].how = "queued"
                                    /\ PathOf(planned[j].key) = PathOf(page_keys[i].key)
  /\ SkippedStays

ListingInv ==
  TypeOK /\ PagingInv /\ OrderInv /\ CoverInv /\ AccountInv /\ LimitInv /\ ExistInv

-----------------------------------------------------------------------------
(* Numbers and finite sets.                                                *)

\* A set of natural numbers that is not empty has a least element.
LEMMA SmallestExists ==
  ASSUME NEW S, S \subseteq Nat, S # {}
  PROVE  \E x \in S : \A y \in S : x <= y
<1>1. PICK x \in S : \A y \in S : ~(<<y, x>> \in OpToRel(<, Nat))
  BY WFMin, NatLessThanWellFounded
<1>2. \A y \in S : ~(y < x)
  <2> TAKE y \in S
  <2>1. y < x => <<y, x>> \in OpToRel(<, Nat)
    BY DEF OpToRel
  <2> QED BY <1>1, <2>1
<1> QED BY <1>2

\* Max is the greatest element of a bounded set.
LEMMA MaxInSet ==
  ASSUME NEW b \in Nat, NEW S, S \subseteq 1..b, S # {}
  PROVE  Max(S) \in S /\ \A y \in S : y <= Max(S)
<1> DEFINE D == {b - y : y \in S}
<1>0. \A y \in S : y \in Nat /\ b - y \in Nat
  OBVIOUS
<1>1. D \subseteq Nat /\ D # {}
  BY <1>0
<1>2. PICK d \in D : \A e \in D : d <= e
  BY <1>1, SmallestExists
<1>3. PICK x \in S : d = b - x
  OBVIOUS
<1>4. \A y \in S : x >= y
  <2> TAKE y \in S
  <2>1. b - y \in D
    OBVIOUS
  <2>2. b - x <= b - y
    BY <2>1, <1>2, <1>3
  <2> QED BY <2>2
<1>5. \E z \in S : \A y \in S : z >= y
  BY <1>4
<1>6. Max(S) \in S /\ \A y \in S : Max(S) >= y
  BY <1>5 DEF Max
<1> QED BY <1>6

\* The constants' types, and a command line's.
LEMMA ConstantTypes ==
  /\ Len(Universe) \in Nat /\ Keys = 1..Len(Universe) /\ Sizes \subseteq Nat
  /\ PageSize \in Nat \ {0} /\ MAX_ATTEMPTS \in Nat \ {0} /\ MaxChanges \in Nat
BY ListingConstants DEF Keys

\* A command line has numbers where numbers are compared.
LEMMA SetTypes ==
  ASSUME set \in Settings
  PROVE  /\ set.start_after \in Nat /\ set.stop_at \in Nat /\ set.limit \in Nat
         /\ set.start_after \in 0..Len(Universe) /\ set.stop_at \in 0..Len(Universe)
         /\ set.prefix \in Seq(STRING) /\ set.dest \in Seq(STRING) /\ set.skip \in BOOLEAN
<1>1. set \in [prefix : Seq(STRING), dest : Seq(STRING), start_after : {0} \cup Keys,
               stop_at : {0} \cup Keys, limit : Nat, skip : BOOLEAN,
               exclude : SUBSET Seq(STRING)]
  BY ListingConstants
<1>2. {0} \cup Keys = 0..Len(Universe)
  BY ConstantTypes
<1> QED BY <1>1, <1>2, ConstantTypes

\* Sets of keys are finite.
LEMMA KeysFinite ==
  ASSUME NEW K, K \subseteq Keys
  PROVE  IsFiniteSet(K) /\ Cardinality(K) \in Nat
<1>1. IsFiniteSet(Keys)
  BY ConstantTypes, FS_Interval
<1> QED BY <1>1, FS_Subset, FS_CardinalityType

\* The keys of K are numbered from 1 in order: Nth lists each of them once.
LEMMA NthOrdered ==
  ASSUME NEW K, K \subseteq Keys
  PROVE  /\ \A i \in 1..Cardinality(K) : Nth(K, i) \in K
         /\ \A i, j \in 1..Cardinality(K) : i < j => Nth(K, i) < Nth(K, j)
         /\ \A k \in K : \E i \in 1..Cardinality(K) : Nth(K, i) = k
<1> DEFINE upto(k) == {q \in K : q <= k}
           rank(k) == Cardinality(upto(k))
           ranks == {rank(k) : k \in K}
           r == [k \in K |-> rank(k)]
<1>0. IsFiniteSet(K) /\ Cardinality(K) \in Nat /\ \A k \in K : k \in Nat
  <2>1. \A k \in K : k \in Nat
    BY ConstantTypes
  <2> QED BY <2>1, KeysFinite
<1>1. \A k \in K : IsFiniteSet(upto(k)) /\ rank(k) \in Nat
  <2> TAKE k \in K
  <2>1. upto(k) \subseteq Keys
    OBVIOUS
  <2> HIDE DEF upto
  <2> QED BY <2>1, KeysFinite
<1>2. \A k \in K : rank(k) \in 1..Cardinality(K)
  <2> TAKE k \in K
  <2>1. upto(k) \subseteq K /\ k \in upto(k)
    BY <1>0
  <2> HIDE DEF upto
  <2>2. rank(k) <= Cardinality(K)
    BY <1>0, <2>1, FS_Subset
  <2>3. rank(k) # 0
    BY <1>1, <2>1, FS_EmptySet
  <2> QED BY <1>0, <1>1, <2>2, <2>3
<1>3. ASSUME NEW k \in K, NEW m \in K, k < m
      PROVE  rank(k) < rank(m)
  <2>1. upto(k) \subseteq upto(m) /\ m \in upto(m) /\ m \notin upto(k)
    BY <1>0, <1>3
  <2> HIDE DEF upto
  <2>2. rank(k) <= rank(m) /\ rank(k) # rank(m)
    BY <1>1, <2>1, FS_Subset
  <2> QED BY <1>1, <2>2
<1>4. \A k, m \in K : rank(k) = rank(m) => k = m
  <2> TAKE k, m \in K
  <2>1. k < m \/ m < k \/ k = m
    BY <1>0
  <2>2. k < m => rank(k) < rank(m)
    BY <1>3
  <2>3. m < k => rank(m) < rank(k)
    BY <1>3
  <2>4. rank(k) \in Nat /\ rank(m) \in Nat
    BY <1>1
  <2> HIDE DEF rank
  <2> QED BY <2>1, <2>2, <2>3, <2>4
<1>5. ranks = 1..Cardinality(K)
  <2> HIDE DEF rank
  <2>1. r \in Injection(K, ranks) /\ r \in Surjection(K, ranks)
    BY <1>4 DEF Injection, IsInjective, Surjection
  <2>2. ranks \subseteq 1..Cardinality(K)
    BY <1>2
  <2>3. IsFiniteSet(1..Cardinality(K)) /\ Cardinality(1..Cardinality(K)) = Cardinality(K)
    BY <1>0, FS_Interval
  <2> HIDE DEF ranks, r
  <2>4. Cardinality(ranks) = Cardinality(K)
    BY <1>0, <2>1, FS_Surjection
  <2> QED BY <2>2, <2>3, <2>4, FS_Subset
<1>6. ASSUME NEW i \in 1..Cardinality(K)
      PROVE  Nth(K, i) \in K /\ rank(Nth(K, i)) = i
  <2>1. \E k \in K : Cardinality({q \in K : q <= k}) = i
    BY <1>5
  <2> QED BY <2>1 DEF Nth
<1> HIDE DEF rank
<1>7. \A i, j \in 1..Cardinality(K) : i < j => Nth(K, i) < Nth(K, j)
  <2> SUFFICES ASSUME NEW i \in 1..Cardinality(K), NEW j \in 1..Cardinality(K), i < j
               PROVE  Nth(K, i) < Nth(K, j)
    OBVIOUS
  <2>1. Nth(K, i) \in K /\ Nth(K, j) \in K /\ rank(Nth(K, i)) = i /\ rank(Nth(K, j)) = j
    BY <1>6
  <2>2. \/ Nth(K, i) < Nth(K, j) \/ Nth(K, j) < Nth(K, i) \/ Nth(K, i) = Nth(K, j)
    BY <1>0, <2>1
  <2>3. Nth(K, j) < Nth(K, i) => j < i
    BY <1>3, <2>1
  <2>4. Nth(K, j) = Nth(K, i) => j = i
    BY <2>1
  <2> QED BY <2>2, <2>3, <2>4
<1>8. \A k \in K : \E i \in 1..Cardinality(K) : Nth(K, i) = k
  <2> TAKE k \in K
  <2>1. rank(k) \in 1..Cardinality(K)
    BY <1>2
  <2>2. Nth(K, rank(k)) \in K /\ rank(Nth(K, rank(k))) = rank(k)
    BY <1>6, <2>1
  <2>3. Nth(K, rank(k)) = k
    BY <1>4, <2>2
  <2> QED BY <2>1, <2>3
<1> QED BY <1>6, <1>7, <1>8

-----------------------------------------------------------------------------
(* Pages.                                                                  *)

\* A key that filter_key keeps starts with the prefix, and has no empty segment.
LEMMA KeptKeys ==
  ASSUME set \in Settings, NEW k \in Keys, Keep(k)
  PROVE  /\ IsPrefix(prefix, Universe[k]) /\ key_belongs_to_prefix(Universe[k], prefix)
         /\ ~HasEmptySegment(Universe[k])
<1>1. key_belongs_to_prefix(Universe[k], prefix) /\ ~HasEmptySegment(Universe[k])
  BY DEF Keep, filter_key
<1>2. Universe[k] \in Seq(STRING)
  BY ListingConstants DEF Keys
<1>3. IsPrefix(<<>>, Universe[k])
  BY <1>2 DEF IsPrefix
<1> QED BY <1>1, <1>3 DEF key_belongs_to_prefix

\* A page takes up, in order, the asked keys that follow the last page, up to its token;
\* without a token, up to the end.
LEMMA NewPage ==
  ASSUME TypeOK, ListPage
  PROVE  /\ page_keys' \in Seq(PageEntry) /\ token' \in 0..Len(Universe)
         /\ range_end' \in BOOLEAN
         /\ \A i \in DOMAIN page_keys' :
              /\ Keep(page_keys'[i].key) /\ Within(page_keys'[i].key)
              /\ page_keys'[i].key > From /\ ~page_keys'[i].exists
              /\ token' = 0 \/ page_keys'[i].key <= token'
         /\ \A i, j \in DOMAIN page_keys' : i < j => page_keys'[i].key < page_keys'[j].key
         /\ token' # 0 => token' > From
         /\ range_end' => set.stop_at # 0 /\ (token' = 0 \/ set.stop_at < token')
         /\ \A k \in Keys :
              /\ source[k] # Absent /\ Keep(k) /\ Within(k) /\ k > From
              /\ token' = 0 \/ k <= token'
              => \E i \in DOMAIN page_keys' : /\ page_keys'[i].key = k
                                              /\ page_keys'[i].size = source[k]
<1>1. PICK P \in Pages :
        /\ range_end' = (\E k \in P : ~Within(k))
        /\ page_keys' = [i \in 1..Cardinality(Taken(P)) |->
                           [key |-> Nth(Taken(P), i), size |-> source[Nth(Taken(P), i)],
                            exists |-> FALSE]]
        /\ token' = IF P = Matching THEN 0 ELSE Max(P)
  BY DEF ListPage
<1>2. /\ P \subseteq Matching /\ (P = {} => Matching = {})
      /\ \A k \in P, q \in Matching \ P : k < q
  BY DEF Pages
<1>3. /\ \A k \in Matching : k \in Keys /\ source[k] # Absent /\ k > From /\ k \in Nat
      /\ source \in [Keys -> Object] /\ set \in Settings
  BY ConstantTypes DEF Matching, TypeOK
<1>4. \A k \in Matching : source[k] \in Sizes
  BY <1>3 DEF Object
<1>5. Taken(P) \subseteq Keys /\ Taken(P) \subseteq P /\ \A k \in Taken(P) : Within(k) /\ Keep(k)
  BY <1>2, <1>3 DEF Taken
<1> DEFINE n == Cardinality(Taken(P))
<1>6. /\ n \in Nat /\ \A i \in 1..n : Nth(Taken(P), i) \in Taken(P)
      /\ \A i, j \in 1..n : i < j => Nth(Taken(P), i) < Nth(Taken(P), j)
      /\ \A k \in Taken(P) : \E i \in 1..n : Nth(Taken(P), i) = k
  BY <1>5, KeysFinite, NthOrdered
<1> HIDE DEF n
<1>7. /\ DOMAIN page_keys' = 1..n
      /\ \A i \in 1..n : page_keys'[i] = [key |-> Nth(Taken(P), i),
                                          size |-> source[Nth(Taken(P), i)], exists |-> FALSE]
  BY <1>1 DEF n
<1>8. \A i \in 1..n : /\ page_keys'[i] \in PageEntry /\ ~page_keys'[i].exists
                      /\ page_keys'[i].key = Nth(Taken(P), i)
                      /\ page_keys'[i].size = source[Nth(Taken(P), i)]
  <2> TAKE i \in 1..n
  <2>1. Nth(Taken(P), i) \in Keys /\ source[Nth(Taken(P), i)] \in Sizes
    BY <1>2, <1>4, <1>5, <1>6
  <2>2. FALSE \in BOOLEAN
    OBVIOUS
  <2>3. PICK k \in Keys, z \in Sizes : k = Nth(Taken(P), i) /\ z = source[Nth(Taken(P), i)]
    BY <2>1
  <2>4. page_keys'[i] = [key |-> k, size |-> z, exists |-> FALSE]
    BY <1>7, <2>3
  <2>5. [key |-> k, size |-> z, exists |-> FALSE] \in PageEntry
    BY <2>2 DEF PageEntry
  <2>6. page_keys'[i].exists = FALSE /\ page_keys'[i].key = k /\ page_keys'[i].size = z
    BY <2>4
  <2> QED BY <2>3, <2>4, <2>5, <2>6
<1>9. page_keys' \in Seq(PageEntry)
  <2>1. page_keys' = [i \in 1..n |-> page_keys'[i]]
    BY <1>1 DEF n
  <2> QED BY <1>6, <1>8, <2>1
<1>10. /\ token' \in 0..Len(Universe)
       /\ token' = 0 => P = Matching
       /\ token' # 0 => token' \in P /\ \A k \in P : k <= token'
  <2>1. CASE P = Matching
    BY <1>1, <1>3, <2>1, ConstantTypes
  <2>2. CASE P # Matching
    <3>1. P # {} /\ P \subseteq 1..Len(Universe)
      BY <1>2, <1>3, <2>2, ConstantTypes
    <3>2. Max(P) \in P /\ \A k \in P : k <= Max(P)
      BY <3>1, ConstantTypes, MaxInSet
    <3>3. Max(P) \in 1..Len(Universe)
      BY <3>1, <3>2
    <3>4. token' = Max(P)
      BY <1>1, <2>2
    <3> QED BY <3>2, <3>3, <3>4, ConstantTypes
  <2> QED BY <2>1, <2>2
<1>11. token' # 0 => token' > From
  BY <1>2, <1>3, <1>10
<1>12. range_end' \in BOOLEAN
  BY <1>1
<1>13. range_end' => set.stop_at # 0 /\ (token' = 0 \/ set.stop_at < token')
  <2> SUFFICES ASSUME range_end'
               PROVE  set.stop_at # 0 /\ (token' = 0 \/ set.stop_at < token')
    OBVIOUS
  <2>1. PICK k \in P : ~Within(k)
    BY <1>1
  <2>2. set.stop_at # 0 /\ ~(k <= set.stop_at)
    BY <2>1 DEF Within
  <2>3. set.stop_at \in Nat /\ k \in Nat /\ token' \in Nat
    BY <1>2, <1>3, <1>10, SetTypes, ConstantTypes
  <2>4. token' = 0 \/ k <= token'
    BY <1>10
  <2> QED BY <2>2, <2>3, <2>4
<1>14. \A i \in 1..n : /\ Keep(page_keys'[i].key) /\ Within(page_keys'[i].key)
                       /\ page_keys'[i].key > From
                       /\ token' = 0 \/ page_keys'[i].key <= token'
  <2> TAKE i \in 1..n
  <2>1. page_keys'[i].key \in Taken(P)
    BY <1>6, <1>8
  <2> QED BY <1>2, <1>3, <1>5, <1>10, <2>1
<1>15. \A i, j \in 1..n : i < j => page_keys'[i].key < page_keys'[j].key
  BY <1>6, <1>8
<1>16. ASSUME NEW k \in Keys, source[k] # Absent, Keep(k), Within(k), k > From,
              token' = 0 \/ k <= token'
       PROVE  \E i \in 1..n : page_keys'[i].key = k /\ page_keys'[i].size = source[k]
  <2>1. k \in Matching
    BY <1>3, <1>16, KeptKeys DEF Matching
  <2>2. k \in P
    <3>1. CASE token' = 0
      BY <1>10, <2>1, <3>1
    <3>2. CASE token' # 0
      <4>1. token' \in P /\ k <= token' /\ k \in Nat /\ token' \in Nat
        BY <1>2, <1>3, <1>10, <1>16, <2>1, <3>2
      <4>2. k \notin P => token' < k
        BY <1>2, <2>1, <4>1
      <4> QED BY <4>1, <4>2
    <3> QED BY <3>1, <3>2
  <2>3. k \in Taken(P)
    BY <1>16, <2>2 DEF Taken
  <2>4. PICK i \in 1..n : Nth(Taken(P), i) = k
    BY <1>6, <2>3
  <2> QED BY <1>8, <2>4
<1> QED BY <1>7, <1>8, <1>9, <1>10, <1>11, <1>12, <1>13, <1>14, <1>15, <1>16

-----------------------------------------------------------------------------
(* Types.                                                                  *)

\* The entries of a page and of the plan.
LEMMA EntryTypes ==
  ASSUME TypeOK
  PROVE  /\ Len(page_keys) \in Nat /\ DOMAIN page_keys = 1..Len(page_keys)
         /\ Len(planned) \in Nat /\ DOMAIN planned = 1..Len(planned)
         /\ \A i \in DOMAIN page_keys :
              /\ page_keys[i] \in PageEntry /\ page_keys[i].key \in Keys /\ page_keys[i].key \in Nat
              /\ page_keys[i].size \in Sizes /\ page_keys[i].size \in Nat
              /\ page_keys[i].exists \in BOOLEAN
         /\ \A i \in DOMAIN planned :
              /\ planned[i] \in PlannedEntry /\ planned[i].key \in Keys /\ planned[i].key \in Nat
              /\ planned[i].size \in Sizes /\ planned[i].size \in Nat
              /\ planned[i].how \in {"queued", "existing"}
<1>1. page_keys \in Seq(PageEntry) /\ planned \in Seq(PlannedEntry)
  BY DEF TypeOK
<1>2. \A e \in PageEntry : e.key \in Keys /\ e.size \in Sizes /\ e.exists \in BOOLEAN
  BY DEF PageEntry
<1>3. \A e \in PlannedEntry : e.key \in Keys /\ e.size \in Sizes /\ e.how \in {"queued", "existing"}
  BY DEF PlannedEntry
<1>4. (\A k \in Keys : k \in Nat) /\ (\A z \in Sizes : z \in Nat)
  BY ConstantTypes
<1> QED BY <1>1, <1>2, <1>3, <1>4

\* The next key of the page is its first, and what is left follows it.
LEMMA NextOfPage ==
  ASSUME TypeOK, page_keys # <<>>, page_keys' = Tail(page_keys)
  PROVE  /\ page_keys' \in Seq(PageEntry)
         /\ 1 \in DOMAIN page_keys /\ Obj = page_keys[1]
         /\ \A i \in DOMAIN page_keys' : i \in Nat /\ i + 1 \in DOMAIN page_keys /\ i + 1 > 1
                                         /\ page_keys'[i] = page_keys[i + 1]
         /\ \A i \in DOMAIN page_keys : \/ i = 1
                                         \/ /\ i - 1 \in DOMAIN page_keys'
                                            /\ page_keys'[i - 1] = page_keys[i]
<1>1. page_keys \in Seq(PageEntry) /\ Len(page_keys) \in Nat
  BY DEF TypeOK
<1>2. Len(page_keys) # 0
  BY <1>1
<1>3. page_keys' \in Seq(PageEntry) /\ Len(page_keys') = Len(page_keys) - 1
  BY <1>1
<1>4. /\ DOMAIN page_keys = 1..Len(page_keys) /\ DOMAIN page_keys' = 1..(Len(page_keys) - 1)
  BY <1>1, <1>2, <1>3
<1>5. \A i \in 1..(Len(page_keys) - 1) : page_keys'[i] = page_keys[i + 1]
  BY <1>1, <1>2
<1>6. Obj = page_keys[1]
  BY <1>1 DEF Obj
<1>7. ASSUME NEW i \in DOMAIN page_keys, i # 1
      PROVE  i - 1 \in DOMAIN page_keys' /\ page_keys'[i - 1] = page_keys[i]
  <2>1. PICK j \in 1..(Len(page_keys) - 1) : j = i - 1 /\ i = j + 1
    BY <1>1, <1>4, <1>7
  <2>2. page_keys'[j] = page_keys[j + 1]
    BY <1>5
  <2>3. page_keys'[j] = page_keys[i]
    BY <2>1, <2>2
  <2> QED BY <1>4, <2>1, <2>3
<1>8. ASSUME NEW i \in DOMAIN page_keys'
      PROVE  /\ i \in Nat /\ i + 1 \in DOMAIN page_keys /\ i + 1 > 1
             /\ page_keys'[i] = page_keys[i + 1]
  BY <1>1, <1>4, <1>5
<1>9. 1 \in DOMAIN page_keys
  BY <1>1, <1>2, <1>4
<1> QED BY <1>3, <1>6, <1>7, <1>8, <1>9

\* Done(how) puts the next key at the end of the plan.
LEMMA NextOfPlan ==
  ASSUME TypeOK, page_keys # <<>>, NEW how \in {"queued", "existing"}, Done(how)
  PROVE  /\ planned' \in Seq(PlannedEntry) /\ Len(planned') = Len(planned) + 1
         /\ Len(planned) + 1 \in DOMAIN planned'
         /\ DOMAIN planned' = DOMAIN planned \cup {Len(planned) + 1}
         /\ Len(planned) + 1 \notin DOMAIN planned
         /\ \A i \in DOMAIN planned : planned'[i] = planned[i]
         /\ planned'[Len(planned) + 1].key = Obj.key
         /\ planned'[Len(planned) + 1].size = Obj.size
         /\ planned'[Len(planned) + 1].how = how
<1>1. page_keys \in Seq(PageEntry) /\ planned \in Seq(PlannedEntry)
  BY DEF TypeOK
<1>2. Obj \in PageEntry
  BY <1>1 DEF Obj
<1>3. PICK k \in Keys, z \in Sizes : k = Obj.key /\ z = Obj.size
  BY <1>2 DEF PageEntry
<1>4. [key |-> k, size |-> z, how |-> how] \in PlannedEntry
  BY DEF PlannedEntry
<1>5. PICK e \in PlannedEntry : e = [key |-> k, size |-> z, how |-> how]
  BY <1>4
<1>6. planned' = Append(planned, e)
  BY <1>3, <1>5 DEF Done
<1>7. e.key = k /\ e.size = z /\ e.how = how
  BY <1>5
<1>8. planned' \in Seq(PlannedEntry) /\ Len(planned') = Len(planned) + 1 /\ Len(planned) \in Nat
  BY <1>1, <1>6
<1>9. planned'[Len(planned) + 1] = e /\ \A i \in 1..Len(planned) : planned'[i] = planned[i]
  BY <1>1, <1>6
<1>10. DOMAIN planned = 1..Len(planned) /\ DOMAIN planned' = 1..(Len(planned) + 1)
  BY <1>1, <1>8
<1> QED BY <1>3, <1>7, <1>8, <1>9, <1>10

\* Every step keeps the types, and the command line.
LEMMA TypeStep ==
  ASSUME TypeOK, [Next]_vars
  PROVE  TypeOK' /\ set' = set
<1>0. /\ tries \in Nat /\ MAX_ATTEMPTS \in Nat \ {0} /\ acc_bytes \in Nat /\ kept \in Nat
      /\ skipped_existing \in Nat /\ skipped_existing_bytes \in Nat
      /\ page_keys \in Seq(PageEntry) /\ planned \in Seq(PlannedEntry)
  BY ConstantTypes DEF TypeOK
<1>a. set' = set => Paths' = Paths
  BY DEF Paths, Keep, PathOf, prefix
<1>1. CASE ListPage
  <2>1. pc' \in {"lookup", "queue"}
    BY <1>1 DEF ListPage
  <2>2. UNCHANGED <<set, env, tries, continuation, totals, planned>>
    BY <1>1 DEF ListPage
  <2> QED BY <1>1, <1>a, <2>1, <2>2, NewPage DEF TypeOK, env, totals
<1>2. CASE ListFails
  <2>1. tries' \in 0..MAX_ATTEMPTS - 1 /\ pc' \in {"list", "failed"}
    BY <1>0, <1>2 DEF ListFails, GivingUp, TypeOK
  <2> QED BY <1>a, <1>2, <2>1 DEF ListFails, TypeOK, env, totals, Final
<1>3. CASE Lookup
  <2>1. /\ page_keys' = [i \in DOMAIN page_keys |-> [page_keys[i] EXCEPT !.exists =
             is_existing(Sizes_found, PathOf(page_keys[i].key), page_keys[i].size)]]
        /\ pc' = "queue" /\ UNCHANGED <<set, env, paging, totals, planned>>
    BY <1>3 DEF Lookup
  <2>2. \A e \in PageEntry : \A b \in BOOLEAN : [e EXCEPT !.exists = b] \in PageEntry
    BY DEF PageEntry
  <2>3. \A f, p, z : is_existing(f, p, z) \in BOOLEAN
    BY DEF is_existing
  <2>4. page_keys' \in Seq(PageEntry)
    <3>1. \A i \in DOMAIN page_keys : page_keys'[i] \in PageEntry
      BY <1>0, <2>1, <2>2, <2>3, EntryTypes
    <3>2. page_keys' = [i \in 1..Len(page_keys) |-> page_keys'[i]]
      BY <2>1, EntryTypes
    <3> QED BY <3>1, <3>2, EntryTypes
  <2> QED BY <1>a, <2>1, <2>4 DEF TypeOK, env, paging, totals
<1>4. CASE LookupFails
  BY <1>a, <1>4 DEF LookupFails, TypeOK, env, paging, totals, Final
<1>5. CASE SkipExisting
  <2>1. /\ page_keys # <<>> /\ page_keys' = Tail(page_keys) /\ Done("existing")
        /\ skipped_existing' = skipped_existing + 1 /\ last_planned' = Obj.key
        /\ skipped_existing_bytes' = skipped_existing_bytes + Obj.size
        /\ UNCHANGED <<set, env, pc, paging, kept, acc_bytes, limit_hit>>
    BY <1>5 DEF SkipExisting
  <2>2. page_keys' \in Seq(PageEntry) /\ planned' \in Seq(PlannedEntry)
    BY <2>1, NextOfPage, NextOfPlan
  <2>3. Obj.size \in Nat /\ Obj.key \in Keys
    BY <2>1, NextOfPage, EntryTypes
  <2>4. /\ skipped_existing' \in Nat /\ skipped_existing_bytes' \in Nat
        /\ last_planned' \in 0..Len(Universe)
    BY <1>0, <2>1, <2>3, ConstantTypes
  <2> QED BY <1>a, <2>1, <2>2, <2>4 DEF TypeOK, env, paging
<1>6. CASE Cut
  <2>1. limit_hit' \in BOOLEAN /\ pc' = "done"
    BY <1>6 DEF Cut
  <2> QED BY <1>a, <1>6, <2>1 DEF Cut, TypeOK, env, paging, Final
<1>7. CASE Queue
  <2>1. /\ page_keys # <<>> /\ page_keys' = Tail(page_keys)
        /\ acc_bytes' = acc_bytes + Obj.size /\ kept' = kept + 1 /\ last_planned' = Obj.key
        /\ (Done("queued") /\ pc' = pc) \/ (pc' = "consumer_gone" /\ planned' = planned)
        /\ UNCHANGED <<set, env, paging, skipped_existing, skipped_existing_bytes, limit_hit>>
    BY <1>7 DEF Queue
  <2>2. page_keys' \in Seq(PageEntry) /\ planned' \in Seq(PlannedEntry)
    BY <1>0, <2>1, NextOfPage, NextOfPlan
  <2>3. Obj.size \in Nat /\ Obj.key \in Keys
    BY <2>1, NextOfPage, EntryTypes
  <2>4. kept' \in Nat /\ acc_bytes' \in Nat /\ last_planned' \in 0..Len(Universe)
    BY <1>0, <2>1, <2>3, ConstantTypes
  <2> QED BY <1>a, <2>1, <2>2, <2>4 DEF TypeOK, env, paging, Final
<1>8. CASE EndPage
  <2>1. /\ tries' \in 0..MAX_ATTEMPTS - 1 /\ pc' \in {"list", "done"}
        /\ continuation' \in 0..Len(Universe)
    BY <1>0, <1>8 DEF EndPage, TypeOK
  <2> QED BY <1>a, <1>8, <2>1 DEF EndPage, TypeOK, env, totals, Final
<1>9. CASE Commit
  <2>1. PICK i \in DOMAIN planned :
          dest' = [dest EXCEPT ![PathOf(planned[i].key)] = planned[i].size]
    BY <1>9 DEF Commit
  <2>2. dest' \in [Paths -> Object]
    BY <2>1, EntryTypes DEF TypeOK, Object
  <2>3. Paths' = Paths
    BY <1>9 DEF Commit, Paths, Keep, PathOf, prefix
  <2> QED BY <1>9, <2>2, <2>3 DEF Commit, TypeOK, paging, totals
<1>10. CASE SourceChanges
  <2>1. source' \in [Keys -> Object] /\ changes' \in 0..MaxChanges /\ steady' \subseteq Keys
    BY <1>10, ConstantTypes DEF SourceChanges, TypeOK
  <2>2. UNCHANGED <<set, dest, pc, paging, page_keys, totals, planned>>
    BY <1>10 DEF SourceChanges
  <2>3. Paths' = Paths
    BY <2>2 DEF Paths, Keep, PathOf, prefix
  <2> QED BY <2>1, <2>2, <2>3 DEF TypeOK, paging, totals
<1>11. CASE UNCHANGED vars
  <2>1. Paths' = Paths
    BY <1>11 DEF vars, Paths, Keep, PathOf, prefix
  <2> QED BY <1>11, <2>1 DEF TypeOK, vars, env, paging, totals
<1> QED
  BY <1>1, <1>2, <1>3, <1>4, <1>5, <1>6, <1>7, <1>8, <1>9, <1>10, <1>11 DEF Next, Step, Over

-----------------------------------------------------------------------------
(* The walk.                                                               *)

\* What the command line asks for does not change while the copier runs.
LEMMA AskedKept ==
  ASSUME set' = set
  PROVE  /\ \A k : (Asked(k)' <=> Asked(k)) /\ (Keep(k)' <=> Keep(k)) /\ (Within(k)' <=> Within(k))
         /\ \A k : PathOf(k)' = PathOf(k)
         /\ prefix' = prefix /\ (LimitReached' <=> (set.limit > 0 /\ acc_bytes' >= set.limit))
BY DEF Asked, Keep, Within, PathOf, prefix, LimitReached

\* The next key of the page is taken up: SkipExisting, or Queue with or without consumer.
LEMMA TakeUp ==
  ASSUME TypeOK, SkipExisting \/ Queue
  PROVE  /\ pc = "queue" /\ page_keys # <<>> /\ page_keys' = Tail(page_keys)
         /\ last_planned' = Obj.key
         /\ UNCHANGED <<set, source, dest, steady, paging, limit_hit>>
         /\ \/ pc' = "queue" /\ \E how \in {"queued", "existing"} : Done(how)
            \/ pc' = "consumer_gone" /\ planned' = planned
BY DEF SkipExisting, Queue, env

\* Every step keeps the walk going forward.
LEMMA PagingStep ==
  ASSUME TypeOK, PagingInv, [Next]_vars
  PROVE  PagingInv'
<1>0. /\ set' = set /\ continuation \in Nat /\ token \in Nat /\ set.start_after \in Nat
      /\ set.stop_at \in Nat
  <2>1. set' = set
    BY TypeStep
  <2>2. /\ set \in Settings /\ continuation \in 0..Len(Universe)
        /\ token \in 0..Len(Universe)
    BY DEF TypeOK
  <2>3. set.start_after \in Nat /\ set.stop_at \in Nat
    BY <2>2, SetTypes
  <2> QED BY <2>1, <2>2, <2>3, ConstantTypes
<1>1. CASE ListPage
  <2>1. /\ pc' \in {"lookup", "queue"} /\ continuation' = continuation /\ From' = From
        /\ token' # 0 => token' > From
        /\ range_end' => set.stop_at # 0 /\ (token' = 0 \/ set.stop_at < token')
    <3>1. pc' \in {"lookup", "queue"} /\ continuation' = continuation
      BY <1>1 DEF ListPage
    <3>2. From' = From
      BY <1>0, <3>1 DEF From
    <3> QED BY <1>1, <3>1, <3>2, NewPage
  <2> QED BY <1>0, <2>1 DEF PagingInv
<1>2. CASE ListFails
  <2>1. /\ pc' \in {"list", "failed"} /\ pc = "list"
        /\ UNCHANGED <<continuation, token, range_end, page_keys>>
    BY <1>2 DEF ListFails
  <2> QED BY <1>0, <2>1 DEF PagingInv
<1>3. CASE EndPage
  <2>1. page_keys = <<>> /\ pc = "queue" /\ UNCHANGED <<token, range_end, page_keys>>
    BY <1>3 DEF EndPage
  <2>2. token # 0 => token > From
    BY <2>1 DEF PagingInv
  <2>3. CASE pc' = "done" /\ continuation' = continuation
    <3>1. From' = From
      BY <1>0, <2>3 DEF From
    <3> QED BY <1>0, <2>1, <2>2, <2>3, <3>1 DEF PagingInv
  <2>4. CASE pc' = "list" /\ continuation' = token /\ token # 0
    <3>1. token > set.start_after
      BY <1>0, <2>2, <2>4 DEF PagingInv, From
    <3> QED BY <1>0, <2>1, <2>4, <3>1 DEF PagingInv
  <2> QED BY <1>3, <2>3, <2>4 DEF EndPage
<1>4. CASE /\ UNCHANGED <<continuation, token, range_end>>
           /\ \/ pc # "list" /\ pc # "failed" /\ pc' # "list"
              \/ pc' = pc /\ page_keys' = page_keys
  <2>1. From' = From
    BY <1>0, <1>4 DEF From
  <2> QED BY <1>0, <1>4, <2>1 DEF PagingInv
<1>5. CASE \/ SkipExisting \/ Queue \/ Cut \/ Lookup \/ LookupFails
           \/ Commit \/ SourceChanges \/ UNCHANGED vars
  <2>1. /\ UNCHANGED <<continuation, token, range_end>>
        /\ \/ pc # "list" /\ pc # "failed" /\ pc' # "list"
           \/ pc' = pc /\ page_keys' = page_keys
    BY <1>5, TakeUp DEF Cut, Lookup, LookupFails, Commit, SourceChanges, vars, paging
  <2> QED BY <1>4, <2>1
<1>6. \/ ListPage \/ ListFails \/ EndPage
      \/ SkipExisting \/ Queue \/ Cut \/ Lookup \/ LookupFails
      \/ Commit \/ SourceChanges \/ UNCHANGED vars
  BY DEF Next, Step, Over
<1> QED BY <1>1, <1>2, <1>3, <1>4, <1>5, <1>6

\* Taking up a key moves it from the page to the end of the plan, or drops it.
LEMMA OrderTakeUp ==
  ASSUME TypeOK, OrderInv, SkipExisting \/ Queue
  PROVE  OrderInv'
<1>0. /\ pc = "queue" /\ pc' # "list" /\ page_keys # <<>> /\ page_keys' = Tail(page_keys)
      /\ set' = set /\ token' = token
      /\ \/ \E how \in {"queued", "existing"} : Done(how)
         \/ planned' = planned
  BY TakeUp DEF paging
<1>1. /\ 1 \in DOMAIN page_keys /\ Obj = page_keys[1]
      /\ \A i \in DOMAIN page_keys' : i \in Nat /\ i + 1 \in DOMAIN page_keys /\ i + 1 > 1
                                      /\ page_keys'[i] = page_keys[i + 1]
  BY <1>0, NextOfPage
<1>2. /\ DOMAIN page_keys = 1..Len(page_keys) /\ DOMAIN planned = 1..Len(planned)
      /\ Len(page_keys) \in Nat /\ Len(planned) \in Nat
      /\ \A i \in DOMAIN page_keys : page_keys[i].key \in Nat
      /\ \A i \in DOMAIN planned : planned[i].key \in Nat
  BY EntryTypes
<1>3. \A k : Asked(k)' <=> Asked(k)
  BY <1>0, AskedKept
<1>4. ASSUME NEW i \in DOMAIN page_keys'
      PROVE  /\ Asked(page_keys'[i].key) /\ Obj.key < page_keys'[i].key
             /\ token # 0 => page_keys'[i].key <= token
             /\ \A j \in DOMAIN page_keys' : i < j => page_keys'[i].key < page_keys'[j].key
             /\ \A j \in DOMAIN planned : planned[j].key < page_keys'[i].key
  <2>1. PICK m \in DOMAIN page_keys : m = i + 1 /\ m > 1 /\ page_keys'[i] = page_keys[m]
    BY <1>1
  <2>2. Asked(page_keys'[i].key) /\ Obj.key < page_keys'[i].key
    BY <1>1, <1>2, <2>1 DEF OrderInv
  <2>3. token # 0 => page_keys'[i].key <= token
    BY <1>0, <2>1 DEF OrderInv
  <2>4. ASSUME NEW j \in DOMAIN page_keys', i < j
        PROVE  page_keys'[i].key < page_keys'[j].key
    <3>1. PICK l \in DOMAIN page_keys : l = j + 1 /\ page_keys'[j] = page_keys[l]
      BY <1>1
    <3>2. i \in Nat /\ j \in Nat
      BY <1>1
    <3>3. m < l
      BY <2>1, <2>4, <3>1, <3>2
    <3> QED BY <2>1, <3>1, <3>3 DEF OrderInv
  <2>5. \A j \in DOMAIN planned : planned[j].key < page_keys'[i].key
    BY <2>1 DEF OrderInv
  <2> QED BY <2>2, <2>3, <2>4, <2>5
<1>5. /\ Asked(Obj.key) /\ (token # 0 => Obj.key <= token)
      /\ \A j \in DOMAIN planned : planned[j].key < Obj.key
  BY <1>0, <1>1 DEF OrderInv
<1>6. CASE \E how \in {"queued", "existing"} : Done(how)
  <2>1. PICK n : n = Len(planned) + 1
    OBVIOUS
  <2>2. /\ DOMAIN planned' = DOMAIN planned \cup {n} /\ planned'[n].key = Obj.key
        /\ \A i \in DOMAIN planned : planned'[i] = planned[i] /\ i < n
    BY <1>0, <1>2, <1>6, <2>1, NextOfPlan
  <2>3. ASSUME NEW i \in DOMAIN planned', NEW j \in DOMAIN planned', i < j
        PROVE  planned'[i].key < planned'[j].key
    <3>1. i \in DOMAIN planned
      BY <1>2, <2>1, <2>2, <2>3
    <3> QED BY <1>5, <2>2, <2>3, <3>1 DEF OrderInv
  <2>4. ASSUME NEW i \in DOMAIN planned'
        PROVE  /\ Asked(planned'[i].key)
               /\ token # 0 => planned'[i].key <= token
               /\ \A j \in DOMAIN page_keys' : planned'[i].key < page_keys'[j].key
    <3>1. Asked(planned'[i].key)
      BY <1>5, <2>2 DEF OrderInv
    <3>2. token # 0 => planned'[i].key <= token
      BY <1>0, <1>5, <2>2 DEF OrderInv
    <3>3. \A j \in DOMAIN page_keys' : planned'[i].key < page_keys'[j].key
      BY <1>4, <2>2
    <3> QED BY <3>1, <3>2, <3>3
  <2> QED BY <1>0, <1>3, <1>4, <2>3, <2>4 DEF OrderInv
<1>7. CASE planned' = planned
  BY <1>0, <1>3, <1>4, <1>7 DEF OrderInv
<1> QED BY <1>0, <1>6, <1>7

\* Every step keeps plan, page and what is to come in order.
LEMMA OrderStep ==
  ASSUME TypeOK, PagingInv, OrderInv, [Next]_vars
  PROVE  OrderInv'
<1>0. /\ set' = set /\ \A k : Asked(k)' <=> Asked(k)
  BY TypeStep, AskedKept
<1>1. CASE ListPage
  <2>1. pc = "list" /\ pc' \in {"lookup", "queue"} /\ planned' = planned
    BY <1>1 DEF ListPage
  <2>2. /\ \A i \in DOMAIN page_keys' :
             /\ Keep(page_keys'[i].key) /\ Within(page_keys'[i].key)
             /\ page_keys'[i].key > From
             /\ token' = 0 \/ page_keys'[i].key <= token'
        /\ \A i, j \in DOMAIN page_keys' : i < j => page_keys'[i].key < page_keys'[j].key
        /\ token' # 0 => token' > From
        /\ page_keys' \in Seq(PageEntry) /\ token' \in Nat
    BY <1>1, NewPage, ConstantTypes
  <2>3. /\ From \in Nat /\ From >= set.start_after /\ From >= continuation
        /\ set.start_after \in Nat /\ continuation \in Nat
    BY SetTypes, ConstantTypes DEF From, PagingInv, TypeOK
  <2>4. \A i \in DOMAIN page_keys' : page_keys'[i].key \in Nat
    <3>1. \A i \in DOMAIN page_keys' : page_keys'[i] \in PageEntry
      BY <2>2
    <3> QED BY <3>1, ConstantTypes DEF PageEntry
  <2>5. \A i \in DOMAIN page_keys' : Asked(page_keys'[i].key)
    BY <2>2, <2>3, <2>4 DEF Asked
  <2>6. \A i \in DOMAIN planned : /\ planned[i].key <= continuation /\ Asked(planned[i].key)
                                  /\ planned[i].key \in Nat
    BY <2>1, EntryTypes DEF OrderInv
  <2>7. \A i \in DOMAIN planned, j \in DOMAIN page_keys' : planned[i].key < page_keys'[j].key
    BY <2>2, <2>3, <2>4, <2>6
  <2>8. token' # 0 => \A i \in DOMAIN planned : planned[i].key <= token'
    BY <2>2, <2>3, <2>6
  <2> QED BY <1>0, <2>1, <2>2, <2>5, <2>7, <2>8 DEF OrderInv
<1>2. CASE ListFails
  <2>1. pc = "list" /\ UNCHANGED <<page_keys, planned, continuation, token>> /\ page_keys = <<>>
    BY <1>2 DEF ListFails, PagingInv
  <2>2. pc' = "failed" \/ pc' = "list"
    BY <1>2 DEF ListFails
  <2> QED BY <1>0, <2>1, <2>2 DEF OrderInv
<1>3. CASE Lookup
  <2>1. /\ pc = "lookup" /\ pc' = "queue" /\ UNCHANGED <<planned, token>>
        /\ DOMAIN page_keys' = DOMAIN page_keys
        /\ \A i \in DOMAIN page_keys : page_keys'[i].key = page_keys[i].key
    <3>1. \A e \in PageEntry : \A b : [e EXCEPT !.exists = b].key = e.key
      BY DEF PageEntry
    <3> QED BY <1>3, <3>1, EntryTypes DEF Lookup, paging
  <2> QED BY <1>0, <2>1 DEF OrderInv
<1>4. CASE EndPage
  <2>1. /\ pc = "queue" /\ UNCHANGED <<planned, token, page_keys>>
        /\ \/ pc' = "done"
           \/ pc' = "list" /\ continuation' = token /\ token # 0
    BY <1>4 DEF EndPage
  <2> QED BY <1>0, <2>1 DEF OrderInv
<1>5. CASE SkipExisting \/ Queue
  BY <1>5, OrderTakeUp
<1>6. CASE UNCHANGED <<page_keys, planned, continuation, token>>
           /\ (pc' = pc \/ (pc \notin {"list", "failed"} /\ pc' # "list"))
  BY <1>0, <1>6 DEF OrderInv
<1>7. LookupFails \/ Cut \/ Commit \/ SourceChanges \/ UNCHANGED vars
        => UNCHANGED <<page_keys, planned, continuation, token>>
           /\ (pc' = pc \/ (pc \notin {"list", "failed"} /\ pc' # "list"))
  BY DEF LookupFails, Cut, Commit, SourceChanges, vars, paging
<1> QED
  BY <1>1, <1>2, <1>3, <1>4, <1>5, <1>6, <1>7 DEF Next, Step, Over

\* Every step leaves no steady object behind.
LEMMA CoverStep ==
  ASSUME TypeOK, PagingInv, OrderInv, CoverInv, [Next]_vars
  PROVE  CoverInv'
<1>0. /\ set' = set /\ \A k : Asked(k)' <=> Asked(k)
  BY TypeStep, AskedKept
<1> DEFINE Left(k) == \E i \in DOMAIN page_keys : /\ page_keys[i].key = k
                                                  /\ page_keys[i].size = source[k]
           Took(k) == \E i \in DOMAIN planned : /\ planned[i].key = k
                                                /\ planned[i].size = source[k]
<1>1. pc \notin {"failed", "consumer_gone"} =>
        \A k \in steady : source[k] # Absent /\ Asked(k) /\ Reached(k) => Took(k) \/ Left(k)
  BY DEF CoverInv, Has
<1>2. SUFFICES ASSUME pc' \notin {"failed", "consumer_gone"}, NEW k \in steady',
                      source'[k] # Absent, Asked(k), Reached(k)'
               PROVE  \/ \E i \in DOMAIN planned' : /\ planned'[i].key = k
                                                    /\ planned'[i].size = source'[k]
                      \/ \E i \in DOMAIN page_keys' : /\ page_keys'[i].key = k
                                                      /\ page_keys'[i].size = source'[k]
  BY <1>0 DEF CoverInv, Has
<1>3. steady \subseteq Keys /\ \A x \in Keys : x \in Nat
  BY ConstantTypes DEF TypeOK
<1>4. CASE ListPage
  <2>1. /\ pc = "list" /\ pc' \in {"lookup", "queue"} /\ planned' = planned
        /\ source' = source /\ steady' = steady
    BY <1>4 DEF ListPage, env
  <2>2. token' = 0 \/ k <= token'
    BY <1>2, <2>1 DEF Reached
  <2>3. From \in Nat /\ k \in Nat /\ k \in Keys /\ Keep(k) /\ Within(k)
    BY <1>2, <1>3, <2>1, SetTypes, ConstantTypes DEF From, TypeOK, Asked
  <2>4. CASE k <= From
    <3>1. Took(k) \/ Left(k)
      BY <1>1, <1>2, <2>1, <2>4 DEF Reached
    <3>2. ~Left(k)
      BY <2>1 DEF PagingInv
    <3> QED BY <2>1, <3>1, <3>2
  <2>5. CASE k > From
    BY <1>2, <1>4, <2>1, <2>2, <2>3, <2>5, NewPage
  <2> QED BY <2>3, <2>4, <2>5
<1>5. CASE Lookup
  <2>1. /\ pc = "lookup" /\ pc' = "queue" /\ UNCHANGED <<planned, source, steady, token>>
        /\ DOMAIN page_keys' = DOMAIN page_keys
        /\ \A i \in DOMAIN page_keys : /\ page_keys'[i].key = page_keys[i].key
                                       /\ page_keys'[i].size = page_keys[i].size
    <3>1. \A e \in PageEntry : \A b : /\ [e EXCEPT !.exists = b].key = e.key
                                      /\ [e EXCEPT !.exists = b].size = e.size
      BY DEF PageEntry
    <3> QED BY <1>5, <3>1, EntryTypes DEF Lookup, paging, env
  <2>2. Took(k) \/ Left(k)
    BY <1>1, <1>2, <2>1 DEF Reached
  <2> QED BY <2>1, <2>2
<1>6. CASE EndPage
  <2>1. /\ pc = "queue" /\ UNCHANGED <<planned, source, steady, token, page_keys>>
        /\ \/ pc' = "done"
           \/ pc' = "list" /\ continuation' = token /\ token # 0
    BY <1>6 DEF EndPage, env
  <2>2. Reached(k)
    <3>1. pc' = "list" => k <= token
      BY <1>2, <2>1 DEF Reached, From
    <3>2. pc' = "done" => token = 0 \/ k <= token
      BY <1>2, <2>1 DEF Reached
    <3> QED BY <2>1, <3>1, <3>2 DEF Reached
  <2>3. Took(k) \/ Left(k)
    BY <1>1, <1>2, <2>1, <2>2
  <2> QED BY <2>1, <2>3
<1>7. CASE SkipExisting \/ Queue
  <2>1. /\ pc = "queue" /\ page_keys # <<>> /\ page_keys' = Tail(page_keys) /\ pc' = "queue"
        /\ UNCHANGED <<source, steady, token>>
    BY <1>2, <1>7, TakeUp DEF paging
  <2>2. PICK how \in {"queued", "existing"} : Done(how)
    BY <1>2, <1>7, TakeUp
  <2>3. Took(k) \/ Left(k)
    BY <1>1, <1>2, <2>1 DEF Reached
  <2>4. CASE Took(k)
    BY <2>1, <2>2, <2>4, NextOfPlan
  <2>5. CASE Left(k)
    <3>1. PICK i \in DOMAIN page_keys : page_keys[i].key = k /\ page_keys[i].size = source[k]
      BY <2>5
    <3>2. CASE i = 1
      <4>1. Obj = page_keys[i]
        BY <2>1, <3>2, NextOfPage
      <4>2. PICK n \in DOMAIN planned' : planned'[n].key = Obj.key /\ planned'[n].size = Obj.size
        BY <2>1, <2>2, NextOfPlan
      <4> QED BY <2>1, <3>1, <4>1, <4>2
    <3>3. CASE i # 1
      <4>1. PICK m \in DOMAIN page_keys' : page_keys'[m] = page_keys[i]
        BY <2>1, <3>3, NextOfPage
      <4> QED BY <2>1, <3>1, <4>1
    <3> QED BY <3>2, <3>3
  <2> QED BY <2>3, <2>4, <2>5
<1>8. CASE SourceChanges
  <2>1. /\ UNCHANGED <<pc, continuation, token, page_keys, planned>>
        /\ steady' \subseteq steady /\ source'[k] = source[k]
    BY <1>2, <1>8 DEF SourceChanges, paging, TypeOK
  <2>2. Reached(k)
    BY <1>0, <1>2, <2>1 DEF Reached, From
  <2>3. Took(k) \/ Left(k)
    BY <1>1, <1>2, <2>1, <2>2
  <2> QED BY <2>1, <2>3
<1>9. CASE /\ UNCHANGED <<source, steady, continuation, token, page_keys, planned>>
           /\ (pc' = pc \/ (pc = "queue" /\ pc' = "done") \/ pc' = "failed")
  <2>1. Reached(k)
    BY <1>0, <1>2, <1>9 DEF Reached, From
  <2>2. Took(k) \/ Left(k)
    BY <1>1, <1>2, <1>9, <2>1
  <2> QED BY <1>9, <2>2
<1>10. ListFails \/ LookupFails \/ Cut \/ Commit \/ UNCHANGED vars
        => /\ UNCHANGED <<source, steady, continuation, token, page_keys, planned>>
           /\ (pc' = pc \/ (pc = "queue" /\ pc' = "done") \/ pc' = "failed")
  BY DEF ListFails, LookupFails, Cut, Commit, vars, paging, env
<1> QED
  BY <1>4, <1>5, <1>6, <1>7, <1>8, <1>9, <1>10 DEF Next, Step, Over

\* Every step keeps the files found in place where they are, unless a key of the same
\* path is queued: a lookup finds what is there, and a commit is of a queued key.
LEMMA ExistStep ==
  ASSUME TypeOK, PagingInv, OrderInv, ExistInv, [Next]_vars
  PROVE  ExistInv'
<1>0. set' = set /\ \A k : PathOf(k)' = PathOf(k) /\ (Keep(k)' <=> Keep(k))
  BY TypeStep, AskedKept
<1>1. /\ \A i \in DOMAIN page_keys : page_keys[i].exists =>
           \/ dest[PathOf(page_keys[i].key)] = page_keys[i].size
           \/ \E j \in DOMAIN planned : /\ planned[j].how = "queued"
                                        /\ PathOf(planned[j].key) = PathOf(page_keys[i].key)
      /\ \A i \in DOMAIN planned :
           \/ planned[i].how = "queued"
           \/ dest[PathOf(planned[i].key)] = planned[i].size
           \/ \E j \in DOMAIN planned : j # i /\ PathOf(planned[j].key) = PathOf(planned[i].key)
  BY DEF ExistInv, SkippedStays
<1>2. SUFFICES
        /\ \A i \in DOMAIN page_keys' : page_keys'[i].exists =>
             \/ dest'[PathOf(page_keys'[i].key)] = page_keys'[i].size
             \/ \E j \in DOMAIN planned' : /\ planned'[j].how = "queued"
                                           /\ PathOf(planned'[j].key) = PathOf(page_keys'[i].key)
        /\ \A i \in DOMAIN planned' :
             \/ planned'[i].how = "queued"
             \/ dest'[PathOf(planned'[i].key)] = planned'[i].size
             \/ \E j \in DOMAIN planned' :
                  j # i /\ PathOf(planned'[j].key) = PathOf(planned'[i].key)
  BY <1>0 DEF ExistInv, SkippedStays
<1>3. CASE ListPage
  <2>1. UNCHANGED <<dest, planned>>
    BY <1>3 DEF ListPage, env
  <2>2. \A i \in DOMAIN page_keys' : ~page_keys'[i].exists
    BY <1>3, NewPage
  <2> QED BY <1>1, <2>1, <2>2
<1>4. CASE Lookup
  <2>1. /\ UNCHANGED <<dest, planned>> /\ DOMAIN page_keys' = DOMAIN page_keys
        /\ \A i \in DOMAIN page_keys : page_keys'[i] = [page_keys[i] EXCEPT !.exists =
             is_existing(Sizes_found, PathOf(page_keys[i].key), page_keys[i].size)]
    BY <1>4 DEF Lookup, env
  <2>2. \A e \in PageEntry : \A b : /\ [e EXCEPT !.exists = b].key = e.key
                                    /\ [e EXCEPT !.exists = b].size = e.size
                                    /\ [e EXCEPT !.exists = b].exists = b
    BY DEF PageEntry
  <2>3. \A p, z : is_existing(Sizes_found, p, z) => dest[p] = z
    BY DEF is_existing, Sizes_found
  <2>4. ASSUME NEW i \in DOMAIN page_keys', page_keys'[i].exists
        PROVE  dest[PathOf(page_keys'[i].key)] = page_keys'[i].size
    <3>1. page_keys[i] \in PageEntry
      BY <2>1, EntryTypes
    <3>2. PICK b : b = is_existing(Sizes_found, PathOf(page_keys[i].key), page_keys[i].size)
      OBVIOUS
    <3>3. page_keys'[i] = [page_keys[i] EXCEPT !.exists = b]
      BY <2>1, <3>2
    <3>4. page_keys'[i].key = page_keys[i].key /\ page_keys'[i].size = page_keys[i].size
          /\ page_keys'[i].exists = b
      BY <2>2, <3>1, <3>3
    <3>5. is_existing(Sizes_found, PathOf(page_keys[i].key), page_keys[i].size)
      BY <2>4, <3>2, <3>4
    <3> QED BY <2>3, <3>4, <3>5
  <2> QED BY <1>1, <2>1, <2>4
<1>5. CASE SkipExisting \/ Queue
  <2>1. /\ page_keys # <<>> /\ page_keys' = Tail(page_keys) /\ dest' = dest
        /\ \/ \E how \in {"queued", "existing"} : Done(how)
           \/ planned' = planned
    BY <1>5, TakeUp
  <2>2. /\ 1 \in DOMAIN page_keys /\ Obj = page_keys[1]
        /\ \A i \in DOMAIN page_keys' : i + 1 \in DOMAIN page_keys
                                        /\ page_keys'[i] = page_keys[i + 1]
    BY <2>1, NextOfPage
  <2>3. CASE planned' = planned
    BY <1>1, <2>1, <2>2, <2>3
  <2>4. CASE \E how \in {"queued", "existing"} : Done(how)
    <3>1. PICK how \in {"queued", "existing"} : Done(how)
      BY <2>4
    <3>2. PICK n : n = Len(planned) + 1
      OBVIOUS
    <3>3. /\ DOMAIN planned' = DOMAIN planned \cup {n} /\ n \notin DOMAIN planned
          /\ planned'[n].key = Obj.key /\ planned'[n].size = Obj.size /\ planned'[n].how = how
          /\ \A i \in DOMAIN planned : planned'[i] = planned[i]
      BY <2>1, <3>1, <3>2, NextOfPlan
    <3>4. how = "existing" => Obj.exists
      <4>1. CASE SkipExisting
        BY <4>1 DEF SkipExisting
      <4>2. CASE Queue
        <5>1. Done("queued") \/ planned' = planned
          BY <4>2 DEF Queue
        <5>2. planned' # planned
          BY <3>3
        <5>3. planned'[n].how = "queued"
          BY <2>1, <3>2, <5>1, <5>2, NextOfPlan
        <5> QED BY <3>3, <5>3
      <4> QED BY <1>5, <4>1, <4>2
    <3>5. \/ planned'[n].how = "queued"
          \/ dest[PathOf(planned'[n].key)] = planned'[n].size
          \/ \E j \in DOMAIN planned : PathOf(planned[j].key) = PathOf(planned'[n].key)
      BY <1>1, <2>2, <3>3, <3>4
    <3>6. \A i \in DOMAIN planned :
             \/ planned'[i].how = "queued"
             \/ dest'[PathOf(planned'[i].key)] = planned'[i].size
             \/ \E j \in DOMAIN planned' :
                  j # i /\ PathOf(planned'[j].key) = PathOf(planned'[i].key)
      BY <1>1, <2>1, <3>3
    <3>7. \/ planned'[n].how = "queued"
          \/ dest'[PathOf(planned'[n].key)] = planned'[n].size
          \/ \E j \in DOMAIN planned' : j # n /\ PathOf(planned'[j].key) = PathOf(planned'[n].key)
      BY <2>1, <3>3, <3>5
    <3>8. \A i \in DOMAIN page_keys' : page_keys'[i].exists =>
             \/ dest'[PathOf(page_keys'[i].key)] = page_keys'[i].size
             \/ \E j \in DOMAIN planned' : /\ planned'[j].how = "queued"
                                           /\ PathOf(planned'[j].key) = PathOf(page_keys'[i].key)
      BY <1>1, <2>1, <2>2, <3>3
    <3> QED BY <3>3, <3>6, <3>7, <3>8
  <2> QED BY <2>1, <2>3, <2>4
<1>6. CASE Commit
  <2>1. PICK q \in DOMAIN planned :
          /\ planned[q].how = "queued"
          /\ dest' = [dest EXCEPT ![PathOf(planned[q].key)] = planned[q].size]
    BY <1>6 DEF Commit
  <2>2. \A p \in Paths : p # PathOf(planned[q].key) => dest'[p] = dest[p]
    BY <2>1 DEF TypeOK
  <2>3. /\ \A i \in DOMAIN page_keys : PathOf(page_keys[i].key) \in Paths
        /\ \A i \in DOMAIN planned : PathOf(planned[i].key) \in Paths
    BY EntryTypes DEF OrderInv, Asked, Paths
  <2>4. UNCHANGED <<page_keys, planned>>
    BY <1>6 DEF Commit
  <2>5. \A i \in DOMAIN planned :
             \/ planned[i].how = "queued"
             \/ dest'[PathOf(planned[i].key)] = planned[i].size
             \/ \E j \in DOMAIN planned : j # i /\ PathOf(planned[j].key) = PathOf(planned[i].key)
    BY <1>1, <2>1, <2>2, <2>3
  <2>6. \A i \in DOMAIN page_keys : page_keys[i].exists =>
             \/ dest'[PathOf(page_keys[i].key)] = page_keys[i].size
             \/ \E j \in DOMAIN planned : /\ planned[j].how = "queued"
                                          /\ PathOf(planned[j].key) = PathOf(page_keys[i].key)
    BY <1>1, <2>1, <2>2, <2>3
  <2> QED BY <2>4, <2>5, <2>6
<1>7. CASE UNCHANGED <<dest, page_keys, planned>>
  BY <1>1, <1>7
<1>8. ListFails \/ LookupFails \/ Cut \/ EndPage \/ SourceChanges \/ UNCHANGED vars
        => UNCHANGED <<dest, page_keys, planned>>
  BY DEF ListFails, LookupFails, Cut, EndPage, SourceChanges, vars, env
<1> QED
  BY <1>3, <1>4, <1>5, <1>6, <1>7, <1>8 DEF Next, Step, Over

-----------------------------------------------------------------------------
(* Accounts.                                                               *)

\* Bytes of the objects I of sizes f, counted as Total counts them.
BytesOf(f, I) == Cardinality(UNION {{i} \X (1..f[i]) : i \in I})

\* The bytes of a set of objects are those of one of them and those of the others.
LEMMA BytesOfOne ==
  ASSUME NEW f, NEW K, IsFiniteSet(K), \A x \in K : f[x] \in Nat, NEW k \in K
  PROVE  /\ BytesOf(f, K \ {k}) \in Nat
         /\ BytesOf(f, K) = BytesOf(f, K \ {k}) + f[k]
<1> DEFINE BytesIn(S) == UNION {{x} \X (1..f[x]) : x \in S}
           file == {k} \X (1..f[k])
           rest == BytesIn(K \ {k})
<1>1. \A x \in K : IsFiniteSet({x} \X (1..f[x])) /\ Cardinality({x} \X (1..f[x])) = f[x]
  <2> TAKE x \in K
  <2>1. IsFiniteSet(1..f[x]) /\ Cardinality(1..f[x]) = f[x]
    <3>1. f[x] \in Nat
      OBVIOUS
    <3>2. \A m \in Nat : IsFiniteSet(1..m) /\ Cardinality(1..m) = m
      BY FS_Interval
    <3> QED BY <3>1, <3>2
  <2>2. IsFiniteSet({x}) /\ Cardinality({x}) = 1
    BY FS_Singleton
  <2>3. /\ IsFiniteSet({x} \X (1..f[x]))
        /\ Cardinality({x} \X (1..f[x])) = Cardinality({x}) * Cardinality(1..f[x])
    BY <2>1, <2>2, FS_Product
  <2> QED BY <2>1, <2>2, <2>3
<1>2. IsFiniteSet(rest)
  <2> DEFINE S == K \ {k}
             files == {{x} \X (1..f[x]) : x \in S}
             g == [x \in S |-> {x} \X (1..f[x])]
  <2>1. IsFiniteSet(S)
    BY FS_Subset
  <2>2. g \in Surjection(S, files)
    BY DEF Surjection
  <2>3. IsFiniteSet(files)
    <3> HIDE DEF g, files, S
    <3> QED BY <2>1, <2>2, FS_Surjection
  <2>4. \A b \in files : IsFiniteSet(b)
    BY <1>1
  <2>5. IsFiniteSet(UNION files)
    <3> HIDE DEF files
    <3> QED BY <2>3, <2>4, FS_UNION
  <2> QED BY <2>5
<1>3. BytesIn(K) = rest \cup file
  OBVIOUS
<1>4. rest \cap file = {}
  OBVIOUS
<1>5. IsFiniteSet(file) /\ Cardinality(file) = f[k] /\ f[k] \in Nat
  BY <1>1
<1>6. BytesOf(f, K) = Cardinality(BytesIn(K)) /\ BytesOf(f, K \ {k}) = Cardinality(rest)
  BY DEF BytesOf
<1> HIDE DEF BytesIn, rest, file
<1>7. Cardinality(rest) \in Nat
  BY <1>2, FS_CardinalityType
<1>8. Cardinality(rest \cup file) =
        Cardinality(rest) + Cardinality(file) - Cardinality(rest \cap file)
  BY <1>2, <1>5, FS_Union
<1>9. Cardinality(rest \cap file) = 0
  BY <1>4, FS_EmptySet
<1> QED BY <1>3, <1>5, <1>6, <1>7, <1>8, <1>9

\* What is planned keeps its bytes when the plan grows, and the new entry adds its own.
LEMMA TotalGrows ==
  ASSUME TypeOK, page_keys # <<>>, NEW how \in {"queued", "existing"}, Done(how),
         NEW I \in SUBSET DOMAIN planned, NEW n, n = Len(planned) + 1
  PROVE  /\ Total(I) \in Nat /\ Total(I)' = Total(I)
         /\ Total(I \cup {n})' = Total(I) + Obj.size
<1> DEFINE f == [i \in DOMAIN planned' |-> planned'[i].size]
           J == I \cup {n}
<1>1. /\ DOMAIN planned' = DOMAIN planned \cup {n} /\ n \notin DOMAIN planned
      /\ \A i \in DOMAIN planned : planned'[i] = planned[i]
      /\ planned'[n].size = Obj.size
  BY NextOfPlan
<1>2. /\ \A i \in DOMAIN planned : planned[i].size \in Nat
      /\ DOMAIN planned = 1..Len(planned) /\ Len(planned) \in Nat
  BY EntryTypes
<1>3. page_keys[1].size \in Nat /\ Obj = page_keys[1]
  <2>1. 1 \in DOMAIN page_keys
    BY EntryTypes DEF TypeOK
  <2>2. page_keys \in Seq(PageEntry)
    BY DEF TypeOK
  <2> QED BY <2>1, <2>2, EntryTypes DEF Obj
<1>4. IsFiniteSet(J) /\ J \subseteq DOMAIN planned' /\ J \ {n} = I /\ n \in J
  <2>1. IsFiniteSet(1..Len(planned))
    <3>1. \A m \in Nat : IsFiniteSet(1..m)
      BY FS_Interval
    <3> QED BY <1>2, <3>1
  <2>2. IsFiniteSet(I)
    BY <1>2, <2>1, FS_Subset
  <2> QED BY <1>1, <2>2, FS_AddElement
<1>5. \A i \in J : f[i] \in Nat
  BY <1>1, <1>2, <1>3, <1>4
<1>6. f[n] = Obj.size
  BY <1>1
<1>7. Total(I)' = BytesOf(f, I)
  BY <1>1 DEF Total, BytesOf
<1>8. Total(J)' = BytesOf(f, J)
  BY <1>4 DEF Total, BytesOf
<1>9. Total(I) = BytesOf(f, I)
  BY <1>1 DEF Total, BytesOf
<1> HIDE DEF f, J
<1>10. BytesOf(f, J \ {n}) \in Nat /\ BytesOf(f, J) = BytesOf(f, J \ {n}) + f[n]
  BY <1>4, <1>5, BytesOfOne
<1> QED BY <1>4, <1>6, <1>7, <1>8, <1>9, <1>10 DEF J

\* What SkipExisting and Queue do to the accounts.
LEMMA AccountTakeUp ==
  ASSUME TypeOK, AccountInv, SkipExisting \/ Queue, pc' # "consumer_gone"
  PROVE  /\ kept' + skipped_existing' = Len(planned')
         /\ acc_bytes' = Total(Queued)'
         /\ acc_bytes' + skipped_existing_bytes' = Total(DOMAIN planned)'
         /\ last_planned' = IF planned' = <<>> THEN 0 ELSE planned'[Len(planned')].key
<1>0. pc = "queue" /\ page_keys # <<>> /\ last_planned' = Obj.key
  BY TakeUp
<1>1. /\ kept \in Nat /\ skipped_existing \in Nat /\ acc_bytes \in Nat
      /\ skipped_existing_bytes \in Nat /\ Len(planned) \in Nat
  BY EntryTypes DEF TypeOK
<1>2. /\ kept + skipped_existing = Len(planned) /\ acc_bytes = Total(Queued)
      /\ acc_bytes + skipped_existing_bytes = Total(DOMAIN planned)
  BY <1>0 DEF AccountInv
<1>3. Obj.size \in Nat
  BY <1>0, EntryTypes DEF Obj, TypeOK
<1>4. PICK n : n = Len(planned) + 1
  OBVIOUS
<1>5. PICK Q : Q = Queued
  OBVIOUS
<1>6. PICK A : A = DOMAIN planned
  OBVIOUS
<1>7. Q \in SUBSET DOMAIN planned /\ A \in SUBSET DOMAIN planned
  BY <1>5, <1>6 DEF Queued
<1>8. ASSUME NEW how \in {"queued", "existing"}, Done(how)
      PROVE  /\ Len(planned') = Len(planned) + 1
             /\ Queued' = (IF how = "queued" THEN Q \cup {n} ELSE Q)
             /\ Total(Q)' = Total(Q) /\ Total(Q \cup {n})' = Total(Q) + Obj.size
             /\ Total(DOMAIN planned)' = Total(A) + Obj.size
             /\ last_planned' = IF planned' = <<>> THEN 0 ELSE planned'[Len(planned')].key
  <2>1. /\ Len(planned') = n /\ DOMAIN planned' = A \cup {n} /\ n \notin A
        /\ \A i \in A : planned'[i] = planned[i]
        /\ planned'[n].how = how /\ planned'[n].key = Obj.key
    BY <1>0, <1>4, <1>6, <1>8, NextOfPlan
  <2>2. Queued' = (IF how = "queued" THEN Q \cup {n} ELSE Q)
    BY <1>5, <1>6, <2>1 DEF Queued
  <2>3. Total(Q)' = Total(Q) /\ Total(Q \cup {n})' = Total(Q) + Obj.size
    BY <1>0, <1>4, <1>7, <1>8, TotalGrows
  <2>4. Total(A \cup {n})' = Total(A) + Obj.size
    BY <1>0, <1>4, <1>7, <1>8, TotalGrows
  <2>5. Total(DOMAIN planned)' = Total(A \cup {n})'
    BY <2>1 DEF Total
  <2>6. planned' # <<>>
    BY <2>1
  <2> QED BY <1>0, <1>4, <2>1, <2>2, <2>3, <2>4, <2>5, <2>6
<1>9. CASE SkipExisting
  <2>1. /\ Done("existing") /\ skipped_existing' = skipped_existing + 1 /\ kept' = kept
        /\ skipped_existing_bytes' = skipped_existing_bytes + Obj.size /\ acc_bytes' = acc_bytes
    BY <1>9 DEF SkipExisting
  <2>2. /\ Len(planned') = Len(planned) + 1 /\ Queued' = Q /\ Total(Q)' = Total(Q)
        /\ Total(DOMAIN planned)' = Total(A) + Obj.size
        /\ last_planned' = IF planned' = <<>> THEN 0 ELSE planned'[Len(planned')].key
    BY <1>8, <2>1
  <2>3. Total(Queued)' = Total(Q)'
    BY <2>2 DEF Total
  <2>4. kept' + skipped_existing' = Len(planned')
    BY <1>1, <1>2, <2>1, <2>2
  <2>5. acc_bytes' + skipped_existing_bytes' = Total(DOMAIN planned)'
    BY <1>1, <1>2, <1>3, <1>6, <2>1, <2>2
  <2> QED BY <1>2, <1>5, <2>1, <2>2, <2>3, <2>4, <2>5
<1>10. CASE Queue
  <2>1. /\ Done("queued") /\ kept' = kept + 1 /\ acc_bytes' = acc_bytes + Obj.size
        /\ UNCHANGED <<skipped_existing, skipped_existing_bytes>>
    BY <1>10 DEF Queue
  <2>2. /\ Len(planned') = Len(planned) + 1 /\ Queued' = Q \cup {n}
        /\ Total(Q \cup {n})' = Total(Q) + Obj.size
        /\ Total(DOMAIN planned)' = Total(A) + Obj.size
        /\ last_planned' = IF planned' = <<>> THEN 0 ELSE planned'[Len(planned')].key
    BY <1>8, <2>1
  <2>3. Total(Queued)' = Total(Q \cup {n})'
    BY <2>2 DEF Total
  <2>4. kept' + skipped_existing' = Len(planned')
    BY <1>1, <1>2, <2>1, <2>2
  <2>5. acc_bytes' + skipped_existing_bytes' = Total(DOMAIN planned)'
    BY <1>1, <1>2, <1>3, <1>6, <2>1, <2>2
  <2> QED BY <1>2, <1>5, <2>1, <2>2, <2>3, <2>4, <2>5
<1> QED BY <1>9, <1>10

\* Every step keeps the accounts.
LEMMA AccountStep ==
  ASSUME TypeOK, AccountInv, [Next]_vars
  PROVE  AccountInv'
<1>0. set' = set
  BY TypeStep
<1>1. CASE SkipExisting \/ Queue
  <2>1. pc = "queue" /\ pc' \in {"queue", "consumer_gone"} /\ limit_hit' = limit_hit
    BY <1>1, TakeUp
  <2>2. ~limit_hit'
    BY <2>1 DEF AccountInv
  <2>3. pc' # "consumer_gone" =>
         /\ kept' + skipped_existing' = Len(planned')
         /\ acc_bytes' = Total(Queued)'
         /\ acc_bytes' + skipped_existing_bytes' = Total(DOMAIN planned)'
         /\ last_planned' = IF planned' = <<>> THEN 0 ELSE planned'[Len(planned')].key
    BY <1>1, AccountTakeUp
  <2> QED BY <2>1, <2>2, <2>3 DEF AccountInv
<1>2. ASSUME UNCHANGED <<kept, skipped_existing, acc_bytes, skipped_existing_bytes,
                         last_planned, planned>>,
             pc # "consumer_gone" \/ pc' = "consumer_gone"
      PROVE  pc' # "consumer_gone" =>
               /\ kept' + skipped_existing' = Len(planned')
               /\ acc_bytes' = Total(Queued)'
               /\ acc_bytes' + skipped_existing_bytes' = Total(DOMAIN planned)'
               /\ last_planned' = IF planned' = <<>> THEN 0 ELSE planned'[Len(planned')].key
  <2>1. Total(Queued)' = Total(Queued) /\ Total(DOMAIN planned)' = Total(DOMAIN planned)
    BY <1>2 DEF Total, Queued
  <2> QED BY <1>2, <2>1 DEF AccountInv
<1>3. CASE Cut
  <2>1. /\ pc = "queue" /\ pc' = "done" /\ limit_hit' /\ LimitReached
        /\ UNCHANGED <<kept, skipped_existing, acc_bytes, skipped_existing_bytes,
                       last_planned, planned>>
    BY <1>3 DEF Cut
  <2>2. LimitReached'
    BY <1>0, <2>1 DEF LimitReached
  <2> QED BY <1>2, <2>1, <2>2 DEF AccountInv
<1>4. CASE EndPage
  <2>1. /\ pc = "queue" /\ page_keys' = <<>> /\ UNCHANGED <<totals, planned, range_end, token>>
        /\ \/ pc' = "done" /\ (range_end \/ token = 0)
           \/ pc' = "list"
    BY <1>4 DEF EndPage
  <2>2. ~limit_hit'
    BY <2>1 DEF AccountInv, totals
  <2> QED BY <1>2, <2>1, <2>2 DEF AccountInv, totals
<1>5. CASE /\ UNCHANGED <<totals, planned>> /\ pc \in {"list", "lookup"}
           /\ pc' \notin {"done", "consumer_gone"}
  <2>1. ~limit_hit'
    BY <1>5 DEF AccountInv, totals
  <2> QED BY <1>2, <1>5, <2>1 DEF AccountInv, totals
<1>6. CASE UNCHANGED <<totals, planned, pc, page_keys, range_end, token>>
  <2>1. LimitReached' <=> LimitReached
    BY <1>0, <1>6 DEF LimitReached, totals
  <2> QED BY <1>2, <1>6, <2>1 DEF AccountInv, totals
<1>7. ListPage \/ ListFails \/ Lookup \/ LookupFails
        => UNCHANGED <<totals, planned>> /\ pc \in {"list", "lookup"}
           /\ pc' \notin {"done", "consumer_gone"}
  BY DEF ListPage, ListFails, Lookup, LookupFails
<1>8. Commit \/ SourceChanges \/ UNCHANGED vars
        => UNCHANGED <<totals, planned, pc, page_keys, range_end, token>>
  BY DEF Commit, SourceChanges, vars, paging
<1> QED
  BY <1>1, <1>3, <1>4, <1>5, <1>6, <1>7, <1>8 DEF Next, Step, Over

\* Every step keeps what is queued, but for its last file, below the limit.
LEMMA LimitStep ==
  ASSUME TypeOK, AccountInv, LimitInv, [Next]_vars
  PROVE  LimitInv'
<1>0. set' = set
  BY TypeStep
<1>1. PICK Q : Q = Queued
  OBVIOUS
<1>2. /\ Q \subseteq DOMAIN planned /\ DOMAIN planned = 1..Len(planned) /\ Len(planned) \in Nat
      /\ set.limit > 0 /\ Q # {} => Total(Q \ {Max(Q)}) < set.limit
  BY <1>1, EntryTypes DEF LimitInv, Queued
<1>3. CASE planned' = planned
  BY <1>0, <1>3 DEF LimitInv, Queued, Total
<1>4. CASE SkipExisting
  <2>1. page_keys # <<>> /\ Done("existing")
    BY <1>4 DEF SkipExisting
  <2>2. PICK n : n = Len(planned) + 1
    OBVIOUS
  <2>3. Queued' = Q
    <3>1. /\ DOMAIN planned' = DOMAIN planned \cup {n} /\ planned'[n].how = "existing"
          /\ \A i \in DOMAIN planned : planned'[i] = planned[i]
      BY <2>1, <2>2, NextOfPlan
    <3> QED BY <1>1, <3>1 DEF Queued
  <2>4. PICK R : R = Q \ {Max(Q)}
    OBVIOUS
  <2>5. Total(R)' = Total(R)
    BY <1>2, <2>1, <2>2, <2>4, TotalGrows
  <2>6. Total(Queued \ {Max(Queued)})' = Total(R)'
    BY <2>3, <2>4 DEF Total
  <2> QED BY <1>0, <1>2, <2>3, <2>4, <2>5, <2>6 DEF LimitInv
<1>5. CASE Queue /\ planned' # planned
  <2>1. page_keys # <<>> /\ Done("queued") /\ pc = "queue" /\ ~LimitReached
    BY <1>5 DEF Queue
  <2>2. PICK n : n = Len(planned) + 1
    OBVIOUS
  <2>3. Queued' = Q \cup {n} /\ n \notin Q /\ n \in Nat /\ Q \cup {n} \subseteq 1..n
    <3>1. /\ DOMAIN planned' = DOMAIN planned \cup {n} /\ planned'[n].how = "queued"
          /\ n \notin DOMAIN planned
          /\ \A i \in DOMAIN planned : planned'[i] = planned[i]
      BY <2>1, <2>2, NextOfPlan
    <3>2. Queued' = Q \cup {n}
      BY <1>1, <3>1 DEF Queued
    <3> QED BY <1>2, <2>2, <3>1, <3>2
  <2>4. Max(Q \cup {n}) = n
    <3>1. PICK S : S = Q \cup {n}
      OBVIOUS
    <3>2. Max(S) \in S /\ \A y \in S : y <= Max(S)
      BY <2>3, <3>1, MaxInSet
    <3>3. Max(S) \in 1..n /\ n <= Max(S)
      BY <2>3, <3>1, <3>2
    <3> QED BY <2>3, <3>1, <3>3
  <2>5. (Queued \ {Max(Queued)})' = Q
    BY <2>3, <2>4
  <2>6. Total(Q)' = Total(Q)
    BY <1>2, <2>1, <2>2, TotalGrows
  <2>7. Total(Queued \ {Max(Queued)})' = Total(Q)'
    BY <2>5 DEF Total
  <2>8. set.limit > 0 => Total(Q) < set.limit
    <3>1. acc_bytes = Total(Q) /\ acc_bytes \in Nat /\ set.limit \in Nat
      BY <1>1, <2>1, SetTypes DEF AccountInv, TypeOK
    <3> QED BY <2>1, <3>1 DEF LimitReached
  <2> QED BY <1>0, <2>6, <2>7, <2>8 DEF LimitInv
<1>6. [Next]_vars => SkipExisting \/ Queue \/ planned' = planned
  BY DEF Next, Step, Over, ListPage, ListFails, Lookup, LookupFails, Cut, EndPage, Commit,
         SourceChanges, vars
<1> QED BY <1>3, <1>4, <1>5, <1>6

-----------------------------------------------------------------------------
(* The theorems.                                                           *)

\* The invariant holds of the initial states.
LEMMA ListingStarts == Init => ListingInv
<1> SUFFICES ASSUME Init
             PROVE  ListingInv
  OBVIOUS
<1>0. /\ Len(Universe) \in Nat /\ MAX_ATTEMPTS \in Nat \ {0} /\ MaxChanges \in Nat
      /\ Sources \subseteq [Keys -> Object] /\ Sizes \subseteq Nat
  BY ConstantTypes, ListingConstants
<1>1. planned = <<>> /\ page_keys = <<>> /\ DOMAIN planned = {} /\ DOMAIN page_keys = {}
  BY DEF Init
<1>2. TypeOK
  <2>1. range_end \in BOOLEAN /\ limit_hit \in BOOLEAN
    BY DEF Init
  <2>2. dest \in [Paths -> Object]
    <3>1. Absent \in Object
      BY DEF Object
    <3> QED BY <3>1 DEF Init
  <2>3. page_keys \in Seq(PageEntry) /\ planned \in Seq(PlannedEntry)
    BY <1>1
  <2>4. {kept, acc_bytes, skipped_existing, skipped_existing_bytes} \subseteq Nat
    BY DEF Init
  <2> QED BY <1>0, <2>1, <2>2, <2>3, <2>4 DEF Init, TypeOK
<1>3. PagingInv /\ OrderInv /\ ExistInv
  BY <1>1 DEF Init, PagingInv, OrderInv, ExistInv, SkippedStays
<1>4. CoverInv
  <2>1. set.start_after \in Nat
    BY SetTypes DEF Init
  <2>2. \A k \in Keys : Asked(k) => ~Reached(k)
    BY <2>1, ConstantTypes DEF Init, Asked, Reached, From
  <2> QED BY <2>2 DEF Init, CoverInv
<1>5. AccountInv
  <2>1. Queued = {}
    BY <1>1 DEF Queued
  <2>2. Total({}) = 0
    BY FS_EmptySet DEF Total
  <2>3. Len(planned) = 0
    BY <1>1
  <2> QED BY <1>1, <2>1, <2>2, <2>3 DEF Init, AccountInv
<1>6. LimitInv
  BY <1>1 DEF LimitInv, Queued
<1> QED BY <1>2, <1>3, <1>4, <1>5, <1>6 DEF ListingInv

\* Every step preserves it.
LEMMA ListingStep == ListingInv /\ [Next]_vars => ListingInv'
BY TypeStep, PagingStep, OrderStep, CoverStep, AccountStep, LimitStep, ExistStep DEF ListingInv

\* The invariant of the listing loop, whatever the source and the consumer do meanwhile.
THEOREM ListingInvariant == Spec => []ListingInv
BY ListingStarts, ListingStep, PTL DEF Spec

\* The variables of `run` keep their types, and no page is asked for more than
\* MAX_ATTEMPTS times.
THEOREM ListingTypeCorrect == Spec => []TypeOK
<1>1. ListingInv => TypeOK
  BY DEF ListingInv
<1> QED BY <1>1, ListingInvariant, PTL

\* Keys are taken up in order, each at most once, and only those the command line asks for.
THEOREM KeysTakenInOrder == Spec => []InOrderOnce
<1>1. ListingInv => InOrderOnce
  BY DEF ListingInv, OrderInv, InOrderOnce, Asked, Within
<1> QED BY <1>1, ListingInvariant, PTL

\* --limit-gib cuts the copy at the first file past the limit.
THEOREM LimitIsExact == Spec => []LimitExact
<1>1. ListingInv => LimitExact
  BY DEF ListingInv, LimitInv, AccountInv, LimitExact, LimitReached
<1> QED BY <1>1, ListingInvariant, PTL

\* A file skipped as existing stays in place unless another key goes to its path.
THEOREM SkippedFilesStay == Spec => []SkippedStays
<1>1. ListingInv => SkippedStays
  BY DEF ListingInv, ExistInv
<1> QED BY <1>1, ListingInvariant, PTL

\* The window that a copy has checked is the one it copied.
THEOREM WindowIsExact == Spec => []WindowIsPlanned
<1>1. ListingInv => WindowIsPlanned
  <2> SUFFICES ASSUME ListingInv, pc = "done"
               PROVE  LET w == copied_window
                      IN  /\ w.files = Len(planned) /\ w.bytes = Total(DOMAIN planned)
                          /\ \A i \in DOMAIN planned : InWindow(planned[i].key, w)
                          /\ \A k \in steady : source[k] # Absent /\ Keep(k) /\ InWindow(k, w) =>
                               \E i \in DOMAIN planned : /\ planned[i].key = k
                                                         /\ planned[i].size = source[k]
                          /\ w.stop_at = set.stop_at \/ set.limit > 0
    BY DEF WindowIsPlanned
  <2>0. /\ TypeOK /\ set.stop_at \in Nat /\ set.start_after \in Nat /\ set.limit \in Nat
        /\ acc_bytes \in Nat /\ token \in Nat /\ steady \subseteq Keys
        /\ \A k \in Keys : k \in Nat /\ k >= 1
    <3>1. TypeOK
      BY DEF ListingInv
    <3>2. /\ set \in Settings /\ {acc_bytes} \subseteq Nat /\ token \in 0..Len(Universe)
          /\ steady \subseteq Keys
      BY <3>1 DEF TypeOK
    <3>3. set.stop_at \in Nat /\ set.start_after \in Nat /\ set.limit \in Nat
      BY <3>2, SetTypes
    <3>4. Keys = 1..Len(Universe) /\ Len(Universe) \in Nat
      BY ConstantTypes
    <3>5. token \in Nat /\ \A k \in Keys : k \in Nat /\ k >= 1
      BY <3>2, <3>4
    <3> QED BY <3>1, <3>2, <3>3, <3>5
  <2>1. PICK stop : stop = IF limit_cut # 0 THEN limit_cut ELSE set.stop_at
    OBVIOUS
  <2>2. /\ copied_window.start_after = set.start_after /\ copied_window.stop_at = stop
        /\ copied_window.files = kept + skipped_existing
        /\ copied_window.bytes = acc_bytes + skipped_existing_bytes
    BY <2>1 DEF copied_window
  <2>3. /\ kept + skipped_existing = Len(planned)
        /\ acc_bytes = Total(Queued)
        /\ acc_bytes + skipped_existing_bytes = Total(DOMAIN planned)
        /\ last_planned = IF planned = <<>> THEN 0 ELSE planned[Len(planned)].key
        /\ limit_hit => LimitReached
        /\ ~limit_hit => page_keys = <<>> /\ (range_end \/ token = 0)
    BY DEF ListingInv, AccountInv
  <2>4. /\ Len(planned) \in Nat /\ DOMAIN planned = 1..Len(planned)
        /\ \A i \in DOMAIN planned : planned[i].key \in Keys /\ Asked(planned[i].key)
        /\ \A i, j \in DOMAIN planned : i < j => planned[i].key < planned[j].key
        /\ \A i \in DOMAIN planned, j \in DOMAIN page_keys : planned[i].key < page_keys[j].key
    BY <2>0, EntryTypes DEF ListingInv, OrderInv
  <2>5. CASE limit_hit
    <3>1. set.limit > 0 /\ acc_bytes >= set.limit
      BY <2>3, <2>5 DEF LimitReached
    <3>2. planned # <<>>
      <4>1. planned = <<>> => Queued = {}
        BY DEF Queued
      <4>2. Total({}) = 0
        BY FS_EmptySet DEF Total
      <4>3. planned = <<>> => acc_bytes = 0
        BY <2>3, <4>1, <4>2
      <4> QED BY <2>0, <3>1, <4>3
    <3>3. PICK n \in DOMAIN planned : n = Len(planned)
      <4>1. planned \in Seq(PlannedEntry)
        BY <2>0 DEF TypeOK
      <4>2. Len(planned) # 0
        BY <3>2, <4>1
      <4> QED BY <2>4, <4>2
    <3>4. last_planned = planned[n].key /\ stop = planned[n].key /\ stop \in Nat /\ stop # 0
      <4>1. last_planned = planned[n].key
        BY <2>3, <3>2, <3>3
      <4>2. planned[n].key \in Nat /\ planned[n].key # 0
        BY <2>0, <2>4
      <4> QED BY <2>1, <2>5, <4>1, <4>2 DEF limit_cut
    <3>5. \A i \in DOMAIN planned : planned[i].key <= stop /\ planned[i].key > set.start_after
      <4> TAKE i \in DOMAIN planned
      <4>1. i < n \/ i = n
        BY <2>4, <3>3
      <4>2. planned[i].key \in Nat /\ planned[n].key \in Nat /\ Asked(planned[i].key)
        BY <2>0, <2>4
      <4> QED BY <2>4, <3>4, <4>1, <4>2 DEF Asked
    <3>6. ASSUME NEW k \in steady, source[k] # Absent, Keep(k), k > set.start_after, k <= stop
          PROVE  \E i \in DOMAIN planned : planned[i].key = k /\ planned[i].size = source[k]
      <4>1. k \in Nat /\ planned[n].key \in Nat /\ Within(planned[n].key)
        BY <2>0, <2>4 DEF Asked
      <4>2. Within(k)
        BY <2>0, <3>4, <3>6, <4>1 DEF Within
      <4>3. token = 0 \/ planned[n].key <= token
        BY DEF ListingInv, OrderInv
      <4>4. Reached(k)
        BY <2>0, <3>4, <3>6, <4>1, <4>3 DEF Reached
      <4>5. Has(planned, k) \/ Has(page_keys, k)
        BY <3>6, <4>2, <4>4 DEF ListingInv, CoverInv, Asked
      <4>6. ~Has(page_keys, k)
        <5>1. \A j \in DOMAIN page_keys :
                planned[n].key < page_keys[j].key /\ page_keys[j].key \in Nat
          BY <2>0, <2>4, EntryTypes
        <5> QED BY <3>4, <3>6, <4>1, <5>1 DEF Has
      <4> QED BY <4>5, <4>6 DEF Has
    <3> QED BY <2>2, <2>3, <3>1, <3>4, <3>5, <3>6 DEF InWindow
  <2>6. CASE ~limit_hit
    <3>1. stop = set.stop_at
      BY <2>1, <2>6 DEF limit_cut
    <3>2. \A i \in DOMAIN planned : InWindow(planned[i].key, copied_window)
      BY <2>2, <2>4, <3>1 DEF InWindow, Asked, Within
    <3>3. ASSUME NEW k \in steady, source[k] # Absent, Keep(k), InWindow(k, copied_window)
          PROVE  \E i \in DOMAIN planned : planned[i].key = k /\ planned[i].size = source[k]
      <4>1. k > set.start_after /\ Within(k) /\ k \in Nat
        BY <2>0, <2>2, <3>1, <3>3 DEF InWindow, Within
      <4>2. token = 0 \/ k <= token
        <5>1. range_end => set.stop_at # 0 /\ (token = 0 \/ set.stop_at < token)
          BY DEF ListingInv, PagingInv
        <5> QED BY <2>0, <2>3, <2>6, <4>1, <5>1 DEF Within
      <4>3. Has(planned, k) \/ Has(page_keys, k)
        BY <3>3, <4>1, <4>2 DEF ListingInv, CoverInv, Asked, Reached
      <4>4. ~Has(page_keys, k)
        BY <2>3, <2>6 DEF Has
      <4> QED BY <4>3, <4>4 DEF Has
    <3> QED BY <2>2, <2>3, <3>1, <3>2, <3>3
  <2> QED BY <2>5, <2>6
<1> QED BY <1>1, ListingInvariant, PTL

-----------------------------------------------------------------------------
(* Paths and keys.                                                         *)

\* What strings are made of; the provers do not know that a literal is a STRING.
Token == STRING \cup {Slash}

\* Keys, prefixes and destinations are strings of tokens.
LEMMA TokensOfStrings ==
  ASSUME NEW s \in Seq(STRING)
  PROVE  s \in Seq(Token)
BY SeqMonotonic DEF Token

\* One slash is a string.
LEMMA SlashIsString == <<Slash>> \in Seq(Token) /\ <<>> \in Seq(Token)
<1>1. Slash \in Token
  BY DEF Token
<1> QED BY <1>1, EmptySeq

\* Concatenation is associative.
LEMMA Concatenation ==
  ASSUME NEW x \in Seq(Token), NEW y \in Seq(Token), NEW z \in Seq(Token)
  PROVE  (x \o y) \o z = x \o (y \o z)
BY ConcatAssociative

\* So a slash between two strings may be taken to either.
LEMMA AcrossSlash ==
  ASSUME NEW x \in Seq(Token), NEW y \in Seq(Token)
  PROVE  (x \o <<Slash>>) \o y = x \o (<<Slash>> \o y)
<1>1. PICK c \in Seq(Token) : c = <<Slash>>
  BY SlashIsString
<1>2. (x \o c) \o y = x \o (c \o y)
  BY Concatenation
<1> QED BY <1>1, <1>2

\* What follows the same beginning in the same string is the same.
LEMMA SameRest ==
  ASSUME NEW S, NEW x \in Seq(S), NEW y \in Seq(S), NEW z \in Seq(S), x \o y = x \o z
  PROVE  y = z
BY ConcatSimplifications

\* What starts with a string is that string and the rest.
LEMMA PrefixAndRest ==
  ASSUME NEW p \in Seq(Token), NEW s \in Seq(Token), IsPrefix(p, s)
  PROVE  /\ strip_prefix(s, p) \in Seq(Token) /\ s = p \o strip_prefix(s, p)
         /\ Len(s) = Len(p) + Len(strip_prefix(s, p))
<1> DEFINE n == Len(p)
           m == Len(s)
           r == strip_prefix(s, p)
<1>1. n \in Nat /\ m \in Nat /\ n <= m /\ SubSeq(p, 1, n) = SubSeq(s, 1, n)
  BY DEF IsPrefix
<1>2. \A i \in 1..m : s[i] \in Token
  BY ElementOfSeq
<1>3. /\ r \in Seq(Token) /\ Len(r) = m - n
      /\ \A i \in 1..(m - n) : r[i] = s[n + i]
  <2>1. \A i \in (n + 1)..m : s[i] \in Token
    BY <1>1, <1>2
  <2>2. /\ r \in Seq(Token)
        /\ Len(r) = IF n + 1 <= m THEN m - (n + 1) + 1 ELSE 0
        /\ \A i \in 1..(m - (n + 1) + 1) : r[i] = s[n + 1 + i - 1]
    BY <1>1, <2>1, SubSeqProperties DEF strip_prefix
  <2> HIDE DEF r
  <2> QED BY <1>1, <2>2
<1>4. p = SubSeq(s, 1, n)
  BY <1>1, SubSeqFull
<1>5. SubSeq(s, 1, n) \o SubSeq(s, n + 1, m) = SubSeq(s, 1, m)
  <2>1. 1 \in 1..(m + 1) /\ n \in (1 - 1)..m /\ m \in n..m
    BY <1>1
  <2> QED BY <2>1, ConcatAdjacentSubSeq
<1>6. SubSeq(s, 1, m) = s
  BY SubSeqFull
<1>7. s = p \o r
  BY <1>4, <1>5, <1>6 DEF strip_prefix
<1> QED BY <1>1, <1>3, <1>7

\* A string followed by another one starts with it and then has the other.
LEMMA RestOfConcat ==
  ASSUME NEW p \in Seq(Token), NEW r \in Seq(Token)
  PROVE  IsPrefix(p, p \o r) /\ strip_prefix(p \o r, p) = r
<1>1. /\ p \o r \in Seq(Token) /\ Len(p) \in Nat /\ Len(r) \in Nat
      /\ Len(p \o r) = Len(p) + Len(r)
      /\ \A i \in 1..Len(p) + Len(r) :
           (p \o r)[i] = IF i <= Len(p) THEN p[i] ELSE r[i - Len(p)]
  BY ConcatProperties, LenProperties
<1>2. PICK n \in Nat, m \in Nat : n = Len(p) /\ m = Len(r)
  BY <1>1
<1>3. PICK s \in Seq(Token) : s = p \o r
  BY <1>1
<1>4. \A i \in 1..(n + m) : s[i] = IF i <= n THEN p[i] ELSE r[i - n]
  BY <1>1, <1>2, <1>3
<1>5. /\ \A i \in 1..n : s[i] = p[i] /\ s[i] \in Token
      /\ \A i \in (n + 1)..(n + m) : s[i] \in Token
      /\ \A i \in 1..m : s[n + i] = r[i]
  <2>1. \A i \in 1..n : p[i] \in Token
    BY <1>2, ElementOfSeq
  <2>2. \A i \in 1..(n + m) : s[i] \in Token
    BY <1>1, <1>2, <1>3, ElementOfSeq
  <2> QED BY <1>4, <2>1, <2>2
<1>6. SubSeq(s, 1, n) = SubSeq(p, 1, n)
  <2>1. /\ SubSeq(s, 1, n) \in Seq(Token) /\ Len(SubSeq(s, 1, n)) = n
        /\ \A i \in 1..n : SubSeq(s, 1, n)[i] = s[i]
    BY <1>5, SubSeqProperties
  <2>2. SubSeq(p, 1, n) = p
    BY <1>2, SubSeqFull
  <2> QED BY <1>2, <1>5, <2>1, <2>2, SeqEqual
<1>7. SubSeq(s, n + 1, n + m) = r
  <2>1. /\ SubSeq(s, n + 1, n + m) \in Seq(Token) /\ Len(SubSeq(s, n + 1, n + m)) = m
        /\ \A i \in 1..m : SubSeq(s, n + 1, n + m)[i] = s[n + i]
    BY <1>5, SubSeqProperties
  <2>2. PICK t \in Seq(Token) : t = SubSeq(s, n + 1, n + m)
    BY <2>1
  <2>3. Len(t) = Len(r) /\ \A i \in 1..Len(t) : t[i] = r[i]
    BY <1>2, <1>5, <2>1, <2>2
  <2> QED BY <2>2, <2>3, SeqEqual
<1> QED BY <1>1, <1>2, <1>3, <1>6, <1>7 DEF IsPrefix, strip_prefix

\* Without an empty segment there is one slash to trim between a prefix and the rest.
LEMMA OneSlash ==
  ASSUME NEW p \in Seq(Token), NEW s \in Seq(Token), IsPrefix(p, s),
         strip_prefix(s, p) # <<>>, strip_prefix(s, p)[1] = Slash, ~HasEmptySegment(s)
  PROVE  /\ trim_slashes(strip_prefix(s, p)) \in Seq(Token)
         /\ s = p \o <<Slash>> \o trim_slashes(strip_prefix(s, p))
<1>1. PICK r \in Seq(Token) : r = strip_prefix(s, p) /\ s = p \o r /\ Len(s) = Len(p) + Len(r)
  BY PrefixAndRest
<1>2. PICK n \in Nat, m \in Nat : n = Len(p) /\ m = Len(r) /\ m >= 1 /\ Len(s) = n + m
  BY <1>1, LenProperties, EmptySeq
<1>3. \A i \in 1..m : r[i] = s[n + i] /\ r[i] \in Token
  <2>1. \A i \in 1..(n + m) : s[i] = IF i <= n THEN p[i] ELSE r[i - n]
    BY <1>1, <1>2, ConcatProperties
  <2>2. \A i \in 1..m : r[i] \in Token
    BY <1>2, ElementOfSeq
  <2> QED BY <2>1, <2>2
<1>4. r[1] = Slash
  BY <1>1
<1>5. s # <<>> /\ s[n + m] # Slash /\ \A i \in 1..(n + m - 1) : ~(s[i] = Slash /\ s[i + 1] = Slash)
  <2>1. s # <<>>
    BY <1>2, EmptySeq
  <2> QED BY <1>2, <2>1 DEF HasEmptySegment, ends_with_slash
<1>6. m >= 2 /\ r[2] # Slash
  <2>1. m # 1
    <3>1. r[1] = s[n + 1] /\ s[n + m] # Slash
      BY <1>2, <1>3, <1>5
    <3> QED BY <1>4, <3>1
  <2>2. ~(s[n + 1] = Slash /\ s[n + 1 + 1] = Slash)
    BY <1>2, <1>5, <2>1
  <2>3. s[n + 1] = Slash /\ s[n + 1 + 1] = r[2]
    BY <1>2, <1>3, <1>4, <2>1
  <2> QED BY <1>2, <2>1, <2>2, <2>3
<1>7. PICK N : N = {i \in DOMAIN r : r[i] # Slash}
  OBVIOUS
<1>8. 2 \in N /\ \A i \in N : i \in Nat /\ i >= 2
  <2>1. DOMAIN r = 1..m
    BY <1>2, LenProperties
  <2>2. \A i \in N : i \in 1..m /\ i # 1
    BY <1>4, <1>7, <2>1
  <2> QED BY <1>6, <1>7, <2>1, <2>2
<1>9. Min(N) = 2
  <2>1. Min(N) \in N /\ \A y \in N : Min(N) <= y
    <3>1. \E x \in N : \A y \in N : x <= y
      BY <1>8
    <3> QED BY <3>1 DEF Min
  <2> QED BY <1>8, <2>1
<1>10. trim_slashes(r) = SubSeq(r, 2, m)
  BY <1>2, <1>7, <1>8, <1>9 DEF trim_slashes
<1>11. SubSeq(r, 2, m) \in Seq(Token)
  <2>1. \A i \in 2..m : r[i] \in Token
    BY <1>3
  <2> QED BY <1>2, <2>1, SubSeqProperties
<1>12. r = <<Slash>> \o SubSeq(r, 2, m)
  <2>1. SubSeq(r, 1, m) = <<r[1]>> \o SubSeq(r, 1 + 1, m)
    BY <1>2, SubSeqRecursiveFirst
  <2>2. SubSeq(r, 1, m) = r
    BY <1>2, SubSeqFull
  <2> QED BY <1>4, <2>1, <2>2
<1>13. <<Slash>> \in Seq(Token)
  BY SlashIsString
<1>14. (p \o <<Slash>>) \o SubSeq(r, 2, m) = p \o (<<Slash>> \o SubSeq(r, 2, m))
  BY <1>11, AcrossSlash
<1> QED BY <1>1, <1>10, <1>11, <1>12, <1>14

\* The key of a path: the prefix and the path; the prefix itself, under its own name; or
\* the prefix, a slash and the path.
Folder(p)          == p = <<>> \/ ends_with_slash(p)
FromFolder(s, p, r) == Folder(p) /\ s = p \o r
Itself(s, p, r)     == ~Folder(p) /\ s = p /\ r = p
Below(s, p, r)      == ~Folder(p) /\ s = p \o <<Slash>> \o r

\* relative_key_path loses nothing of a key that is copied.
LEMMA RelativePath ==
  ASSUME NEW p \in Seq(Token), NEW s \in Seq(Token), IsPrefix(p, s),
         key_belongs_to_prefix(s, p), ~HasEmptySegment(s),
         NEW r, r = relative_key_path(s, p)
  PROVE  r \in Seq(Token) /\ (FromFolder(s, p, r) \/ Itself(s, p, r) \/ Below(s, p, r))
<1>0. strip_prefix(s, p) \in Seq(Token) /\ s = p \o strip_prefix(s, p)
  BY PrefixAndRest
<1>1. CASE p = <<>>
  <2>1. r = s /\ <<>> \o s = s
    BY <1>1, ConcatEmptySeq DEF relative_key_path
  <2> QED BY <1>1, <2>1 DEF FromFolder, Folder
<1>2. CASE p # <<>> /\ ends_with_slash(p)
  <2>1. r = strip_prefix(s, p)
    BY <1>2 DEF relative_key_path
  <2> QED BY <1>0, <1>2, <2>1 DEF FromFolder, Folder
<1>3. CASE p # <<>> /\ ~ends_with_slash(p) /\ s = p
  <2>1. strip_prefix(s, p) = <<>>
    BY <1>0, <1>3, ConcatEqualIffEmpty
  <2>2. r = s
    BY <1>3, <2>1 DEF relative_key_path
  <2> QED BY <1>3, <2>2 DEF Itself, Folder
<1>4. CASE p # <<>> /\ ~ends_with_slash(p) /\ s # p
  <2>1. strip_prefix(s, p) # <<>>
    BY <1>0, <1>4, ConcatEmptySeq
  <2>2. strip_prefix(s, p)[1] = Slash
    BY <1>4 DEF key_belongs_to_prefix
  <2>3. r = trim_slashes(strip_prefix(s, p))
    BY <1>4, <2>1, <2>2 DEF relative_key_path
  <2>4. r \in Seq(Token) /\ s = p \o <<Slash>> \o r
    BY <2>1, <2>2, <2>3, OneSlash
  <2> QED BY <1>4, <2>4 DEF Below, Folder
<1> QED BY <1>1, <1>2, <1>3, <1>4

\* The path of a file is the destination's directory and its relative path.
LEMMA PathIsBelow ==
  ASSUME NEW d \in Seq(Token), NEW r \in Seq(Token)
  PROVE  /\ destination_path(d, <<>>) \in Seq(Token)
         /\ destination_path(d, r) = destination_path(d, <<>>) \o r
<1>1. <<>> \in Seq(Token) /\ <<Slash>> \in Seq(Token)
  BY SlashIsString
<1>2. CASE d = <<>>
  BY <1>1, <1>2, ConcatEmptySeq DEF destination_path
<1>3. CASE d # <<>>
  <2>1. d \o <<Slash>> \in Seq(Token)
    BY <1>1, ConcatProperties
  <2>2. d \o <<Slash>> \o <<>> = d \o <<Slash>>
    BY <2>1, ConcatEmptySeq
  <2> QED BY <1>3, <2>1, <2>2 DEF destination_path
<1> QED BY <1>2, <1>3

\* source_key finds the key of a path again, unless the path names the prefix itself.
LEMMA SourceKeyOfPath ==
  ASSUME NEW d \in Seq(Token), NEW p \in Seq(Token), NEW s \in Seq(Token),
         NEW r \in Seq(Token), FromFolder(s, p, r) \/ Itself(s, p, r) \/ Below(s, p, r)
  PROVE  \/ source_key(destination_path(d, r), d, p) = s
         \/ Below(s, p, r) /\ r = p
<1>1. PICK b \in Seq(Token) : b = destination_path(d, <<>>) /\ destination_path(d, r) = b \o r
  BY PathIsBelow
<1>2. IsPrefix(b, b \o r) /\ strip_prefix(b \o r, b) = r
  BY RestOfConcat
<1>3. source_key(destination_path(d, r), d, p) =
        IF r = p /\ ~ends_with_slash(p) THEN r
        ELSE IF p = <<>> \/ ends_with_slash(p) THEN p \o r ELSE p \o <<Slash>> \o r
  BY <1>1, <1>2 DEF source_key
<1>4. CASE FromFolder(s, p, r)
  <2>1. r = p /\ ~ends_with_slash(p) => p \o r = r
    BY <1>4, ConcatEmptySeq DEF FromFolder, Folder
  <2> QED BY <1>3, <1>4, <2>1 DEF FromFolder, Folder
<1>5. CASE Itself(s, p, r)
  BY <1>3, <1>5 DEF Itself, Folder
<1>6. CASE Below(s, p, r)
  BY <1>3, <1>6 DEF Below, Folder
<1> QED BY <1>4, <1>5, <1>6

\* A key that is kept, and its path.
LEMMA PathOfKey ==
  ASSUME set \in Settings, NEW k \in Keys, Keep(k)
  PROVE  \E r \in Seq(Token) :
           /\ PathOf(k) = destination_path(set.dest, r)
           /\ \/ FromFolder(Universe[k], prefix, r) \/ Itself(Universe[k], prefix, r)
              \/ Below(Universe[k], prefix, r)
<1>1. PICK p \in Seq(Token), s \in Seq(Token) : p = prefix /\ s = Universe[k]
  BY SetTypes, ListingConstants, TokensOfStrings DEF Keys, prefix
<1>2. IsPrefix(p, s) /\ key_belongs_to_prefix(s, p) /\ ~HasEmptySegment(s)
  BY <1>1, KeptKeys
<1>3. PICK r : r = relative_key_path(s, p)
  OBVIOUS
<1>4. r \in Seq(Token) /\ (FromFolder(s, p, r) \/ Itself(s, p, r) \/ Below(s, p, r))
  BY <1>2, <1>3, RelativePath
<1>5. PathOf(k) = destination_path(set.dest, r)
  BY <1>1, <1>3 DEF PathOf
<1> QED BY <1>1, <1>4, <1>5

\* Of two keys one of which starts with the other, the longer one does not come first.
LEMMA LongerComesLater ==
  ASSUME NEW k \in Keys, NEW q \in Keys, IsPrefix(Universe[k], Universe[q])
  PROVE  k <= q
BY ListingConstants

\* The destination check can name the key of every path a copy writes, and two keys share
\* a path, only but for PREFIX and PREFIX/PREFIX.
THEOREM PathsAreInvertible == Spec => []PathsInvert
<1>1. ListingInv => PathsInvert
  <2> SUFFICES ASSUME ListingInv, NEW i \in DOMAIN planned, NEW j \in DOMAIN planned,
                      NEW k, NEW q, k = planned[i].key, q = planned[j].key
               PROVE  /\ Twin(k) \/ source_key(PathOf(k), set.dest, prefix) = Universe[k]
                      /\ PathOf(k) = PathOf(q) /\ k < q => Universe[k] = prefix /\ Twin(q)
    BY DEF PathsInvert
  <2>1. /\ set \in Settings /\ k \in Keys /\ q \in Keys /\ Keep(k) /\ Keep(q)
    BY EntryTypes DEF ListingInv, OrderInv, TypeOK, Asked
  <2>2. PICK d \in Seq(Token), p \in Seq(Token) : d = set.dest /\ p = prefix
    BY <2>1, SetTypes, TokensOfStrings DEF prefix
  <2>3. PICK r \in Seq(Token) :
          /\ PathOf(k) = destination_path(d, r)
          /\ \/ FromFolder(Universe[k], p, r) \/ Itself(Universe[k], p, r)
             \/ Below(Universe[k], p, r)
    BY <2>1, <2>2, PathOfKey
  <2>4. PICK u \in Seq(Token) :
          /\ PathOf(q) = destination_path(d, u)
          /\ \/ FromFolder(Universe[q], p, u) \/ Itself(Universe[q], p, u)
             \/ Below(Universe[q], p, u)
    BY <2>1, <2>2, PathOfKey
  <2>5. PICK s \in Seq(Token), t \in Seq(Token) : s = Universe[k] /\ t = Universe[q]
    <3>1. Universe \in Seq(Seq(STRING)) /\ k \in 1..Len(Universe) /\ q \in 1..Len(Universe)
      BY <2>1, ListingConstants DEF Keys
    <3>2. Universe[k] \in Seq(STRING) /\ Universe[q] \in Seq(STRING)
      BY <3>1, ElementOfSeq
    <3> QED BY <3>2, TokensOfStrings
  <2>6. Twin(k) \/ source_key(PathOf(k), set.dest, prefix) = Universe[k]
    <3>1. \/ source_key(destination_path(d, r), d, p) = s
          \/ Below(s, p, r) /\ r = p
      BY <2>3, <2>5, SourceKeyOfPath
    <3> QED BY <2>2, <2>3, <2>5, <3>1 DEF Twin, Below, Folder
  <2>7. ASSUME PathOf(k) = PathOf(q), k < q
        PROVE  Universe[k] = prefix /\ Twin(q)
    <3>1. r = u
      <4>1. PICK b \in Seq(Token) : b = destination_path(d, <<>>)
        BY PathIsBelow
      <4>2. destination_path(d, r) = b \o r /\ destination_path(d, u) = b \o u
        BY <4>1, PathIsBelow
      <4>3. b \o r = b \o u
        BY <2>3, <2>4, <2>7, <4>2
      <4> QED BY <4>3, SameRest
    <3>2. ~IsPrefix(t, s)
      <4>1. IsPrefix(t, s) => q <= k
        BY <2>1, <2>5, LongerComesLater
      <4>2. k \in Nat /\ q \in Nat
        BY <2>1, ConstantTypes
      <4> QED BY <2>7, <4>1, <4>2
    <3>3. s # t
      <4>1. IsPrefix(t, t \o <<>>) /\ t \o <<>> = t
        BY RestOfConcat, ConcatEmptySeq, EmptySeq
      <4> QED BY <3>2, <4>1
    <3>4. ~(Below(s, p, r) /\ Itself(t, p, r))
      <4>1. <<Slash>> \in Seq(Token)
        BY SlashIsString
      <4>2. <<Slash>> \o r \in Seq(Token) /\ (p \o <<Slash>>) \o r = p \o (<<Slash>> \o r)
        BY <4>1, ConcatProperties, Concatenation
      <4>3. IsPrefix(p, p \o <<Slash>> \o r)
        BY <4>2, RestOfConcat
      <4> QED BY <3>2, <4>3 DEF Below, Itself
    <3>5. Itself(s, p, r) /\ Below(t, p, r)
      BY <2>3, <2>4, <2>5, <3>1, <3>3, <3>4 DEF FromFolder, Itself, Below
    <3> QED BY <2>2, <2>5, <3>5 DEF Itself, Below, Twin, Folder
  <2> QED BY <2>6, <2>7
<1> QED BY <1>1, ListingInvariant, PTL
=============================================================================
