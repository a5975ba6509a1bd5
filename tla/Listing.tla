------------------------------ MODULE Listing -------------------------------
(***************************************************************************)
(* The listing loop of a copier (`run`): pages of the source, filtered,    *)
(* looked up at the destination for --skip-existing, cut at --limit-gib    *)
(* and queued for the upload consumer, which commits at the same time; and *)
(* the window the copier then has checked.                                 *)
(*                                                                         *)
(* A key is its rank in byte order, the order S3 lists in; 0 stands for    *)
(* "none" before the first key.  The objects of the source may change      *)
(* between two requests.  Counters that are only logged, and the size      *)
(* histogram of a dry run, are left out.                                   *)
(***************************************************************************)
EXTENDS KeyPaths

CONSTANTS
  Universe,      \* all keys, in byte order
  Settings,      \* command lines: prefix, dest, start_after, stop_at, limit, skip, exclude
  Sources,       \* sources to start from: [Keys -> Object]
  Sizes,         \* sizes of objects
  PageSize,      \* keys in a page: 1000 for S3
  MAX_ATTEMPTS,  \* of list_page_with_retry: 8 in the code
  MaxChanges     \* bound: changes of the source

Keys   == 1..Len(Universe)
Absent == -1
Object == Sizes \cup {Absent}

ASSUME ListingConstants ==
  /\ Sizes \subseteq Nat /\ Sources \subseteq [Keys -> Object]
  /\ PageSize \in Nat \ {0} /\ MAX_ATTEMPTS \in Nat \ {0} /\ MaxChanges \in Nat
  /\ Universe \in Seq(Seq(STRING))
  /\ \A i, j \in Keys : IsPrefix(Universe[i], Universe[j]) => i <= j
  /\ Settings \subseteq [prefix : Seq(STRING), dest : Seq(STRING), start_after : {0} \cup Keys,
                         stop_at : {0} \cup Keys, limit : Nat, skip : BOOLEAN,
                         exclude : SUBSET Seq(STRING)]

VARIABLES
  set,           \* the command line
  source,        \* external: the object under each key
  dest,          \* external: the file at each destination path
  steady,        \* keys whose object did not change since the start
  changes,
  pc,            \* "list", "lookup", "queue", "done", "failed" or "consumer_gone"
  tries,         \* failed requests for this page
  continuation,  \* last key of the page before, or 0
  token,         \* of the page in hand: last key, or 0 when there are no more
  range_end,
  page_keys,     \* what is left of the page: key, size, exists
  kept, acc_bytes, skipped_existing, skipped_existing_bytes,
  last_planned, limit_hit,
  planned        \* what was done with keys, in order: key, size, how

env    == <<source, dest, steady, changes>>
paging == <<tries, continuation, token, range_end>>
totals == <<kept, acc_bytes, skipped_existing, skipped_existing_bytes, last_planned, limit_hit>>
vars   == <<set, env, pc, paging, page_keys, totals, planned>>

Final == {"done", "failed", "consumer_gone"}

prefix == set.prefix

Keep(k)   == filter_key(Universe[k], prefix, set.exclude) = "keep"
PathOf(k) == destination_path(set.dest, relative_key_path(Universe[k], prefix))
Paths     == {PathOf(k) : k \in {k \in Keys : Keep(k)}}

Init ==
  /\ set \in Settings /\ source \in Sources
  /\ dest \in IF set.skip THEN [Paths -> Object] ELSE [Paths -> {Absent}]
  /\ steady = Keys /\ changes = 0
  /\ pc = "list" /\ tries = 0 /\ continuation = 0 /\ token = 0 /\ range_end = FALSE
  /\ page_keys = <<>>
  /\ kept = 0 /\ acc_bytes = 0 /\ skipped_existing = 0 /\ skipped_existing_bytes = 0
  /\ last_planned = 0 /\ limit_hit = FALSE /\ planned = <<>>

-----------------------------------------------------------------------------
(* One page.  Operators named Bad... are faulty variants.                  *)

\* start-after seeds the first request only, then the token carries the position.
BadFrom == IF set.start_after # 0 THEN set.start_after ELSE continuation
From    == IF continuation # 0 THEN continuation ELSE set.start_after

\* external: ListObjectsV2 lists in order; a page may be short of PageSize.
Matching == {k \in Keys : source[k] # Absent /\ k > From /\ IsPrefix(prefix, Universe[k])}
Pages    == {P \in SUBSET Matching :
               /\ Cardinality(P) <= PageSize /\ (P = {} => Matching = {})
               /\ \A k \in P, q \in Matching \ P : k < q}

\* stop_at is inclusive; 0 is none.
Within(k) == set.stop_at = 0 \/ k <= set.stop_at

\* The keys of a page that the copier takes up, in listing order.
Taken(P)  == {k \in P : Within(k) /\ Keep(k)}
Nth(K, i) == CHOOSE k \in K : Cardinality({q \in K : q <= k}) = i

ListPage ==
  /\ pc = "list"
  /\ \E P \in Pages :
       /\ range_end' = (\E k \in P : ~Within(k))
       /\ page_keys' = [i \in 1..Cardinality(Taken(P)) |->
                          LET k == Nth(Taken(P), i)
                          IN  [key |-> k, size |-> source[k], exists |-> FALSE]]
       /\ token' = IF P = Matching THEN 0 ELSE Max(P)
  /\ pc' = IF set.skip THEN "lookup" ELSE "queue"
  /\ UNCHANGED <<set, env, tries, continuation, totals, planned>>

GivingUp == tries + 1 >= MAX_ATTEMPTS
BadListFails ==                            \* never given up
  /\ pc = "list" /\ tries' = (tries + 1) % MAX_ATTEMPTS
  /\ UNCHANGED <<set, env, pc, continuation, token, range_end, page_keys, totals, planned>>
ListFails ==
  /\ pc = "list"
  /\ IF GivingUp THEN pc' = "failed" /\ UNCHANGED tries
     ELSE tries' = tries + 1 /\ UNCHANGED pc
  /\ UNCHANGED <<set, env, continuation, token, range_end, page_keys, totals, planned>>

\* --skip-existing: one paths-info for the keys of the page.
Sizes_found == [p \in {q \in Paths : dest[q] # Absent} |-> dest[p]]
Lookup ==
  /\ pc = "lookup" /\ pc' = "queue"
  /\ page_keys' = [i \in DOMAIN page_keys |->
       [page_keys[i] EXCEPT !.exists =
          is_existing(Sizes_found, PathOf(page_keys[i].key), page_keys[i].size)]]
  /\ UNCHANGED <<set, env, paging, totals, planned>>

LookupFails ==
  /\ pc = "lookup" /\ page_keys # <<>> /\ pc' = "failed"
  /\ UNCHANGED <<set, env, paging, page_keys, totals, planned>>

-----------------------------------------------------------------------------
(* Pass 2: the next key of the page.                                       *)

Obj == Head(page_keys)
Done(how) == planned' = Append(planned, [key |-> Obj.key, size |-> Obj.size, how |-> how])

SkipExisting ==
  /\ pc = "queue" /\ page_keys # <<>> /\ Obj.exists
  /\ skipped_existing' = skipped_existing + 1
  /\ skipped_existing_bytes' = skipped_existing_bytes + Obj.size
  /\ last_planned' = Obj.key
  /\ page_keys' = Tail(page_keys) /\ Done("existing")
  /\ UNCHANGED <<set, env, pc, paging, kept, acc_bytes, limit_hit>>

BadLimitReached ==                         \* a skipped file eats the budget
  set.limit > 0 /\ acc_bytes + skipped_existing_bytes >= set.limit
LimitReached    == set.limit > 0 /\ acc_bytes >= set.limit

Cut ==
  /\ pc = "queue" /\ page_keys # <<>> /\ ~Obj.exists /\ LimitReached
  /\ limit_hit' = TRUE /\ pc' = "done"
  /\ UNCHANGED <<set, env, paging, page_keys, kept, acc_bytes, skipped_existing,
                 skipped_existing_bytes, last_planned, planned>>

\* send() succeeds, or the consumer has died and the listing stops.
Queue ==
  /\ pc = "queue" /\ page_keys # <<>> /\ ~Obj.exists /\ ~LimitReached
  /\ acc_bytes' = acc_bytes + Obj.size /\ kept' = kept + 1 /\ last_planned' = Obj.key
  /\ page_keys' = Tail(page_keys)
  /\ \/ Done("queued") /\ UNCHANGED pc
     \/ pc' = "consumer_gone" /\ UNCHANGED planned
  /\ UNCHANGED <<set, env, paging, skipped_existing, skipped_existing_bytes, limit_hit>>

EndPage ==
  /\ pc = "queue" /\ page_keys = <<>>
  /\ IF range_end \/ token = 0 THEN pc' = "done" /\ UNCHANGED <<tries, continuation>>
     ELSE pc' = "list" /\ continuation' = token /\ tries' = 0
  /\ UNCHANGED <<set, env, token, range_end, page_keys, totals, planned>>

-----------------------------------------------------------------------------
(* What happens meanwhile.                                                 *)

\* The consumer commits a queued file.
Commit ==
  /\ \E i \in DOMAIN planned :
       /\ planned[i].how = "queued" /\ dest[PathOf(planned[i].key)] # planned[i].size
       /\ dest' = [dest EXCEPT ![PathOf(planned[i].key)] = planned[i].size]
  /\ UNCHANGED <<set, source, steady, changes, pc, paging, page_keys, totals, planned>>

SourceChanges ==
  /\ pc \notin Final /\ changes < MaxChanges /\ changes' = changes + 1
  /\ \E k \in Keys : /\ \E o \in Object \ {source[k]} : source' = [source EXCEPT ![k] = o]
                     /\ steady' = steady \ {k}
  /\ UNCHANGED <<set, dest, pc, paging, page_keys, totals, planned>>

Over == pc \in Final /\ UNCHANGED vars

Step == ListPage \/ ListFails \/ Lookup \/ LookupFails \/ SkipExisting \/ Cut \/ Queue \/ EndPage
Next == Step \/ Commit \/ SourceChanges \/ Over

Spec == Init /\ [][Next]_vars

\* Requests are answered or time out; the consumer drains its channel or dies.
FairSpec == Spec /\ WF_vars(Step)

-----------------------------------------------------------------------------
(* The window a single-process copy checks.                                *)

BadLimitCut == 0                           \* always up to stop_at
limit_cut   == IF limit_hit THEN last_planned ELSE 0
copied_window ==
  [start_after |-> set.start_after,
   stop_at     |-> IF limit_cut # 0 THEN limit_cut ELSE set.stop_at,
   files       |-> kept + skipped_existing,
   bytes       |-> acc_bytes + skipped_existing_bytes]

-----------------------------------------------------------------------------
(* Properties.                                                             *)

InWindow(k, w) == k > w.start_after /\ (w.stop_at = 0 \/ k <= w.stop_at)
Queued         == {i \in DOMAIN planned : planned[i].how = "queued"}
\* Bytes of the entries I of planned; a byte is an entry and an offset in its object.
Total(I)       == Cardinality(UNION {{i} \X (1..planned[i].size) : i \in I})

\* What a page holds, and what was done.
PageEntry    == [key : Keys, size : Sizes, exists : BOOLEAN]
PlannedEntry == [key : Keys, size : Sizes, how : {"queued", "existing"}]

\* Every variable keeps its type; a page is not asked for more than MAX_ATTEMPTS times.
TypeOK ==
  /\ set \in Settings /\ source \in [Keys -> Object] /\ dest \in [Paths -> Object]
  /\ steady \subseteq Keys /\ changes \in 0..MaxChanges
  /\ pc \in Final \cup {"list", "lookup", "queue"}
  /\ tries \in 0..MAX_ATTEMPTS - 1 /\ continuation \in 0..Len(Universe)
  /\ token \in 0..Len(Universe) /\ range_end \in BOOLEAN /\ limit_hit \in BOOLEAN
  /\ page_keys \in Seq(PageEntry)
  /\ {kept, acc_bytes, skipped_existing, skipped_existing_bytes} \subseteq Nat
  /\ last_planned \in 0..Len(Universe)
  /\ planned \in Seq(PlannedEntry)

\* However the source changes between pages, the listing takes up keys in order, so
\* none twice, and only keys its command line asks for.
InOrderOnce ==
  /\ \A i, j \in DOMAIN planned : i < j => planned[i].key < planned[j].key
  /\ \A i \in DOMAIN planned :
       LET k == planned[i].key
       IN  Keep(k) /\ k > set.start_after /\ (set.stop_at = 0 \/ k <= set.stop_at)

\* The window a copy has checked is the one it copied: it lies within start_after and
\* stop_at, ends there unless the limit cut the listing, counts the files and bytes
\* queued or found in place, and no object that was there all along is left out of it.
WindowIsPlanned ==
  pc = "done" =>
    LET w == copied_window
    IN  /\ w.files = Len(planned) /\ w.bytes = Total(DOMAIN planned)
        /\ \A i \in DOMAIN planned : InWindow(planned[i].key, w)
        /\ \A k \in steady : source[k] # Absent /\ Keep(k) /\ InWindow(k, w) =>
             \E i \in DOMAIN planned : planned[i].key = k /\ planned[i].size = source[k]
        /\ w.stop_at = set.stop_at \/ set.limit > 0

\* --limit-gib cuts the copy at the first file past the limit: what is queued
\* reaches the limit with its last file only, and the listing is cut short only by
\* files that were queued, not by files found in place.
LimitExact ==
  set.limit > 0 =>
    /\ Queued # {} => Total(Queued \ {Max(Queued)}) < set.limit
    /\ limit_hit => Total(Queued) >= set.limit

\* A file skipped as existing stays in place with the size listed, whatever the
\* consumer commits, unless another key is copied to the same path.
SkippedStays ==
  \A i \in DOMAIN planned :
    \/ planned[i].how = "queued"
    \/ dest[PathOf(planned[i].key)] = planned[i].size
    \/ \E j \in DOMAIN planned : j # i /\ PathOf(planned[j].key) = PathOf(planned[i].key)

\* The check finds the key each copied path came from, and two keys share a path,
\* only with this exception: PREFIX itself and PREFIX/PREFIX.
Twin(k) == Universe[k] = prefix \o <<Slash>> \o prefix /\ ~ends_with_slash(prefix) /\ prefix # <<>>
PathsInvert ==
  \A i, j \in DOMAIN planned :
    LET k == planned[i].key
        q == planned[j].key
    IN  /\ Twin(k) \/ source_key(PathOf(k), set.dest, prefix) = Universe[k]
        /\ PathOf(k) = PathOf(q) /\ k < q => Universe[k] = prefix /\ Twin(q)

\* The listing ends: pages advance and failing requests are given up.
ListingEnds == <>(pc \in Final)

\* source_key is "the inverse of `destination_path(dest_prefix,
\* relative_key_path(key, src_prefix))`" (verify.rs), for every key a copy takes up.
SourceKeyInverts ==
  \A i \in DOMAIN planned :
    source_key(PathOf(planned[i].key), set.dest, prefix) = Universe[planned[i].key]
=============================================================================
