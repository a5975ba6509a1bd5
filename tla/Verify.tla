------------------------------- MODULE Verify -------------------------------
(***************************************************************************)
(* The destination check after a copy (verify.rs).  It waits until the     *)
(* destination's updatedAt holds still, lists the destination once and     *)
(* adds up files and bytes per planned range (pass 1), re-lists the source *)
(* of every range that does not add up and looks its keys up at the        *)
(* destination (pass 2), and asks the source about the missing ones.       *)
(*                                                                         *)
(* Nothing stands still meanwhile: ops of the copiers may still be applied *)
(* (a request outlives its sender), and the source may lose, gain or       *)
(* replace objects.                                                        *)
(*                                                                         *)
(* A key is a number, in key order, and stands for its destination path    *)
(* too.  An object is its size, or Absent.                                 *)
(***************************************************************************)
EXTENDS Integers, Sequences, FiniteSets, FiniteSetsExt

CONSTANTS
  NumKeys,           \* keys 1..NumKeys exist at either side
  Kept,              \* the ones filter_key keeps
  PlannedSize,       \* size of each planned key when it was listed
  Stops,             \* the last key of each range; range 1 starts at key 1
  Sizes,             \* sizes objects may have
  MAX_SOURCE_HEADS,  \* 1000 in the code
  MaxPolls,          \* SETTLE_MAX / SETTLE_POLL, 12 in the code
  MaxChanges         \* bound: changes of source and destination during the check

Keys    == 1..NumKeys
Ranges  == 1..Len(Stops)
Planned == DOMAIN PlannedSize

ASSUME VerifyConstants ==
  /\ NumKeys \in Nat /\ Kept \subseteq Keys /\ Planned \subseteq Kept
  /\ Sizes \subseteq Nat /\ PlannedSize \in [Planned -> Sizes]
  /\ Stops \in Seq(Keys) /\ \A i, j \in Ranges : i < j => Stops[i] < Stops[j]
  /\ \A k \in Planned : \E i \in Ranges : k <= Stops[i]
  /\ MAX_SOURCE_HEADS \in Nat /\ MaxPolls \in Nat /\ MaxChanges \in Nat

Absent == -1
Object == Sizes \cup {Absent}

SETTLE_QUIET_POLLS == 2

VARIABLES
  source,   \* external: the object under each key at the source
  dest,     \* external: the file at each key's destination path
  changes,  \* external: changes since the check began
  pc,       \* "settle", "tree", "range", "relist", "info", "heads", "done", "err"
  polls,    \* updatedAt polls so far
  moved,    \* the destination changed since the last one, or there was none
  quiet,    \* unchanged polls in a row
  settled,  \* what settle() returned
  cursor,   \* the last key the destination listing has passed
  listed,   \* what it found there
  idx,      \* the range in pass 2
  at,       \* the last key its re-listing has passed
  page,     \* objects of the current source page
  present, missing, short, raced,   \* the RangeDiffs, all ranges together
  extra,    \* Report.extra
  toHead,   \* missing keys of the range with a HEAD still to come
  heads,    \* heads_left
  touched   \* history: keys the source did not always hold as planned

env    == <<source, dest, changes, touched>>
settle == <<polls, moved, quiet, settled>>
pass1  == <<cursor, listed>>
diff   == <<present, missing, short, raced>>
vars == <<source, dest, changes, pc, polls, moved, quiet, settled, cursor, listed, idx, at,
          page, present, missing, short, raced, extra, toHead, heads, touched>>

-----------------------------------------------------------------------------
(* Operators named Bad... are faulty variants of the definition after them, *)
(* used only to see that a property notices the fault.                     *)

Start(i)  == IF i = 1 THEN 0 ELSE Stops[i - 1]
Window(i) == {k \in Keys : Start(i) < k /\ k <= Stops[i]}

\* locate(): the range of a key, if any.
Locate(k) == {i \in Ranges : Start(i) < k /\ k <= Stops[i]}

\* Tally: what pass 1 listed in a range.
Tally(i) == {k \in Keys : listed[k] # Absent /\ i \in Locate(k)}
\* The bytes of the files K of sizes f; a byte is a file and an offset in it.
Bytes(f, K) == Cardinality(UNION {{k} \X (1..f[k]) : k \in K})

\* suspects(): ranges whose file count or byte total differs from the plan.
BadSuspect(i) == Bytes(listed, Tally(i)) # Bytes(PlannedSize, Window(i) \cap Planned)
Suspect(i) ==
  LET planned == Window(i) \cap Planned
  IN  \/ Cardinality(Tally(i)) # Cardinality(planned)
      \/ Bytes(listed, Tally(i)) # Bytes(PlannedSize, planned)

\* RangeDiff::set_extra, a saturating subtraction.
BadExtraOf(i) == Cardinality(Tally(i)) - Cardinality(Window(i) \cap present)
ExtraOf(i) ==
  LET held == Cardinality(Window(i) \cap (present \cup short))
  IN  IF Cardinality(Tally(i)) > held THEN Cardinality(Tally(i)) - held ELSE 0

\* The first n keys of K, in listing order.
First(K, n) == {k \in K : Cardinality({j \in K : j <= k}) <= n}

\* report.ok
ok == missing \cup short = {}

\* The check begins after the copiers ended.  Since the plan was made the source
\* has changed, and the destination may hold stale and unplanned files.
Init ==
  /\ source \in [Keys -> Object] /\ dest \in [Keys -> Object] /\ changes = 0
  /\ \A k \in Planned : source[k] \in {PlannedSize[k], Absent}
  /\ touched = {k \in Keys : source[k] = Absent \/ k \notin Planned}
  /\ pc = "settle" /\ polls = 0 /\ moved = TRUE /\ quiet = 0 /\ settled = FALSE
  /\ cursor = 0 /\ listed = [k \in Keys |-> Absent]
  /\ idx = 0 /\ at = 0 /\ page = [k \in Keys |-> Absent]
  /\ present = {} /\ missing = {} /\ short = {} /\ raced = {}
  /\ extra = 0 /\ toHead = {} /\ heads = MAX_SOURCE_HEADS

-----------------------------------------------------------------------------
(* The world around the check.                                             *)

\* An op still in flight is applied: a planned file arrives.
LateOp(k) ==
  /\ changes < MaxChanges /\ k \in Planned /\ dest[k] = Absent
  /\ dest' = [dest EXCEPT ![k] = PlannedSize[k]]
  /\ changes' = changes + 1 /\ moved' = (pc = "settle")
  /\ UNCHANGED <<source, touched, pc, polls, quiet, settled, pass1, idx, at, page, diff, extra,
                 toHead, heads>>

\* Someone deletes, creates or replaces an object at the source.
SourceChanges(k) ==
  /\ changes < MaxChanges
  /\ \E o \in Object \ {source[k]} : source' = [source EXCEPT ![k] = o]
  /\ changes' = changes + 1 /\ touched' = touched \cup {k}
  /\ UNCHANGED <<dest, pc, settle, pass1, idx, at, page, diff, extra, toHead, heads>>

-----------------------------------------------------------------------------
(* settle()                                                                *)

\* SETTLE_MAX has passed: surely after MaxPolls polls, sooner if they are slow.
BadDeadline(expired) == ~expired        \* there is none
Deadline(expired)    == ~expired => polls + 1 < MaxPolls

\* settle() returns; its locals are gone.
SettleReturn(quietEnough) ==
  /\ pc' = "tree" /\ settled' = quietEnough
  /\ polls' = 0 /\ quiet' = 0 /\ moved' = FALSE

\* A poll that does not end the wait; the deadline may.
PollAgain(q) ==
  \E expired \in BOOLEAN :
    /\ Deadline(expired)
    /\ IF expired THEN SettleReturn(FALSE)
       ELSE /\ quiet' = q /\ moved' = FALSE
            /\ polls' = IF polls < MaxPolls THEN polls + 1 ELSE polls
            /\ UNCHANGED <<pc, settled>>

\* updatedAt cannot be read.
SettleFail ==
  /\ pc = "settle"
  /\ SettleReturn(FALSE)
  /\ UNCHANGED <<env, pass1, idx, at, page, diff, extra, toHead, heads>>

\* updatedAt is new: this destination changed, or another part of the bucket.
SettleMoved ==
  /\ pc = "settle"
  /\ PollAgain(0)
  /\ UNCHANGED <<env, pass1, idx, at, page, diff, extra, toHead, heads>>

SettleQuiet ==
  /\ pc = "settle" /\ ~moved
  /\ IF quiet + 1 >= SETTLE_QUIET_POLLS THEN SettleReturn(TRUE) ELSE PollAgain(quiet + 1)
  /\ UNCHANGED <<env, pass1, idx, at, page, diff, extra, toHead, heads>>

-----------------------------------------------------------------------------
(* Pass 1: one listing of the destination, page by page (sort=path).       *)

TreePage ==
  /\ pc = "tree" /\ cursor < NumKeys
  /\ cursor' = cursor + 1
  /\ listed' = [listed EXCEPT ![cursor + 1] = dest[cursor + 1]]
  /\ UNCHANGED <<env, pc, settle, idx, at, page, diff, extra, toHead, heads>>

TreeEnd ==
  /\ pc = "tree" /\ cursor = NumKeys
  /\ pc' = "range"
  /\ UNCHANGED <<env, settle, pass1, idx, at, page, diff, extra, toHead, heads>>

-----------------------------------------------------------------------------
(* Pass 2: the suspect ranges, in order.                                   *)

NextRange ==
  /\ pc = "range"
  /\ LET rest == {i \in Ranges : i > idx /\ Suspect(i)}
     IN  IF rest = {} THEN pc' = "done" /\ UNCHANGED <<idx, at>>
         ELSE pc' = "relist" /\ idx' = Min(rest) /\ at' = Start(Min(rest))
  /\ UNCHANGED <<env, settle, pass1, page, diff, extra, toHead, heads>>

\* One page of the source, with the copier's filter, up to the end of the range.
SourcePage(q) ==
  /\ pc = "relist" /\ at < q /\ q <= Stops[idx]
  /\ page' = [k \in Keys |-> IF at < k /\ k <= q /\ k \in Kept THEN source[k] ELSE Absent]
  /\ at' = q /\ pc' = "info"
  /\ UNCHANGED <<env, settle, pass1, idx, diff, extra, toHead, heads>>

\* What paths-info returns for a path: files with a size.
BadFound(k) == IF dest[k] = 0 THEN Absent ELSE dest[k]   \* an empty file has none
Found(k)    == dest[k]

\* paths-info of the page's objects; the last page leads to the HEADs of the
\* missing ones, as many as the run still may make.
PathsInfo ==
  /\ pc = "info"
  /\ LET objects == {k \in Keys : page[k] # Absent}
         absent  == {k \in objects : Found(k) = Absent}
         same    == {k \in objects : Found(k) = page[k]}
     IN  /\ missing' = missing \cup absent
         /\ present' = present \cup same
         /\ short'   = short \cup (objects \ (absent \cup same))
  /\ IF at < Stops[idx]
     THEN pc' = "relist" /\ UNCHANGED <<toHead, heads>>
     ELSE /\ pc' = "heads"
          /\ toHead' = First(missing' \cap Window(idx), heads)
          /\ heads' = heads - Cardinality(toHead')
  /\ page' = [k \in Keys |-> Absent]
  /\ UNCHANGED <<env, settle, pass1, idx, at, raced, extra>>

\* HEAD: a 404 makes the key raced; any other answer, or none, leaves it missing.
Gone(k) == source[k] = Absent
SourceHead(k) ==
  /\ pc = "heads" /\ k \in toHead
  /\ toHead' = toHead \ {k}
  /\ \/ Gone(k) /\ missing' = missing \ {k} /\ raced' = raced \cup {k}
     \/ UNCHANGED <<missing, raced>>
  /\ UNCHANGED <<env, pc, settle, pass1, idx, at, page, present, short, extra, heads>>

RangeEnd ==
  /\ pc = "heads" /\ toHead = {}
  /\ extra' = extra + ExtraOf(idx)
  /\ pc' = "range"
  /\ UNCHANGED <<env, settle, pass1, idx, at, page, diff, toHead, heads>>

\* A listing or a lookup fails after its retries.
CheckFail ==
  /\ pc \in {"tree", "relist", "info"}
  /\ pc' = "err"
  /\ UNCHANGED <<env, settle, pass1, idx, at, page, diff, extra, toHead, heads>>

-----------------------------------------------------------------------------
Check == \/ SettleFail \/ SettleMoved \/ SettleQuiet
         \/ TreePage \/ \E k \in Keys : SourcePage(k) \/ SourceHead(k)
         \/ TreeEnd \/ NextRange \/ PathsInfo \/ RangeEnd \/ CheckFail

Over == pc \in {"done", "err"} /\ UNCHANGED vars

Next == Check \/ (\E k \in Keys : LateOp(k) \/ SourceChanges(k)) \/ Over

Spec     == Init /\ [][Next]_vars
\* Requests have timeouts and bounded retries, the polls of settle() are sleeps.
FairSpec == Spec /\ WF_vars(Check)

-----------------------------------------------------------------------------
(* Properties.                                                             *)

\* Every variable of the check keeps its type.
TypeOK ==
  /\ source \in [Keys -> Object] /\ dest \in [Keys -> Object] /\ changes \in 0..MaxChanges
  /\ pc \in {"settle", "tree", "range", "relist", "info", "heads", "done", "err"}
  /\ polls \in 0..MaxPolls /\ moved \in BOOLEAN /\ quiet \in 0..SETTLE_QUIET_POLLS
  /\ settled \in BOOLEAN
  /\ cursor \in 0..NumKeys /\ listed \in [Keys -> Object]
  /\ idx \in 0..Len(Stops) /\ at \in 0..NumKeys /\ page \in [Keys -> Object]
  /\ present \in SUBSET Kept /\ missing \in SUBSET Kept
  /\ short \in SUBSET Kept /\ raced \in SUBSET Kept
  /\ extra \in Nat /\ toHead \in SUBSET missing /\ heads \in 0..MAX_SOURCE_HEADS
  /\ touched \in SUBSET Keys

\* A check that passes means what it says, although files arrive and objects
\* come and go while it runs: in a range without unplanned files, every planned
\* key whose source stayed as planned is at the destination, and with the planned
\* size unless two or more files of the range have other sizes (which may cancel
\* out in the totals of pass 1).
OkMeansPresent ==
  pc = "done" /\ ok =>
    \A i \in Ranges :
      LET there == {k \in Window(i) : dest[k] # Absent}
          odd   == {k \in there \cap Planned : dest[k] # PlannedSize[k]}
      IN  there \subseteq Planned =>
            \A k \in (Window(i) \cap Planned) \ touched :
              /\ dest[k] # Absent
              /\ Cardinality(odd) <= 1 => dest[k] = PlannedSize[k]

\* When nothing changes during the check its report is exact: of the ranges that
\* do not add up, it names the source's keys that are absent and the ones of
\* another size, and counts the files the source does not have.
QuietReportExact ==
  pc = "done" /\ changes = 0 =>
    LET suspect == UNION {Window(i) : i \in {j \in Ranges : Suspect(j)}}
        live    == {k \in suspect \cap Kept : source[k] # Absent}
    IN  /\ missing = {k \in live : dest[k] = Absent}
        /\ short = {k \in live : dest[k] \notin {Absent, source[k]}}
        /\ extra = Cardinality({k \in suspect \ live : dest[k] # Absent})

\* A planned file that pass 1 found in order is never blamed by pass 2, whatever
\* arrives in between, unless its source was changed.
NoFalseAlarm ==
  \A k \in (missing \cup short) \cap Planned :
    k \in touched \/ listed[k] # PlannedSize[k]

\* The check ends, also when the bucket never stops changing.
CheckEnds == <>(pc \in {"done", "err"})
=============================================================================
